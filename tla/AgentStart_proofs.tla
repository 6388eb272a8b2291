--------------------------- MODULE AgentStart_proofs ---------------------------
(***************************************************************************)
(* The starts of the agent, for any presets, environments, kills, failures  *)
(* and reinstallations: types, the life of sessions and keys, the seed, and   *)
(* the two settings of the subscription form.                               *)
(***************************************************************************)
EXTENDS AgentStart, TLAPS

USE AgentStartAssumption

(* A secret that signed a session and is not the environment's is stored,   *)
(* main() makes a new one only while none is, and nobody takes another.     *)
SecretsStored ==
  /\ \A s \in sessions : s.fromEnv \/ s.secret = jwtSecret
  /\ stage = "saveJwt" => jwtSecret = None /\ env.jwtSecret = None
  /\ stage = "up" /\ env.jwtSecret = None => signing = jwtSecret

(* The presets before the one main() is at are there.                      *)
SeededSoFar ==
  /\ \A i \in DOMAIN Defaults : i < next => presets[Defaults[i]] # "absent"
  /\ stage = "insert" => next \in DOMAIN Defaults
  /\ stage = "insert" /\ counted => presets[Defaults[next]] # "absent"
  /\ stage \in {"jwt", "saveJwt", "up"} => next = Len(Defaults) + 1

Inv == TypeOK /\ SecretsStored /\ SeededSoFar

LEMMA InitInv == Init => Inv
<1> SUFFICES ASSUME Init PROVE Inv
  OBVIOUS
<1>1. TypeOK
  <2>1. Len(Defaults) \in Nat
    OBVIOUS
  <2>2. presets \in [Ids -> PresetStates] /\ env \in Environments
    BY DEF Init
  <2>3. next \in 1 .. Len(Defaults) + 1
    BY <2>1 DEF Init
  <2>4. sessions \in SUBSET [secret : Secrets, fromEnv : BOOLEAN]
    BY DEF Init
  <2>5. /\ saving \in [Admins -> {None} \cup Bases]
        /\ counted \in BOOLEAN /\ mixed \in BOOLEAN
        /\ crashes \in Nat /\ faults \in Nat /\ installs \in Nat
    BY DEF Init
  <2>6. base \in {None} \cup Bases /\ host \in {None} \cup STRING
    BY DEF Init
  <2> QED
    BY <2>2, <2>3, <2>4, <2>5, <2>6 DEF Init, TypeOK
<1>2. SecretsStored
  BY DEF Init, SecretsStored
<1>3. SeededSoFar
  BY DEF Init, SeededSoFar
<1> QED
  BY <1>1, <1>2, <1>3 DEF Inv

-----------------------------------------------------------------------------
(* The types of everything, step by step.                                  *)
LEMMA TypeNext == TypeOK /\ SeededSoFar /\ [Next]_agentVars => TypeOK'
<1> SUFFICES ASSUME TypeOK, SeededSoFar, [Next]_agentVars PROVE TypeOK'
  OBVIOUS
<1> USE DEF TypeOK, database, process, agentBounds, Exit, Fault
<1>0. /\ Len(Defaults) \in Nat /\ DOMAIN Defaults = 1 .. Len(Defaults)
      /\ env \in EnvironmentType
  OBVIOUS
<1>1. CASE StartUp
  BY <1>1 DEF StartUp
<1>2. CASE CountPreset
  <2>1. counted' \in BOOLEAN
    BY <1>2, Zenon DEF CountPreset
  <2>2. faults' \in Nat
    BY <1>2 DEF CountPreset
  <2> QED
    BY <1>2, <2>1, <2>2 DEF CountPreset
<1>3. CASE SkipPreset
  <2>1. next \in DOMAIN Defaults
    BY <1>3 DEF SkipPreset, SeededSoFar
  <2>2. next' \in 1 .. Len(Defaults) + 1
    BY <1>0, <1>3, <2>1 DEF SkipPreset
  <2> QED
    BY <1>3, <2>2 DEF SkipPreset
<1>4. CASE InsertPreset
  <2>1. presets' \in [Ids -> PresetStates]
    BY <1>4 DEF InsertPreset, PresetStates
  <2>2. next' \in 1 .. Len(Defaults) + 1
    BY <1>0, <1>4 DEF InsertPreset, SeededSoFar
  <2> QED
    BY <1>4, <2>1, <2>2 DEF InsertPreset
<1>5. CASE InsertRefused
  <2>1. next' \in 1 .. Len(Defaults) + 1
    BY <1>0, <1>5 DEF InsertRefused
  <2> QED
    BY <1>5, <2>1 DEF InsertRefused
<1>6. CASE EnsureAdminKey
  <2>1. adminToken' \in {None} \cup AdminKeys
    <3>1. KeyChoices \subseteq {None} \cup AdminKeys
      BY <1>0 DEF KeyChoices, EnvironmentType
    <3> QED
      BY <1>6, <3>1 DEF EnsureAdminKey
  <2>2. adminKey' \in {None} \cup AdminKeys
    BY <1>6, <2>1 DEF EnsureAdminKey
  <2> QED
    BY <1>6, <2>1, <2>2 DEF EnsureAdminKey
<1>7. CASE EnsureAdminKeyFails
  BY <1>0, <1>7 DEF EnsureAdminKeyFails, EnvironmentType
<1>8. CASE LoadJWTSecret
  <2>1. signing' \in {None} \cup Secrets
    BY <1>0, <1>8 DEF LoadJWTSecret, EnvironmentType
  <2> QED
    BY <1>8, <2>1 DEF LoadJWTSecret
<1>9. CASE SaveJWTSecret
  BY <1>9 DEF SaveJWTSecret
<1>10. CASE StatementFatal
  <2>1. next' \in 1 .. Len(Defaults) + 1 /\ faults' \in Nat
    BY <1>0, <1>10 DEF StatementFatal
  <2> QED
    BY <1>10, <2>1 DEF StatementFatal
<1>11. CASE IssueToken
  <2>1. /\ signing \in Secrets
        /\ sessions' = sessions \cup
             {[secret |-> signing, fromEnv |-> env.jwtSecret # None]}
    BY <1>11 DEF IssueToken
  <2>2. (env.jwtSecret # None) \in BOOLEAN
    BY Zenon
  <2>3. [secret |-> signing, fromEnv |-> env.jwtSecret # None]
          \in [secret : Secrets, fromEnv : BOOLEAN]
    BY <2>1, <2>2, Zenon
  <2>4. sessions' \in SUBSET [secret : Secrets, fromEnv : BOOLEAN]
    BY <2>1, <2>3, Zenon
  <2> QED
    BY <1>11, <2>4 DEF IssueToken
<1>12. ASSUME NEW p \in Ids, Edit(p) PROVE TypeOK'
  BY <1>12 DEF Edit, PresetStates
<1>13. ASSUME NEW a \in Admins, NEW b \in Bases, SaveSubscription(a, b) PROVE TypeOK'
  BY <1>13 DEF SaveSubscription
<1>14. ASSUME NEW a \in Admins, SavePublicHost(a) PROVE TypeOK'
  <2>1. saving[a] \in Bases /\ Host[saving[a]] \in {None} \cup STRING
    BY <1>14 DEF SavePublicHost
  <2>2. host' \in {None} \cup STRING
    <3>1. CASE host' = IF Host[saving[a]] = None THEN host ELSE Host[saving[a]]
      BY <2>1, <3>1, Zenon
    <3>2. CASE host' = host
      BY <3>2
    <3> QED
      BY <1>14, <3>1, <3>2, Zenon DEF SavePublicHost
  <2>3. mixed' \in BOOLEAN
    BY <1>14, Zenon DEF SavePublicHost
  <2>4. saving' \in [Admins -> {None} \cup Bases]
    BY <1>14 DEF SavePublicHost
  <2>5. faults' \in Nat
    BY <1>14 DEF SavePublicHost
  <2> QED
    BY <1>14, <2>2, <2>3, <2>4, <2>5 DEF SavePublicHost
<1>15. CASE Crash
  <2>1. next' \in 1 .. Len(Defaults) + 1 /\ crashes' \in Nat
    BY <1>0, <1>15 DEF Crash
  <2>2. mixed' \in BOOLEAN
    BY <1>15, Zenon DEF Crash
  <2>3. saving' \in [Admins -> {None} \cup Bases]
    BY <1>15 DEF Crash
  <2> QED
    BY <1>15, <2>1, <2>2, <2>3 DEF Crash
<1>16. CASE Reinstall
  BY <1>16 DEF Reinstall
<1>17. CASE UNCHANGED agentVars
  BY <1>17 DEF agentVars
<1> QED
  BY <1>1, <1>2, <1>3, <1>4, <1>5, <1>6, <1>7, <1>8, <1>9, <1>10, <1>11, <1>12,
     <1>13, <1>14, <1>15, <1>16, <1>17 DEF Next, Boot, Serve

(* What signs sessions, step by step: a secret is stored before it signs,   *)
(* and a stored one is what the next start finds.                          *)
LEMMA SecretsNext ==
  TypeOK /\ SecretsStored /\ [Next]_agentVars => SecretsStored'
<1> SUFFICES ASSUME TypeOK, SecretsStored, [Next]_agentVars PROVE SecretsStored'
  OBVIOUS
<1> USE DEF SecretsStored, database, process, agentBounds, Exit, Fault
<1>1. CASE StartUp
  BY <1>1 DEF StartUp
<1>2. CASE CountPreset
  BY <1>2 DEF CountPreset
<1>3. CASE SkipPreset
  BY <1>3 DEF SkipPreset
<1>4. CASE InsertPreset
  BY <1>4 DEF InsertPreset
<1>5. CASE InsertRefused
  BY <1>5 DEF InsertRefused
<1>6. CASE EnsureAdminKey
  BY <1>6 DEF EnsureAdminKey
<1>7. CASE EnsureAdminKeyFails
  BY <1>7 DEF EnsureAdminKeyFails
<1>8. CASE LoadJWTSecret
  BY <1>8 DEF LoadJWTSecret
<1>9. CASE SaveJWTSecret
  <2>1. \A s \in sessions : s.secret \in Secrets
    BY DEF TypeOK
  <2>2. \A s \in sessions : s.fromEnv
    BY <1>9, <2>1 DEF SaveJWTSecret
  <2> QED
    BY <1>9, <2>2 DEF SaveJWTSecret
<1>10. CASE StatementFatal
  BY <1>10 DEF StatementFatal
<1>11. CASE IssueToken
  <2> DEFINE t == [secret |-> signing, fromEnv |-> env.jwtSecret # None]
  <2>1. t.fromEnv \/ t.secret = jwtSecret
    BY <1>11 DEF IssueToken
  <2>2. sessions' = sessions \cup {t} /\ jwtSecret' = jwtSecret
    BY <1>11 DEF IssueToken
  <2>3. \A s \in sessions' : s.fromEnv \/ s.secret = jwtSecret'
    <3> HIDE DEF t
    <3> QED
      BY <2>1, <2>2
  <2> QED
    BY <1>11, <2>3 DEF IssueToken
<1>12. ASSUME NEW p \in Ids, Edit(p) PROVE SecretsStored'
  BY <1>12 DEF Edit
<1>13. ASSUME NEW a \in Admins, NEW b \in Bases, SaveSubscription(a, b)
       PROVE  SecretsStored'
  BY <1>13 DEF SaveSubscription
<1>14. ASSUME NEW a \in Admins, SavePublicHost(a) PROVE SecretsStored'
  BY <1>14 DEF SavePublicHost
<1>15. CASE Crash
  BY <1>15 DEF Crash
<1>16. CASE Reinstall
  BY <1>16 DEF Reinstall
<1>17. CASE UNCHANGED agentVars
  BY <1>17 DEF agentVars
<1> QED
  BY <1>1, <1>2, <1>3, <1>4, <1>5, <1>6, <1>7, <1>8, <1>9, <1>10, <1>11, <1>12,
     <1>13, <1>14, <1>15, <1>16, <1>17 DEF Next, Boot, Serve

(* No step takes a preset away, and none makes an edited one the default.   *)
LEMMA PresetsKept ==
  TypeOK /\ SeededSoFar /\ [Next]_agentVars =>
    \A p \in Ids : /\ presets[p] # "absent" => presets'[p] # "absent"
                   /\ presets[p] = "edited" => presets'[p] = "edited"
<1> SUFFICES ASSUME TypeOK, SeededSoFar, [Next]_agentVars, NEW p \in Ids
             PROVE  /\ presets[p] # "absent" => presets'[p] # "absent"
                    /\ presets[p] = "edited" => presets'[p] = "edited"
  OBVIOUS
<1> USE DEF database
<1>1. CASE InsertPreset
  BY <1>1 DEF InsertPreset, TypeOK, SeededSoFar
<1>2. ASSUME NEW q \in Ids, Edit(q)
      PROVE  /\ presets[p] # "absent" => presets'[p] # "absent"
             /\ presets[p] = "edited" => presets'[p] = "edited"
  BY <1>2 DEF Edit, TypeOK
<1>3. CASE UNCHANGED presets
  BY <1>3
<1>4. \/ InsertPreset \/ (\E q \in Ids : Edit(q)) \/ UNCHANGED presets
  BY DEF Next, Boot, Serve, StartUp, CountPreset, SkipPreset, InsertRefused,
     EnsureAdminKey, EnsureAdminKeyFails, LoadJWTSecret, SaveJWTSecret, StatementFatal,
     IssueToken, SaveSubscription, SavePublicHost, Crash, Reinstall, agentVars
<1> QED
  BY <1>1, <1>2, <1>3, <1>4

(* main() passes a preset only when its row is there.                      *)
LEMMA SeededNext == TypeOK /\ SeededSoFar /\ [Next]_agentVars => SeededSoFar'
<1> SUFFICES ASSUME TypeOK, SeededSoFar, [Next]_agentVars PROVE SeededSoFar'
  OBVIOUS
<1>0. /\ Len(Defaults) \in Nat /\ DOMAIN Defaults = 1 .. Len(Defaults)
      /\ next \in 1 .. Len(Defaults) + 1
      /\ \A i \in DOMAIN Defaults : Defaults[i] \in Ids
      /\ \A i \in DOMAIN Defaults : i < next => presets[Defaults[i]] # "absent"
  BY DEF TypeOK, SeededSoFar, Ids
<1>1. \A i \in DOMAIN Defaults :
        presets[Defaults[i]] # "absent" => presets'[Defaults[i]] # "absent"
  BY <1>0, PresetsKept
<1> USE DEF database, process, agentBounds, Exit, Fault
<1>2. CASE stage' = "down" /\ next' = 1
  BY <1>0, <1>2 DEF SeededSoFar
<1>3. CASE CountPreset
  <2>1. next \in DOMAIN Defaults
    BY <1>0, <1>3 DEF CountPreset, Seeding
  <2>2. counted' => presets[Defaults[next]] # "absent"
    BY <1>3 DEF CountPreset
  <2> QED
    BY <1>0, <1>1, <1>3, <2>1, <2>2 DEF CountPreset, SeededSoFar
<1>4. CASE SkipPreset
  <2>1. next \in DOMAIN Defaults /\ presets[Defaults[next]] # "absent"
    BY <1>4 DEF SkipPreset, SeededSoFar
  <2>2. \A i \in DOMAIN Defaults : i < next + 1 => i < next \/ i = next
    BY <1>0
  <2> QED
    BY <1>0, <1>1, <1>4, <2>1, <2>2 DEF SkipPreset, SeededSoFar
<1>5. CASE InsertPreset
  <2>1. next \in DOMAIN Defaults /\ presets'[Defaults[next]] = "default"
    BY <1>0, <1>5 DEF InsertPreset, SeededSoFar, TypeOK
  <2>2. \A i \in DOMAIN Defaults : i < next + 1 => i < next \/ i = next
    BY <1>0
  <2> QED
    BY <1>0, <1>1, <1>5, <2>1, <2>2 DEF InsertPreset, SeededSoFar
<1>6. CASE EnsureAdminKey \/ EnsureAdminKeyFails
  <2>1. next = Len(Defaults) + 1
    BY <1>0, <1>6 DEF EnsureAdminKey, EnsureAdminKeyFails, Seeding, TypeOK
  <2>2. stage' = "jwt" /\ next' = next /\ presets' = presets
    BY <1>6 DEF EnsureAdminKey, EnsureAdminKeyFails
  <2> QED
    BY <1>0, <2>1, <2>2 DEF SeededSoFar
<1>7. CASE LoadJWTSecret \/ SaveJWTSecret
  <2>1. /\ stage \in {"jwt", "saveJwt"} /\ stage' \in {"saveJwt", "up"}
        /\ next' = next /\ presets' = presets
    BY <1>7 DEF LoadJWTSecret, SaveJWTSecret
  <2> QED
    BY <1>0, <2>1 DEF SeededSoFar
<1>8. CASE StartUp
  BY <1>0, <1>8 DEF StartUp, SeededSoFar
<1>9. CASE stage' = stage /\ next' = next /\ counted' = counted
  <2>1. stage = "insert" => next \in DOMAIN Defaults
    BY DEF SeededSoFar
  <2> QED
    BY <1>0, <1>1, <1>9, <2>1 DEF SeededSoFar
<1> QED
  BY <1>2, <1>3, <1>4, <1>5, <1>6, <1>7, <1>8, <1>9
     DEF Next, Boot, Serve, InsertRefused, StatementFatal, IssueToken, Edit,
         SaveSubscription, SavePublicHost, Crash, Reinstall, agentVars

-----------------------------------------------------------------------------
LEMMA InvAlways == Spec => []Inv
<1>1. Init => Inv
  BY InitInv
<1>2. Inv /\ [Next]_agentVars => Inv'
  BY TypeNext, SecretsNext, SeededNext DEF Inv
<1> QED
  BY <1>1, <1>2, PTL DEF Spec

(* Types, and: an agent that serves has a secret to sign with, for any      *)
(* environments, kills, failures and reinstallations (main).               *)
THEOREM TypeCorrect == Spec => []TypeOK
<1>1. Inv => TypeOK
  BY DEF Inv
<1> QED
  BY <1>1, InvAlways, PTL

(* A session outlives every kill, failed start and reinstallation, unless   *)
(* KOSIRO_JWT_SECRET is set or taken away (EnsureJWTSecret).                *)
THEOREM SessionsOutliveRestarts == Spec => []SessionsSurvive
<1>1. Inv => SessionsSurvive
  BY DEF Inv, SecretsStored, SessionsSurvive
<1> QED
  BY <1>1, InvAlways, PTL

(* Whatever number of presets there is, wherever starts are interrupted:    *)
(* all of them are there when the agent serves (seedDefaultProtocols).      *)
THEOREM SeededBeforeServing == Spec => []SeedComplete
<1>1. Inv => SeedComplete
  <2> SUFFICES ASSUME Inv, stage = "up", NEW p \in Ids PROVE presets[p] # "absent"
    BY DEF SeedComplete
  <2>1. PICK i \in DOMAIN Defaults : p = Defaults[i]
    BY DEF Ids
  <2>2. Len(Defaults) \in Nat /\ i \in 1 .. Len(Defaults)
    BY <2>1
  <2>3. i < next
    BY <2>2 DEF Inv, SeededSoFar
  <2> QED
    BY <2>1, <2>3 DEF Inv, SeededSoFar
<1> QED
  BY <1>1, InvAlways, PTL

(* No start, and nothing else, makes an edited preset the default again     *)
(* (seedDefaultProtocols).                                                 *)
THEOREM EditsOutliveStarts == Spec => SeedKeepsEdits
<1>1. Inv /\ [Next]_agentVars =>
        [\A p \in Ids : presets[p] = "edited" => presets'[p] = "edited"]_agentVars
  BY PresetsKept DEF Inv
<1> QED
  BY <1>1, InvAlways, PTL DEF Spec, SeedKeepsEdits

-----------------------------------------------------------------------------
(* From the stage on in which a start has chosen its admin key.             *)
KeyStored ==
  stage \in {"jwt", "saveJwt", "up"} /\ env.adminToken = None /\ adminToken # None =>
    adminKey = adminToken

(* Every start accepts the admin key that is in the database, unless one    *)
(* comes from the environment (EnsureAdminKey).                             *)
THEOREM KeysInStep == Spec => []StoredKeyServes
<1>1. Init => KeyStored
  BY DEF Init, KeyStored
<1>2. KeyStored /\ [Next]_agentVars => KeyStored'
  <2> SUFFICES ASSUME KeyStored, [Next]_agentVars PROVE KeyStored'
    OBVIOUS
  <2> USE DEF KeyStored, database, process, agentBounds, Exit
  <2>1. CASE Boot
    BY <2>1 DEF Boot, StartUp, CountPreset, SkipPreset, InsertPreset, InsertRefused,
       EnsureAdminKey, EnsureAdminKeyFails, LoadJWTSecret, SaveJWTSecret, StatementFatal
  <2>2. CASE Serve
    BY <2>2 DEF Serve, IssueToken, Edit, SaveSubscription, SavePublicHost
  <2>3. CASE Crash \/ Reinstall
    BY <2>3 DEF Crash, Reinstall
  <2>4. CASE UNCHANGED agentVars
    BY <2>4 DEF agentVars
  <2> QED
    BY <2>1, <2>2, <2>3, <2>4 DEF Next
<1>3. KeyStored => StoredKeyServes
  BY DEF KeyStored, StoredKeyServes
<1> QED
  BY <1>1, <1>2, <1>3, PTL DEF Spec

(* As long as saves do not overlap there is one at most, it has written its *)
(* base URL, and the host of the last one is in the database.               *)
OneSave ==
  ~mixed =>
    /\ \A a, b \in Admins : saving[a] # None /\ saving[b] # None => a = b
    /\ \A a \in Admins : saving[a] # None => saving[a] = base
    /\ base # None /\ (\A a \in Admins : saving[a] = None) => Host[base] \in {None, host}

LEMMA OneSaveNext == TypeOK /\ OneSave /\ [Next]_agentVars => OneSave'
<1> SUFFICES ASSUME TypeOK, OneSave, [Next]_agentVars PROVE OneSave'
  OBVIOUS
<1>0. saving \in [Admins -> {None} \cup Bases] /\ None \notin Bases
  BY DEF TypeOK
<1>1. ASSUME NEW a \in Admins, NEW b \in Bases, SaveSubscription(a, b) PROVE OneSave'
  <2>1. /\ base' = b /\ saving' = [saving EXCEPT ![a] = b]
        /\ mixed' = (\E other \in Admins : saving[other] # None)
    BY <1>1 DEF SaveSubscription
  <2>2. ~mixed' => \A c \in Admins : saving'[c] # None => c = a /\ saving'[c] = b
    BY <1>0, <2>1
  <2>3. saving'[a] # None
    BY <1>0, <2>1
  <2> QED
    BY <2>1, <2>2, <2>3 DEF OneSave
<1>2. ASSUME NEW a \in Admins, SavePublicHost(a) PROVE OneSave'
  <2>1. /\ saving[a] # None /\ saving' = [saving EXCEPT ![a] = None] /\ base' = base
        /\ mixed' = mixed \/ mixed' = TRUE
        /\ ~mixed' => host' = IF Host[saving[a]] = None THEN host ELSE Host[saving[a]]
    BY <1>2 DEF SavePublicHost
  <2> SUFFICES ASSUME ~mixed' PROVE OneSave'
    BY DEF OneSave
  <2>2. ~mixed /\ saving[a] = base
    BY <2>1 DEF OneSave
  <2>3. \A c \in Admins : saving'[c] = None
    BY <1>0, <2>1, <2>2 DEF OneSave
  <2>4. Host[base] \in {None, host'}
    BY <2>1, <2>2
  <2> QED
    BY <2>1, <2>3, <2>4 DEF OneSave
<1>3. CASE Crash
  <2>1. /\ saving' = [a \in Admins |-> None] /\ base' = base /\ host' = host
        /\ mixed' = (mixed \/ \E a \in Admins : saving[a] # None)
    BY <1>3 DEF Crash, database
  <2> QED
    BY <2>1 DEF OneSave
<1>4. CASE UNCHANGED <<base, host, saving, mixed>>
  BY <1>4 DEF OneSave
<1>5. \/ \E a \in Admins, b \in Bases : SaveSubscription(a, b)
      \/ \E a \in Admins : SavePublicHost(a)
      \/ Crash
      \/ UNCHANGED <<base, host, saving, mixed>>
  BY DEF Next, Boot, Serve, StartUp, CountPreset, SkipPreset, InsertPreset,
     InsertRefused, EnsureAdminKey, EnsureAdminKeyFails, LoadJWTSecret, SaveJWTSecret,
     StatementFatal, IssueToken, Edit, Reinstall, agentVars, database
<1> QED
  BY <1>1, <1>2, <1>3, <1>4, <1>5

(* For any number of forms being saved: the host in the links is that of    *)
(* the saved base URL unless saves overlapped, or an error or a kill came   *)
(* between the two statements of one (PutSubscriptionSettings).             *)
THEOREM HostInStep == Spec => []HostFollowsBase
<1>1. Init => OneSave
  BY DEF Init, OneSave
<1>2. Inv /\ OneSave /\ [Next]_agentVars => OneSave'
  BY OneSaveNext DEF Inv
<1>3. OneSave => HostFollowsBase
  BY DEF OneSave, HostFollowsBase
<1> QED
  BY <1>1, <1>2, <1>3, InvAlways, PTL DEF Spec
=============================================================================
