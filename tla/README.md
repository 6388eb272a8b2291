# A TLA+ model of Kosiro Panel

Kosiro Panel is a Go agent that keeps VPN users and protocol presets in SQLite
and drives three engines in docker containers from them: Xray, sing-box and an
MTProto proxy. These modules model the agent's own logic: how the two tables
become configuration files and share links, how a change reaches the engines
under concurrent requests, crashes and failing calls, how several open panels
edit one preset, what a start of the agent sets up and must keep, how the bytes
Xray counts become a user's traffic total, and how the dashboard's rate is
measured. Source paths below are relative to `src/agent/internal`
unless they start with `agent/cmd` or `deploy`.

## Inventory

| Component | State | Operations | Talks to |
|---|---|---|---|
| Store (`db/db.go`) | tables `protocols`, `vpn_users`, `settings`, `user_traffic_snapshots`, `protocol_usage`, `metrics_history` | one SQL statement per method, no transaction | everything |
| Handlers (`api/handlers.go`) | none but the local variables of a request's goroutine | PUT/install/apply of protocols, POST/PATCH/DELETE of users, PUT of settings, reads | store, generators, container control |
| Generators (`xray/config.go`, `singbox/config.go`, `mtproto/env.go`) | `xray/config.json`, `singbox/config.json`, `mtproto/.env` in the data directory | build a document from two listings and write it with `os.WriteFile` | handlers, `main()` |
| Container control (`dockerctrl`) | the compose directory's `.env`; the containers | merge the MTProto env, `docker compose up -d`, restart of Xray | docker (external) |
| Start-up (`agent/cmd/agent/main.go`) | | migrate, admin key, JWT secret, write Xray's file, start the server and two background goroutines | store, generators |
| Stats worker (`statsync/xray.go`) | `lastTotals`, in memory only | a tick every two minutes | Xray's counters, store |
| Stale hints (`db/db.go`, `StaleProtocolStats`) | reads `protocol_usage` | which presets most of their users have left idle | handlers |
| Metrics collector (`metrics/collector.go`) | `lastNet*`, in memory, unsynchronised | a snapshot every minute and on request | store |
| Subscription links (`subscription/uris.go`) | | rows to share links | handlers |
| Auth (`api/middleware.go`, `adminkey`) | admin key, JWT secret | tokens | handlers, settings |
| Panel (`deploy/static/panel`) | a copy of the rows it loaded | the requests above | handlers |

There is no lock, no transaction over more than one statement and no queue in
the agent. `net/http` gives every request a goroutine. What is hard is therefore
the order of statements of different requests (and of the stats worker), what is
read before and used after somebody else's write, and what a crash or an
ignored error leaves behind. `PROJECT.json` lists these hazards line by line.

What makes each component correct:

* generators: a user has an account for a preset exactly where it is to be served,
  and a link exactly where there is an account;
* regeneration: the files are the database whenever nobody is at work on them,
  and come back to it after a crash;
* apply: afterwards the engines run what the database says, with the saved settings;
* secrets: a generated one stays until somebody changes it, its halves belong
  together, and it reaches the proxy and the link alike;
* start-up: wherever a start was interrupted, the next one completes it, keeps what
  was edited and accepts the sessions issued before;
* accounting: no byte is billed twice, none is billed without a chart row, none
  is lost while nothing fails; a preset in use is not reported as idle;
* metrics: a snapshot that ran alone reports a rate the interface can have had.

## Modules

```
AgentConfig <- ConfigSync        <- MCConfigSync, MCSidecarSync
     ^             ^
     |             |  ~~> Publisher
     |         ConfigSync_proofs <- ConfigSync_serial_proofs
     +-------- Serving           <- MCServing, Serving_proofs

VlessPreset <- ProtocolEditing   <- MCProtocolEditing, ProtocolEditing_proofs
Ledger  <~~    TrafficAccounting <- MCTrafficAccounting, TrafficAccounting_proofs -> FiniteSums
               AgentStart        <- MCAgentStart, AgentStart_proofs
               MetricsCollector  <- MCMetricsCollector, MetricsCollector_proofs
```

`<-` and `->` are EXTENDS; `<~~` and `~~>` are refinements (`INSTANCE ... WITH`): ConfigSync implements `Publisher`.

### AgentConfig and Serving: the generators as functions

`XrayInbounds` is `BuildConfig`, `SingboxInbounds` is `WriteConfig`,
`MTProtoEnv` the loop around `WriteEnvFile`, `Links` the selection in
`CollectURIsForUser`. A row keeps the two flags the
generators branch on and its JSON config as one opaque value; a user is the set
of preset ids granted; a document is the set of its inbounds, each with the row
and config it was built from and the users with an account in it. Two rules of
the code decide who is served and are kept as they are: Xray opens at most one
inbound per type, for the first *installed* row in list order (`findProto`),
and sing-box opens one per row. `ListProtocols` hides four ids of earlier
layouts (`HiddenIds`). Port numbers, TLS, transports and the text of the
documents are inside the opaque config; `ORDER BY type` is modelled as some
total order of the rows.

`Serving` lets the statements of the store change the two tables in any order and compares the
generators with a reference. `Served` says who is to be served without looking anything up: granted,
enabled, installed, visible, and not shadowed by another row; `ServedExactly` that this is who has an account, in
exactly one document.
`LinksMatchAccounts` relates the documents to the subscription, which other code
selects from the same rows: every account has its link, and the only links without an
account are those of a row that another one of its type shadows.

### ConfigSync: from a request to the engines

One action is one SQLite statement, one system call on a file, or one docker
command. A worker (a request's goroutine in `Slots`, or `Boot`, the start-up of
`main()`) goes through the stages of its handler:

| Stage | Code | Action |
|---|---|---|
| get | `GetProtocol`, `GetUser` | `GetProtocol`, `GetUser`, `UserNotFound` |
| commit | `UpdateProtocol`, `UpdateUser`, `DeleteUser`, `InsertUser`, `SetSetting` | `PutProtocol`, `InstallProtocol`, `PatchUser`, `DeleteUser`, `CreateUser`, `PutSettings` |
| env | `InstallProtocol`'s switch | `InstallEnv` |
| listProtocols, listUsers, options / sidecarEnv | `regenerateXray`, `regenerateSidecars`, `bootstrapDefaultXray` | `ListProtocols`, `ListUsers`, `LoadOptions`, `SidecarEnv` |
| truncate, write | `os.WriteFile` | `Truncate`, `Write` |
| listForSync, composeUp | `syncSidecarContainers`, `SyncSidecars` | `ListForSync`, `ComposeUp` |
| restart | `docker restart` | `RestartXray` |

`StatementFails`, `RegenerationFails` and `DockerFails` are the error returns,
with what the handler does about each (mostly nothing). `Crash` kills the agent
at any point; the requests in flight stop where they are and all locals are
lost. `Start` is the next `main()`. `EngineRestart` is docker's own restart of
an engine, which reads the file as it then is.

A file is absent, empty (truncated), torn (two writers mixed, or a short write)
or whole; a process has loaded a document, is down, or was never created. An
engine started over anything but a whole file is down.

Four variables are history and are read by no guard: `undisturbed` (workers whose
listings nothing has changed since and whose file nobody else has touched),
`healthy` (files written by such a worker and not disturbed since), `settled`
(requests received after the last change) and `applied` (engines an "apply" that
was settled has answered for). They serve only to state *when* a promise holds.

`Publisher` is what the pipeline promises, without stages, requests or files: writers take a listing of the presets and then
one of the users (`ReadPresets`, `ReadUsers`), and publish the rendering of both once (`Publish`); at any time a file may be
spoiled, engines started over their files (`Restart`), drafts given up, the tables changed. A file is vouched for
only if it was published from a draft equal to the tables, and until the tables change or the file is touched. The mapping takes a worker's two listings
for its draft, `healthy` for what is vouched for, the renderings in `file` and `running` for the disk and what is served. `Publishes` adds to
`FreshUnlessDisturbed` what a file or an engine may hold *otherwise*: an older rendering of one worker's two listings,
or nothing an engine could load (a truncated, cut or mixed file counts as that), and never presets and users listed by different requests.

`ApplyBringsSettings` is about the two ways the Xray settings reach the file: a
regeneration reads the saved ones (`LoadOptions`), the bootstrap writes the defaults.
An "apply" must bring the saved ones to the running Xray whatever a start has done
before.

### VlessPreset and ProtocolEditing: one row, many panels

`VlessPreset` opens the config of the VLESS preset as far as a connection depends on
it: transport, security, flow, path, the two halves of the REALITY key and the short id
in both of its fields. `VlessInbound` is `buildVLESSFromProtocol`, `VlessLink` is
`BuildVLESSURI`, `EnsureRealityConfig` and `MigrateLayout` are the functions of these
names, `Form` and `ReadVlessForm` the panel's form. `Dials(link, inbound)` says what
has to agree for a client to get through, and that Vision, where the inbound has it, is over
secured TCP (`VisionFits`), the only place where `xray/config.go:310` sets it and the panel offers it. That the code names no
other forbidden pair of transport and security is why `Dials` names none.

Inbound, link and installation also branch on the row's *type* (`UsesReality`). An earlier version's row may have the
type `vless_reality`, which `migrateProtocolLayout` changes together with the config; until that UPDATE succeeds, the inbound has REALITY
where the row says "none", the link REALITY whatever it says, and Vision where the row has it off. The other types
of earlier versions belong to ids that `ListProtocols` hides and are left out here.

`ProtocolEditing` puts tabs in front of the handlers. A tab loads the row (`Load`, at any
time), and a save (`ToggleProto`, `EditProto`) sends its *whole copy* back with one thing
changed; the handler reads and later writes a whole row (`GetProtocol`, then `PutProtocol` or
`InstallProtocol`). There is no version and no lock, so a stale tab overwrites what others wrote.
`Start` migrates type and config of the row, or neither, because the error of that UPDATE is dropped; no other statement
writes the type.
`Fetch` is a client that takes a link from a subscription and keeps it.

History: `outdated` (a row newer than the writer's own copy has been written over),
`touched` (fields edited so far, those through which the first row has a gap, and those through which a migration
opens one), `handed` (what the link a client keeps was made from, type and config). `KeyPairsMatch` holds without any
condition, `CredentialStays` and `HandedLinkDials` until somebody writes over a newer row. `HandedLinkDials` has two more exceptions,
both found while proving it or checking it:

* where `short_id` is set and the list `short_ids` is not, a tab may clear the short id, another one with a copy from before the
  installation install again, which makes a new id with a list, and the first type the old id back: the list does
  not have it;
* a link handed out while the row has the type `vless_reality` is a REALITY link even if the row's own `security` is "none"; a later
  migration changes nothing but the type, and the inbound drops REALITY.

`LinkDials`, that a preset that is on is one clients can connect to, holds but for eight gaps. Four are edits of the panel: REALITY
switched on after the installation (nothing makes keys; `migrateProtocolLayout` may do the same to an installed row), a changed short id (the list keeps the old one), a path (the
link carries none), and Vision left on while the transport or the security that has it is changed (the panel hides the field and
saves it all the same). Two come from rows of earlier versions: no flow, or a private key without a public one. Two come from the type
`vless_reality` while no migration succeeds: the link says Vision where the row has it off, or REALITY where the row says TLS.

### AgentStart: what a start sets up, and what outlives it

`main()` between `Open` and the server, statement by statement: `CountPreset`,
`SkipPreset`, `InsertPreset`, `InsertRefused` are the iterations of `seedDefaultProtocols` (a COUNT
that fails counts as zero), `EnsureAdminKey` and `EnsureAdminKeyFails` the admin key,
`LoadJWTSecret` and `SaveJWTSecret` the secret that signs sessions, `StatementFatal` every path to
`log.Fatalf`. The serving agent issues sessions, edits presets and saves the subscription form as
two statements (`SaveSubscription`, `SavePublicHost`), several admins at once. `Crash` kills it
anywhere, `Reinstall` gives the next start another environment.

### TrafficAccounting and Ledger: from counters to totals

`Worker.tick` statement by statement: `QueryStats`; `ListUsers` with the loop
over the counters, which is local to the goroutine and ends with every total
remembered; then user by user and protocol by protocol `RecordUsage`,
`InsertSnapshot` and, last, `AddTrafficUsed`. An error of the last ends the
tick (`AddTrafficFails`); errors of the first two are ignored. PATCH is two
statements, `GetUser` and `UpdateUser`, which write back what was read. A tick whose
query fails leaves no trace and is no action. `Bases(u)` are the values a user's total may have been set to, at the
outset or by a PATCH: `NeverOverbilled` and `ChartsCoverBill` bound what is added to one of them. `carried`, `billed`, `firstTotal` and
`lastCharted` are history.

`Ledger` is the promise: per counter, a byte that is carried may become pending, a pending byte
is billed once or lost, and nothing else is billed. The refinement maps `pending` to
`Pending(n)`, the growth the worker can still bill: what this tick has already taken, what its query
has seen and what the next one will see. Restarts, crashes, failures and deletions only lose
pending bytes (`KeepsBooks`).

`StaleHint` is `StaleProtocolStats` as a function of the users, their last recorded bytes and the
time. `HintsAreIdle` compares it with the charts, which the worker writes in another statement: while
no statement fails, a preset is called idle only if the charts agree.

### MetricsCollector: a snapshot without a lock

`Snapshot` field by field: clock, counter, the test of `lastNetTS`, the unsigned difference, the two
stores; the time in two words, because a reader may see some of the words of a time that is being
stored. Callers are the background loop and the requests. `calm` marks a call that overlapped no other;
`fell` that the counter fell since the last such call was answered. Calls that overlap may report
anything, a wrapped difference of nearly 2^64 bytes too (there is a data race here, see below);
`LoneRateSane` says that this never outlasts the overlap.

## Runs

| Run | Instance | What it shows |
|---|---|---|
| `agent_config` | 6 presets (two of one type, a VLESS row of the legacy type, a hidden one), 1 user; every content of both tables | `ServedExactly`, `LinksMatchAccounts` |
| `sync_serial` | 1 slot, 2 requests of 12, 1 crash, 1 failing call, fair | `QuietMeansFresh`, `AppliedIsServed`, `ApplyBringsSettings`, `CrashRepaired`, `Converges`, `XrayComesBack` |
| `sync_race` | 2 slots, 2 requests of 12, 2 secrets to generate, 1 crash | `TypeOK`, `FreshUnlessDisturbed`, `NoResurrection`, `WritesKeepConfig`, `Publishes` (refinement of `Publisher`) |
| `sidecar_serial` | MTProto and Hysteria2, 1 slot, 4 requests, 1 crash | `AppliedProxySecret` |
| `panel_editing` | 2 tabs (symmetric), 3 requests, 5 edits, 1 crash, 1 failing statement; a seeded row and four of earlier versions, two of them with the type `vless_reality` | `TypeOK`, `KeyPairsMatch`, `LinkDials`, `HandedLinkDials`, `CredentialStays` |
| `agent_start` | 2 presets, 3 environments, 2 admins, 2 crashes, 1 failing statement, 1 reinstallation, fair | `TypeOK`, `SessionsSurvive`, `StoredKeyServes`, `SeedComplete`, `SeedKeepsEdits`, `HostFollowsBase`, `ComesUp` |
| `traffic` | 2 users, 3 counters under 3 labels, 3 bytes each and 4 in all, any 2 of: Xray restart, crash, failing statement, PATCH, DELETE; fair | `TypeOK`, `BilledAtMostCarried`, `NeverOverbilled`, `ChartsCoverBill`, `Conserved`, `HintsAreIdle`, `KeepsBooks`, `EventuallyBilled` |
| `metrics` | 2 callers, 2 bytes, 4 clock values, 1 fall of the counter, any number of restarts | `TypeOK`, `LoneRateSane` |

The bounds of ConfigSync. Two slots are the smallest number with a race, and every property of
two workers is about a pair (a writer and one who disturbs it). Two serial
requests are any change followed by any other request, "apply" among them, with
a bootstrap before, after or (a crash) between; four are needed for install, change of
the secret, apply and one more. One crash suffices because a crash resets all
control state: what a second would meet is a state with new files that a first
one meets as well. Two presets are one per engine (or one per container); one
user suffices because accounts are independent of each other.

The other bounds. Three requests of two tabs are an installation, an edit and a stale save over either. The
failing statement may be the migration, so that all of this happens to a row with its earlier type as well.
The three environments are the one `install.sh` writes, one without an admin token, and one with a JWT
secret of its own; two kills are needed to interrupt the start that repairs an interrupted one, and two
presets for a seeding that is interrupted in the middle. Three counters give one user two
statements per tick and leave another one to come when a statement fails; a counter needs two bytes to
grow after the first sighting, and three to grow twice. Two disturbances are every pair of different
ones. `now` saturates at `MaxTicks`; only time stamps are computed from it. In MetricsCollector `Word`
stands for 2^64 and is 2^6: what matters is that it is more than twice what the interface sends, so that a
wrapped difference cannot be taken for a real one. `MaxClock` gives a loop's two time stamps and two
of a request between them.

Fairness. Every goroutine that can take a step takes one in the end (the Go
scheduler), docker restarts the agent and a failed Xray
(`restart: unless-stopped` in `deploy/compose/docker-compose.yml`), and the ticker
goroutine runs for ever: weak fairness of the workers and of `Start` in ConfigSync, of `Tick` in TrafficAccounting, of
`Boot` in AgentStart. Nothing is assumed about clients: no request has to
arrive. `Handle`, `Regenerate`, `Tick` and `Boot` include the failing outcomes, so fairness never
promises success. The code does not retry a call whose error it ignores or
returns, so the liveness properties of ConfigSync and TrafficAccounting promise something only of
behaviours in which no call has failed (`faults = 0`, and `Undisturbed` of the traffic
model); crashes stay allowed in `CrashRepaired`, `Converges` and `XrayComesBack`. A failed start *is* retried,
by docker, and `ComesUp` allows kills and failures: it would be false if anything they leave in
the database made every further start end in `log.Fatalf`.

### Where the code and what is said of it differ

Some properties say exactly how far a promise goes rather than forbid what breaks it. `FreshUnlessDisturbed` exempts files another writer
disturbed (what that costs is the run `sync_apply_race`), `ServedExactly` and `LinksMatchAccounts` the row another one of its type
shadows, `HostFollowsBase` saves that overlap or are cut in two, `Conserved` and `HintsAreIdle` failing statements,
`CredentialStays` and `HandedLinkDials` stale saves. Each is as strong as the code allows: the exempt cases do happen.

Four runs check a sentence of the repository and end in a counterexample:

| Run | Sentence | What happens |
|---|---|---|
| `sync_apply_singbox` | README: "apply" restarts the containers | `up -d` leaves a running sing-box alone |
| `sync_apply_race` | the panel: "applied" | a concurrent request's older document overwrites the file before the restart |
| `sidecar_readonly` | `SyncSidecars` starts what is installed | the compose directory is mounted read-only, the merge fails, nothing is started |
| `traffic_patch` | traffic is added to | a PATCH writes back the total it read |

`sync_apply_race` checks with two slots a property that `sync_serial`
shows, and `ApplyIsServed` proves, for one: the property is right, the missing lock is
what breaks it.

Other differences, which need no run to be seen:

* `InsertUser` names 17 columns and has 18 placeholders (`db/db.go:381`): every POST of a user is
  answered with 500. So the users of the models are rows an earlier version left (`InitialUsers`),
  and `CreateUser` changes nothing.
* Two installations of one preset at once may each generate a secret, although `xray/keys.go:30` says
  "when missing". `WritesKeepConfig` excuses a request in whose lifetime a table has changed, and `CredentialStays` a
  writer whose copy is out of date.
* After a migration whose UPDATE failed, links say REALITY by the row's type alone. The next successful migration changes the
  type, and a REALITY link of a row that does not name it is dead (third exception of `HandedLinkDials`).
* The panel hides the flow where there is no Vision (`deploy/static/panel/assets/app.js:310`) and saves it as it was: a change from TCP to another
  transport leaves Vision in inbound and link (one of the gaps of `LinkDials`).
* `agent/cmd/agent/main.go:67` warns that the JWT secret does not persist; it is stored and does
  (`SessionsSurvive`). The stored admin key is written at every start and read by nobody (`StoredKeyServes`
  keeps the two in step all the same).
* Traffic under a legacy email is charted as `vless_reality`, so hints about `vless` do not see it.
* The panel says an empty MTProto secret is generated; a PUT never generates one, only an installation does.
* `PublicSubscription` answers with an empty list and 200 when the presets cannot be listed, and
  `subscription_path` can be saved although only `/sub/` is routed.

## Proofs

All theorems are for every value of the constants that satisfies the module's named assumption: any
presets, users, configs and requests, any bounds, any number of crashes and failing calls.

**ConfigSync_proofs**, any number of slots: `TypeCorrect` (`TypeOK`), `Freshness` (`FreshUnlessDisturbed`),
`DeletedStaysDeleted` (`NoResurrection`), `PipelinePublishes` (`Publishes`, the refinement of `Publisher`), `ConfigsOutliveWrites`
(`WritesKeepConfig`). `TypeOK` is not inductive: `PutProtocol` writes the row the
goroutine read into the table, and that this local holds a row at that stage is a fact about control.
`LocalsOK` says what each local holds at each stage, and that the bootstrap only
goes through the stages of a regeneration; `TypeOK /\ LocalsOK` is inductive.
`FreshUnlessDisturbed` speaks of the files only. That a `Write` makes its file
current needs `UndisturbedIsCurrent`: the listings of an undisturbed worker *are* the
tables, and the file it has truncated is still empty. That survives a restart
because a worker of the new agent starts undisturbed by nothing (`BootOK`: the
bootstrap runs only while the agent starts). The generators enter only through
the types of their results (`InboundsType`, `WholeType`), so the theorem is about the
pipeline and holds for any generator; `ServedExactly` is the complement.
`PipelinePublishes` is proved action by action, one lemma for each way a step can show in `Publisher` (`Changes`, `Restarts`, `GivesUp`, `Spoils`,
`WritePublishes`). Besides the invariants above it needs `PubInv`: a file or a process that is of no use holds no document, and a
worker holds a listing of the users only on its way to the file, so that every listing of the presets begins a new draft. That a write vouches only
for a whole file built from the present tables is `UndisturbedIsCurrent`.
`ConfigsOutliveWrites` needs that a request during which no table has changed has read the row as it is (`ReadIsCurrent`); it assumes nothing
about slots, the container of Xray or the compose directory.

**ConfigSync_serial_proofs**, for one slot (`Slots = {s}`) and an Xray container
(`XrayContainer`): `QuietIsFresh` (`QuietMeansFresh`), `ApplyIsServed` (`AppliedIsServed`), `ApplyUsesSettings`
(`ApplyBringsSettings`). The invariant `SerialInv` adds to the one above that there is only ever one worker and
nobody disturbs it (`Alone`), which stages of a request owe the files a regeneration (`Rendered`), what an
engine that was "applied" has loaded (`AppliedInv`), and whose settings are in Xray's file on the
way through an apply (`Applying`).

The second part of the module, with a writable compose directory (`ComposeWritable`) besides, is `ApplyBringsSecret`
(`AppliedProxySecret`): `Proxying` follows the MTProto secret through both env files, stage by stage, to the proxy.

**Serving_proofs**, any set of presets, types and listing orders, any number of users: `ServedInOneDocument` (`ServedExactly`) and
`LinksLeadToAccounts` (`LinksMatchAccounts`). No invariant is needed, for both hold of every content of the tables; the work
is in the lookups. `FirstListedIsFirst` says what the CHOOSE of a listing picks, `FindProtoFinds` that `findProto` finds an
installed row exactly if none of its type is listed before it, `VlessSource` the same of the three ways to the VLESS row. From
there on one inbound per type and "not shadowed" are the same thing (`XraySources`, `XrayAccounts`, `SingboxAccounts`).

**ProtocolEditing_proofs**, any number of tabs, any edits and any rows of earlier versions: `TypeCorrect`, `KeysBelongTogether`
(`KeyPairsMatch`), `CredentialsSurvive` (`CredentialStays`), `PresetsDial` (`LinkDials`), `LinksStayGood` (`HandedLinkDials`). The strengthening
is always the same: what holds of the row holds of every copy of it that may still be written back, in a tab, in a request or in a
handler. For `PresetsDial` that is `AllSealed`: a row has no gap unless one of the fields touched opened it, and a body that changes none of
those fields has the gaps of the row it was made from, under either type. `RealityIs` says for each type when the inbound has
REALITY, which is when an installation makes keys, and `VlessOpensNone` that the type a migration writes opens no gap in any copy. Being without gaps is kept by an installation only because
`EnsureRealityConfig` makes a short id together with its list (`InstallOpensNone`). For `LinksStayGood` it is `HandedFaith`: the row keeps
the key and the list the link was made from (its type and config, as `handed` has them), even while REALITY is off or the row is installed again, unless a newer row is
written over. No copy has to be mentioned there, because a writer who is not out of date writes over the row he has seen.

**TrafficAccounting_proofs**, any finite sets of users and counters: `TypeCorrect` (`TypeOK`), `WorkerKeepsBooks` (`KeepsBooks`, the refinement
of `Ledger`), `NoByteTwice` (`BilledAtMostCarried`), `TotalsBounded` (`NeverOverbilled`), `ChartsComplete` (`ChartsCoverBill`), `HintsTrue`
(`HintsAreIdle`) and `NoByteLost` (`Conserved`). The first three rest on one lemma about every step but `Carry` (`StepsSettle`): what it bills was
pending and is not pending any more. `BilledAtMostCarried` alone is not inductive; `Solvent`, the sum of billed and
pending against carried, is. The others have an invariant each:

* `TotalsBounded`: `TotalsExplained`. A total exceeds one of the user's `Bases` by at most what has been billed under his counters, and so does the
  total a PATCH has read and may still write back; what is billed is at most what is carried, counter by counter (`NoByteTwice`).
* `ChartsComplete`: `TotalsCovered`. The charts cover a total together with what the tick has charted for this user and not yet
  added to it (`InHand`, `Drawn`): a tick draws a user's charts first, and dies before the total at the worst.
* `HintsTrue`: `ChartsLag`. While no statement has failed, the recorded usage of a preset is at least as recent as its last chart row.
* `NoByteLost`: `FullyAccounted`. While nothing is disturbed, a user's total has grown by what is billed under his counters, and of each
  counter the worker has split what it has seen into what was there before the first sight, what is billed and what it is about to bill.

**FiniteSums** says what the sums in these properties are. The community module's `SumFunctionOnSet` is a fold, defined by a CHOOSE
of a recursive function, and the library's induction theorems take a predicate as a parameter, which the installed provers cannot
instantiate. `FiniteInduction` therefore states induction over a finite set with a *set of its subsets* in the place of the predicate, which
is first-order and follows from the well-foundedness of inclusion (`WFMin`). From it `SumIsCardinality`: a sum of natural
numbers over a finite set is the cardinality of the set of its units, pairs of an element and a number below its value. The laws of sums
(`SumSplit`, `SumRaise`, `SumPlus`, `SumMonotone`, ...) are then facts about cardinalities.

**AgentStart_proofs**: `TypeCorrect`, `SessionsOutliveRestarts` (`SessionsSurvive`), `SeededBeforeServing` (`SeedComplete`),
`EditsOutliveStarts` (`SeedKeepsEdits`), `KeysInStep` (`StoredKeyServes`), `HostInStep` (`HostFollowsBase`). The invariant says that what signed a session and does not come from the
environment is stored, and that a new secret is made only while none is (`SecretsStored`); and that all presets before the
one `main()` is at are there (`SeededSoFar`). The other two have invariants of their own: from which stage on the chosen key
is the stored one (`KeyStored`), and that without an overlap there is at most one save and its base URL is written (`OneSave`).

**MetricsCollector_proofs**, any number of callers: `TypeCorrect` (`TypeOK`) and `OverlapsLeaveNoTrace` (`LoneRateSane`). Overlapping
calls may store their readings in any order, so nothing relates `lastUp` to one call's reading; the invariant instead says that once a
calm snapshot has been completed since the last fall (`Recovered`), the remembered counter and all readings under way are at most the
present counter (`Recent`), and that a calm call is the only one that runs (`Alone`).

The assumptions are the `ASSUME`s of the modules: the constants have their types, the special values are
distinct from real ones, every non-empty set of presets has a first and a last in list order (a table is
finite), there are finitely many users and counters, the preset `proto_vless` is of a VLESS type, and the two halves of a key in a row of an
earlier version belong together. TLC evaluates them in the runs of the modules.

Only model-checked is what is out of TLAPS's reach, liveness: `CrashRepaired`, `Converges`, `XrayComesBack`, `EventuallyBilled`, `ComesUp` need
fairness and ENABLED. Every invariant, action property and refinement of a passing run is stated by a theorem.

## Plan

1. Done: AgentConfig, Serving; ConfigSync, with `Publisher` as its abstract specification; TrafficAccounting, with `Ledger`;
   VlessPreset and ProtocolEditing; AgentStart; MetricsCollector; the theorems above.
2. Larger: the composition of AgentStart and ConfigSync (the bootstrap after a seed that failed), and the link of the
   MTProto preset against the proxy's secret.

## Not modelled

* Limits, throttling, billing periods, rollover: stored and returned, acted on by no code.
* Parsing and formatting: JSON bodies (a malformed one is refused before any
  change), the text of links, log lines and configuration files. A body
  for a preset id that is not in the table is answered with 404 and changes nothing.
* The links of the presets other than VLESS: their fields next to a port and the user's UUID are constants of the code
  (a Trojan link always says tls, a VMess link never), so no sequence of steps changes whether they agree
  with the inbound.
* The comparison of tokens and the signature; a session's expiry after a year; the text work of the installer
  (its effect on the next start is `Reinstall`); the AmneziaWG hint file, which nothing reads.
* CPU, memory and disk readings, which keep no state; the downlink, which goes like the uplink. Reads of chart
  tables, which are single SELECTs.
* The engines' own behaviour beyond loading a file at start; that Xray answers
  the stats query. Docker commands beyond their effect on the containers;
  `docker compose up -d` run inside the agent's container may recreate the agent
  itself, which is a `Crash` here.
* A graceful shutdown, which waits for requests or, after ten seconds, ends them:
  an idle or a busy `Crash`.
* `mtproto/.env` and the compose `.env` are written in one step and without
  failure, except for the read-only compose directory (`ComposeWritable`).
* Clocks that run backwards: the time of TrafficAccounting and MetricsCollector only grows.
* Data races at the level of the hardware: of the fields of the Collector every word is read and written
  whole, and in program order.
