# maccluster in TLA+

`maccluster` joins a few Macs over a Thunderbolt bridge: it keeps the bridge
configured ("heal"), synchronises homes between the Macs, installs itself on them
and updates itself, on a schedule if wanted, and shows how the links are doing.
These modules model the parts in which order, failure and repetition matter.

Paths below are relative to `src/src/maccluster/` unless they name `docs/` or
`README.md`; `PROJECT.json` maps every definition to the lines it stands for, and
lists the hazards with the properties that watch them.

## 1. Inventory

### Home sync

| component | state it keeps | operations | hard behaviour | what makes it correct |
|---|---|---|---|---|
| Sync planning (`services/sync_plan.py`) | none | `plan_transfers`, `apply_batch_limits`, `_chunk_rels` | ties; walks that stopped early; limits smaller than a file | a file moves one way; only what the policy prefers replaces a file; a limit never stops progress |
| Transfer stage (`sync_transport.py`, `transport_ladder.py`, `sync_replan.py`, `sync_push.py`, `sync_pull.py`, `sync_rdma.py`, `sync_ssh.py`) | rungs left, plan, result | rung selection, push, pull, downgrade with re-stat and re-plan | a rung breaks anywhere, large files are written in place, bytes moved are under-reported, the re-stat fails | rc 0 means delivered; the source is never written; the ladder ends; little is sent twice |
| Home sync run (`sync_service.py`, `sync_safetynet.py`, `sync_verify.py`, `sync_history.py`) | local inventory, watermark of `--quick`, SafetyNet directory | `sync_home` over the peers, backup, verification, state file | one inventory for all peers, edits meanwhile, crashes, the watermark after partial runs | the newest content survives; what is overwritten is backed up; the watermark can be trusted |
| Inventories (`sync_inventory*.py`, `sync_scandir.py`) and iCloud (`icloud_materialize.py`) | lister process, stack, flags | local walk, peer's script, guard | time budgets, hung directories, late answers, a helper that dies, stubs | nothing is dropped unflagged; a missed file never lets an old one win |
| Preparation (`sync_prep.py`), filters (`sync_filters.py`, `sync_paths.py`, `sync_wifi.py`), dev preflight (`sync_mcprt.py`) | free space | checks and filters before a run | free space read once for all peers | a run that cannot fit is not started |

### Keeping the cluster up

| component | state it keeps | operations | hard behaviour | what makes it correct |
|---|---|---|---|---|
| Ensure bridge (`mutate_service.py`, `heal_logic/`, `adapters/network_*.py`, `wifi_guard.py`, `lock_file.py`) | system network state, lock file | observe, plan, apply | each command may fail or mislead; lock deadline; the address is looked for as a substring | success is real, ensures do not overlap, repeated ensures converge |
| Heal loop and watchdog (`heal_loop_service.py`, `heal_heartbeat.py`, `service_mgmt.py`) | heartbeat file, two agents | loop, heartbeat, kickstart, install | hung loop, clock changes, intervals that disagree, loops of the user's own | a hung loop is restarted, a healthy one is left alone |
| Automation (`automation_service.py`), fleet heal, remote install | lock, report, peers' scripts | update, rollout, sync, diagnosis | first failing peer, two runs at once, two Macs that maintain each other, ssh that breaks | one run at a time; a failed rollout stops what depends on it; every run ends |
| Package update (`package_update.py`) | installed package, kept wheels, receipt | install, verify, roll back | crash between steps, timed-out installer that goes on | exit 0 only with the wheel installed |
| Configuration (`filesystem.py`, `keychain_*.py`, `config_service.py`, `init_service.py`, `config_refresh_tb.py`), launch agents (`launchagent.py`) | cluster.toml, backups, keychain item, plists | init, push, pull, push-peer, refresh-tb, service install | crash between rename and write; delete and add in two commands; nothing excludes them | a configuration is never lost; keychain, disk and launchd agree |

### Observation

| component | state it keeps | operations | hard behaviour | what makes it correct |
|---|---|---|---|---|
| Traffic rates (`health/traffic.py`) | sample cache with one temporary name | sample, load, save | two writers, counters that begin again, two clocks | a rate shown is what went through |
| Status and monitor (`status_service.py`, `monitor_service.py`, `health/`), mapping (`mapping/`, `topology/match.py`) | pinned ids in cluster.toml | probe ports, ask peers, rows | cables and restarts between the probes, ids that change with every start, files carried between Macs | a row shows its own link, and finds it |
| Doctor, topology, benchmarks, subprocess runner, command line | none, or a history file | checks, measurements, formatting | - | - |

### How they interact

`sync_home` calls the walks, hands both inventories to the planner, has SafetyNet
copy what a pull will replace, and gives the plan to the transfer stage, which calls
the planner again for a re-plan. Only file trees, the state file and the SafetyNet
directory outlive a run. The loop, `up` and the fleet heal of another Mac all run
`ensure_local`, and meet in the mutation lock; the watchdog sees the loop only through
the heartbeat file. Automation runs heal, remote install and update, and meets other
runs and the scripts of other Macs in `automation.lock`, which a script's installer
inherits. Configuration commands meet in cluster.toml and the keychain without a lock.
Status commands meet in the traffic cache; they read the ids that refresh-tb and the
configuration commands write.

## 2. Plan

| | modules | state |
|---|---|---|
| 1 | `SyncPlan`, `SyncRounds`: planning, alone and repeated | done |
| 2 | `PeerTransfer` (abstract), `TransportLadder` (detailed), refinement | done |
| 3 | `SyncHome`: runs over several peers among edits and crashes | done; pruning, log, amounts of space left out |
| 4 | `ExclusiveEnsure` (abstract), `EnsureLocal` (detailed), `HealLoop` built on the abstract one | done |
| 5 | `PackageUpdate`, `Automation` on top of it | done |
| 6 | `ConfigFiles`, `LocalSetup` on top of it | done |
| 7 | `InventoryWalk`: both walks and the plan made of them | done |
| 8 | `TrafficRates`, `PeerLinks`, `Monitor` composed of both | done |
| 9 | theorems for all of them: safety properties, type invariants and refinements | done |

No module declares a recursive operator, so that all can be proved about.

## 3. Modules and code

**SyncPlan.** Operators only. An inventory is a function from paths to `[mtime, size]`.
`ToPush` and `ToPull` are `plan_transfers`, split by direction, with `LocalWins` and
`RemoteWins` for its five policies; `Admitted` is the greedy loop of
`apply_batch_limits`, by what precedes a candidate in the sort order; `NextBatch` is
one archive of `_chunk_rels`; `Replan` is `replan_remaining`. Paths are numbers, so
that `<` is Python's order of their names.

**SyncRounds.** One pair of Macs, one round after another: `WalkSome`, `PlanRound`,
`Move`. Nothing fails except that a remote walk may stop early or pass files over, with
its flag down or up (`Walk`). A listing without files is never complete: the script has
always printed a mark that counts as a sign of a hang.

**PeerTransfer, TransportLadder.** `TransportLadder` is the transfer stage for one
peer: `Select` chooses the rungs; in the push and the pull leg of a rung `ArepSends`,
`ScpSends` and `DittoSends` move files as the three mechanisms do, `ArepBreaks`,
`ScpBreaks`, `DittoBreaks` and `SshRaises` break with part of the files in place;
`Downgrade` re-stats (or cannot), re-plans and enters the next rung. What decides the
properties is kept: a large file goes to its final path without `-p`, so a broken copy
stays there with a fresh time; bytes of a broken rung count only where the code counts
them; a file that cannot be staged and a name on arep's deny list are left out with
rc 0; the last ssh rung pulls even if its push failed. `PeerTransfer` is what the stage
promises: planned files arrive in their direction, whole or - only large ones - torn,
and success is reported when nothing is owed but large files.

**SyncHome.** One Mac runs `sync_home` against its peers in the order of cluster.toml,
while users write on every Mac (`UserEdits`), time passes and runs are killed
(`Crash`). `StartRun`, `PeerAnswers`/`PeerFails`, `LocalWalk`,
`RemoteWalk`/`PeerGivenUp`, `Backup`, the transfer (`Arrives`, `Tears`, `Downgrade`,
`PeerDone`) and `FinishRun` follow the loop of `sync_service.py`. As in
the code, a flag that is up proves nothing: both walks list any part of a home, with
either flag (only an empty remote listing is never complete), and `LeavesOut` takes a
file out of the plan that the transfer denies or cannot read or stage, at no cost to
rc 0. The ghost `missed` holds the paths that a run could not know of, because a walk
passed them over without a word or because they were written while it was active, until
they are written again between runs; `run.left` says that something was left behind,
whether the code noticed it or not. Contents are named by the tick at which they were
written; id 0 is a torn copy.

**InventoryWalk.** `Collects` and `TakesKids` gather the subtrees, `NextJob`, `Pops`,
`TakesRows` and `WalksFast` walk them, `Leaves` and `EndsWalk` notice the budget;
`Request`, `HelperAnswers`, `HelperDies`, `TimesOut`, `WorkerFails` are the lister
process and the pipe to it; the actions named `Remote...` are the script on the peer,
with its marks where it prints them and without where it does not; `SshEnds` keeps
what was printed. `Refused` is the guard. The plan is `SyncPlan`'s.

**ExclusiveEnsure, EnsureLocal.** `EnsureLocal` is `ensure_local`, one action for each
command: `Look` resolves the target and plans, `Check` to `Add` are
`ensure_bridge_and_ip`, `Router` and `Order` are `protect_wifi_from_bridge`. Actions
named `...Misled`, `...Nothing`, `...Missed`, `...Denied` and `Misread` are the failures
the code takes for something else. Others change the network between any two
(`IfaceChanges`, `PrefsChange`). `ExclusiveEnsure` is what its callers rely on.

**HealLoop** extends `ExclusiveEnsure`: launchd, the agent's loop, other loops and
one-shots, heartbeat, watchdog, install and uninstall, hangs, clock jumps. A tick is
half a minute or so, and the watchdog's period two. An ensure may take three: the lock
waits 10 s, `system_profiler` and `ioreg` have 30 s each and every `ifconfig` and
`networksetup` 15 s (`constants.py:41-46`).

**PackageUpdate, Automation.** `PackageUpdate` has the operations of `install_wheel`
and of the installer processes; `Automation` strings them together to runs
(`RunStep`) and to scripts on peers (`ScriptStep`) with locks, reports, timeouts,
abandoned installers (`StrayAtWork`) and restarts.

**ConfigFiles, LocalSetup.** `ConfigFiles` has the writes (rename to backup, put,
truncate, keychain delete and add, plist, bootout, bootstrap); `LocalSetup` makes the
commands of them, any number at a time, each dying anywhere: `Peek` to `PutText` are
`init` and `pull`, `ReadFile` to `EditTargets` the push and the targets set at the end,
`Reread` and `Copy` `refresh-tb`, `Bind`, `Pack` and `KeepFile` a remote install, `Local`
to `Send` `push-peer`, `Plan` to `Unlink` the service. `Truncate` and `Fill` are a write
in place, between which the file is torn. The ghost `had` says that a Mac has had a
complete file to keep; one put there while an install or a push-peer is already writing
over it does not count (`Keeps`). A text is what it says (`base`) and what was put into
it: targets, Thunderbolt ids, and comments or targets of its owner. `EditTargets` writes
the file anew by `dump_toml`, which knows neither ids nor comments, so only the targets
are left.

**TrafficRates, PeerLinks, Monitor.** `TrafficRates` has counters, samples and the
cache file with its one temporary name (a file keeps its writer when it is renamed, so
a late writer may write into the cache); `PeerLinks` has the pure part: which port
leads to which node, rows, exit code, mesh verdict, the doctor's verdict on ids.
`Monitor` composes them to snapshots, among moved cables, restarts, replaced Macs,
refresh-tb and carried files.

Variables and record fields marked "ghost" are history for the properties; no guard
depends on them. Bounds are `Until`, `Unrest`, `site.faults`, `site.count`,
`site.unrest`, `Horizon`, `MaxStep`, `MaxSecond` and `Longest`.

## 4. Runs

`MC...` modules hold the settings; the other runs give the constants in the cfg.

| run | bounds | shows |
|---|---|---|
| `sync_rounds` | 2 paths, 2 times, 2 sizes, limits none or 1 | all five policies: one direction, policy honoured, progress under limits, rounds settle unless the peer is empty, settled means equal; about 185 000 states |
| `transport_ladder` | 3 files (denied; large; empty and unreadable), archives of one file, 3 rungs, 13 command lines | delivery, no resend but when blind, source intact, refinement, termination |
| `sync_home` | four clusters: one file and six command lines up to tick 5; a small and a large file, and two small ones under a limit, up to tick 3; two peers up to tick 4; any listing with any flag; about 3.7 million states | newest survives, watermark sound, overwrites covered, a good run ends newest |
| `ensure` | a loop and another caller, 2 interfaces, an address and a lookalike, 2 interferences; about 27 000 states | success is real, refinement of the exclusive ensure, convergence |
| `heal` | the agent and another caller, 2 intervals, 2 interferences, ensures of up to 3 ticks; about 640 000 states | ensures do not overlap, healthy loops spared, hung loops restarted, the agent finishes |
| `automation` | a rollout over two peers; runs without update or with sync; two runs of one Mac; two Macs that maintain each other; at most 2 failures; about 210 000 states | installers, blast radius, exit 0, reports, termination |
| `local_setup` | three commands in a row on two Macs; two processes on one, uninstalls included; two Macs that push to each other; a Mac with nothing but a torn backup; installs of two definitions that overlap; one failure in all but the last; about 1.7 million states | configurations recoverable, agent fresh, keychain agrees, unforced commands keep but for what setting the targets takes |
| `inventory` | a home of 4 directories, one of `sync dev` with 3, with stubs and without; one bad directory on each side; about 160 000 states | nothing dropped, flags tell, newest kept, walks end |
| `monitor` | two viewers over 2 ticks; two peers with like names and 3 changes; one peer, a guest and a display; about 1.2 million states | rates real, own link, link found, doctor tells |

Runs that must find a violation, each with a statement the code does not keep:

| run | statement | what happens |
|---|---|---|
| `sync_quick_reverts` | `docs/SYNC-HOME.md:107` "two-way, newer mtime wins" | `--quick` removes old local files from the inventory, so the peer's older copy is pulled over them |
| `sync_dev_dotfiles` | the same, with `:34` "included (`.git`, `.github`, ...)" | the peer's script lists dot directories for `sync dev`, the local walk skips them, and the peer's older copies are pulled |
| `remote_walk_complete` | `sync_inventory_remote.py:39` "complete is False when the walk stopped early" | the script leaves two of its loops at the end of its budget without printing the mark |

**Why the bounds are enough.** Files interact only through archives, limits and the
order of large files; two or three, one of each kind, meet all of these. In `SyncHome`
a value is interesting relative to the watermark, the start of a run and one other
value, which five ticks separate. Two callers suffice for a lock, two interferences
for a change that is met by another before it is mended. In `Automation` a wheel
matters by being the wanted one or not, and two builds of one version are the case in
which version and digest disagree; a failure followed by another one meets every
rollback. In `LocalSetup` the second command may undo, and the third trust, what the
first left. One bad directory on each side meets each branch of the walks, as the
budget ends anywhere. In `Monitor` three changes let a Mac restart, refresh its ids and
carry them. The theorems of section 5 have no bounds.

**Exceptions.** A property excludes what the code gives up, and says so. Files
edited during a run or passed over by a walk that does not say so, torn large files,
partial walks the user allows, and `--quick` on a watermark of a run that left something
behind, said or unsaid (`SyncHome`); a file that a walk flagged complete passed over
(`PolicyHonoured`); a peer with no file (`RoundsSettle`); an ensure longer than two
intervals (`HealthyLoopSpared`), which the watchdog may take for a hang, and one longer
than the watchdog's period (`AgentFinishes`), of which only the period is promised;
a heartbeat written with another interval than the watchdog's (`HealthyLoopSpared`),
where what `AgentFinishes` promises remains; targets set for the first time, which take
ids and comments away (`UnforcedKeeps`); lookalike addresses and a
missing bridge (`EnsureLocal`); another loop that keeps the heartbeat fresh
(`HungLoopRestarted`); installers that nobody waits for (`Automation`); push-peer, which
makes no backup, an install from a Mac whose file is just being written, and a second
failure (`Recoverable`); an uninstall that an install overtakes (`AgentFresh`); a wall clock set back, unreadable
directories, stubs, and names that only one walk skips (`InventoryWalk`). In `Monitor`
device names are listed by at most one node, one UID and UUID stand for all controllers
of a Mac, and two ports differ in their rate, so that a rate tells its port.

**Types.** Every state module has a `TypeOK`. The runs `inventory` and `monitor` check
theirs, since they relate more than types (what is in the pipe to what was asked, a
viewer's place to what it holds open). All are proved.

**Fairness.** `TransportLadder`: `WF_vars(Next)`, since every command runs under a
timeout. `SyncRounds`: weak fairness of planning and moving, strong fairness of complete
walks, since the scheduled sync is repeated and from time to time its budget suffices.
`EnsureLocal`: the loop begins again, a caller in the lock goes on or dies, and each
command of the loop that is tried again and again succeeds again and again. `HealLoop`:
time, launchd and processes that do not hang go on, and a kickstart tried again and
again works. Nothing is assumed of how long an ensure takes, within `Longest`, which is
more than the watchdog's period. `Automation`: runs, scripts and installers
go on - nothing fair about failures, locks or ssh. `InventoryWalk`: the walk goes on;
directory, helper and peer need not, their timeouts count as steps of the walk.
`SyncHome`, `LocalSetup` and `Monitor` state no liveness and have no fairness.

`CHECK_DEADLOCK` is off where a system stops: ladders, walks and runs end
(`transport_ladder`, `inventory`, `automation`), commands are counted (`local_setup`),
clocks stop (`sync_home`).

**Mutants.** Definitions named `X_...` and marked "Seeded fault", placed before the `X`
they distort, are plausible slips; `PROJECT.json` names the property each must break.
Nothing else uses them.

## 5. Proofs

For every value of the constants, from the `ASSUME`s of the modules and the conditions
a theorem names:

* `SyncRoundsProofs`. `PlanOneWay`: no plan moves a file both ways, since no policy lets
  both copies win. Lemmas: plans hold only listed files, limits only drop files.
  `RoundInv`: the walk is right about what it lists, though not about being complete,
  and the plan is contained in what the policy wants of the listing. From it `RoundsTypeOK`, `RoundsOneDirection`,
  `RoundsPolicyHonoured` and `RoundsSettledMeansEqual`. `RoundsMakeProgress` rests on the
  order of the candidates: one of them is first and always fits (`FirstIsAdmitted`), and
  the last one admitted has fewer than `max_files` before it (`AdmittedWithinLimit`).
* `SyncHomeProofs`. `HomeInv` says what a run may still rely on of an inventory it took
  before its first transfer and never refreshes. `Stamps`: a small file carries the date
  of what it holds, and none is newer than what was last written there. `Remembered`:
  what the inventory says of a path is at most too old, and where it is, a peer has as
  good a copy. `Planned`: a push is never the older of the two copies, a pull never older
  than what was listed. `NetKept`: what a pull will replace is in the safety net or on
  the peer. `PushAccount`, `PullAccount`: what is no longer owed is on the other side.
  The user may edit at any moment, walks may pass paths over, and transfers leave them
  out; a path that was edited in a run or passed over unsaid is `missed` and excused
  until it is written between runs, every other one is not. One lemma per action (`HomeStep`); that a write
  never takes the last newest copy is `NotTheLastCopy`. From it `HomeTypeOK`,
  `HomeNewestSurvives`, `HomeWatermarkSound`, `HomeOverwriteCovered`, `HomeRunEndsNewest`.
* `TransportLadderProofs`. `LadderInv`: the two directions of the plan as given are
  disjoint and lie at their sources; the current plan and leg stay within it. `TypeOK`
  says none of this, and without it a delivery could write a source. From it
  `LadderTypeOK` and `LadderSourceIntact`. One lemma per action.
  `DeliveryInv` keeps accounts: a small planned file is delivered or
  still planned, because as long as it is not delivered the policy, asked about the
  disks as they are, still wants it; within a leg it is settled or in hand. From it
  `LadderDelivers`. `ResendInv` adds that what arrived by an archive or arep is
  identical on both sides, so a re-plan drops it: `LadderResends`. `ArrivalInv` adds
  that what is delivered arrived in this stage: `LadderImplements`, the refinement of
  `PeerTransfer`.
* `EnsureProofs`. `EnsureInv`: types, whoever is past the lock holds it, and nobody has
  a result before he is done. Every step of an ensure goes on inside the lock, enters
  it, gives up before it, or returns (`StepShapes`); from that `EnsureTypes` and
  `EnsureImplements`, the refinement of `ExclusiveEnsure`. `Stages` says how far a
  caller has got: the target exists after `create`, is up after `up`, is configured
  from `router` on. It survives the steps of others because ensures only add to an
  interface (`StepGrows`) - an `add` in its replacing form too, since what it puts
  there is the address. From it `EnsureSuccessIsReal`.
* `AgentProofs`, on the heal loop. `HealLoop` puts launchd's agent among the callers of
  the abstract ensure. `MutexInv` (types, and `OneMutator`): `EnsureExcludes` for the abstract
  ensure, `HealOneMutator` for everything launchd, watchdog, installers and the user
  make of it; each of their actions is a step of the abstract ensure, a death, or
  leaves it alone. `ClockInv`: a trusted heartbeat is as old as the agent has slept and
  then been at its ensure. From it `HealSpares`: the limit of the watchdog is at least
  three intervals, one of which the loop sleeps, so a kick that goes by the loop's own
  interval meets a loop that hangs or an ensure that has taken more than two.
* `AgentProofs`, on the configuration and the agent made from it. `SaneInv`: types, each
  command at a step of its kind, and what it is about to write is whole where the code
  has checked it; from it `SetupTypes`. `RecoverInv` says for each Mac where a complete
  file is. `Kept`, somewhere at all, is what remains after a failure, but is not
  inductive towards one: the death of the only holder would end it. So as long as nothing
  has failed `Safe` holds, which outlives any one death or failed keychain command
  (`SafeOutlives`): a complete file is in the copy of a refresh, or on the disk - and in
  a backup too once an install is about to cut it - or in the backup while another is
  about to take its place, or with an install and one more time elsewhere. This needs
  that installs of one Mac exclude each other (`OneDelivery`) and bring a complete text
  (`BringsWhole`). From it `SetupRecovers`. `AgentInv`: what is not loaded yet, somebody is
  about to load or to remove (`Pending`); with one process, what has no plist is not
  loaded (`Gone`). From it `SetupAgentFresh`. `AloneInv` follows one command that nobody
  disturbs: where its text is on the way between disk and keychain (`Agreeing`), and that
  without `--force` it only writes what it read, with more added, or with the targets in
  place of what had been added before (`Sparing`). From it
  `SetupKeychainAgrees` and `SetupUnforcedKeeps`.
* `InventoryProofs`. The invariant follows each directory that the walk can find. Its
  files are listed; or it is known to be missed, skipped by the lister or passed over by
  the fast walk; or something still leads to it: a root, a job, a directory on the stack
  or the one just asked for (`LocalCover`, `RemoteCover`). `HelperInv`: the pipe holds at
  most the answer to the one request waited for, so that a late answer is never taken
  for the next directory's; `SeenInv`: only what is there is listed; `SkipInv` and
  `PcInv` say what the flag and the place of the walk know. The lemmas `FirstStep`,
  `ClearChild` and `LeadsChild` go down one directory at a time, so that no induction
  over the tree is needed. From it `WalkTypeOK`, `WalkNoneDropped`, `WalkFlagTells` and
  `WalkNewestKept`. The directories are assumed to form a finite forest, each file to
  lie in one directory, and what leads to a directory walked with the lister to be
  walked with it too.
* `MonitorProofs`. `TrafficInv`: every saved look at an interface, in a viewer's memory,
  about to be saved, in the cache or in the temporary file, whoever wrote that, was
  true: not from the future, of no later interface than the present one, and telling its
  time as long as the wall clock was not set. `WorldInv`: an entry of cluster.toml has
  the ids of one start of its node (`Pinned`). `ViewInv`: each port a viewer knows was in
  use, during its collection, by the device it tells of; in a quiet time the entries it
  holds are the file's. With `MatchIsRight` (a match leads to its device) and
  `MatchIsFound`: `MonitorTypeOK`, `MonitorRateReal`, `MonitorOwnLinkRate`,
  `MonitorLinkFound`, `MonitorDoctorTells`. For these the sites are assumed to have
  finitely many ports, cabled to their devices.
* `AutomationProofs`. `LockInv`: a run at work has the lock of its Mac, against scripts
  that are past it and against the installers they left the lock to; of those there is
  at most one. `JobInv`: every installer is abandoned, or a run or a script waits for it.
  Both together give `InstallersApart`. `FootInv` is what makes the rollout's radius
  inductive: a run touches a Mac when the CLI it broke is there, or when its script is,
  which may still break it; it touches at most one, its own only after the peers, and a
  peer only while it is at it or when it goes to no other. From it `RolloutRadius`.
  `DoneInv`, that a verified wheel is in place until a stray installer replaces it, gives
  `OkInstalled`; `HolderWritesReport` follows from `LockInv`, `AutomationTypeOK` from the
  types. A restart of a Mac, a script that outlives its ssh and an installer that
  outlives its run are the steps the invariant was strengthened for.

Model-checked only: liveness, which is out of the prover's reach (`RoundsSettle`,
`Ends`, `Converges`, `HungLoopRestarted`, `AgentFinishes`, `RunsEnd`, `WalkEnds`). The three
statements that the code does not keep (section 4) are refuted by TLC.

## 6. Divergences without a run

Seen while modelling; each is an exception named above, or left out.

* A peer with no file in scope is never filled (`RoundsSettle`): its script always prints
  `# inventory done`, so the empty listing counts as hung, and the plan takes every path
  for unknown (`sync_inventory_remote.py:103-117`), against `:102` "soft-empty so push can
  proceed" and `CHANGELOG.md:308`.
* After `refresh-tb --apply`, an unforced `init`, pull or push that sets the ssh targets
  rewrites cluster.toml by `dump_toml`, whose nodes have no `tb_domain_uuids` and
  `tb_controller_uids` (`init_service.py:133-153`, `config/dump.py:27-38`): the pinned ids
  are gone (`UnforcedKeeps`), against `docs/KEYCHAIN.md:53` "disk exists → keep".
* An ensure slower than the watchdog's period, while there is no fresh heartbeat, is
  killed each time it is begun (`AgentFinishes`), against `service_mgmt.py:67` "kickstart
  heal if heartbeat goes stale (silent hang)". So is a loop that sleeps longer than the
  configured interval allows (`HealthyLoopSpared`).
* `docs/SYNC-HOME.md:200-202` "nothing is transferred twice": a rung that breaks in its
  first archive has moved files and reports no bytes, so there is no re-plan
  (`sync_push.py:366`). `ResendOnlyWhenBlind` says when.
* A file that the local walk passes over unsaid is not in the inventory, so a pull over
  it is made without a SafetyNet copy (`sync_service.py:714`), against `cli/parser.py:120`
  "Before overwrite on pull: backup local file".
* A run that left files out with rc 0 (`sync_rdma.py:356`, `sync_push.py:44-61`) moves the
  watermark of `--quick` all the same.
* `sync_replan.py:146` drops files "already moved": a torn large file is newer than
  its source, is dropped from the plan, and the stage ends with rc 0.
* `cli/parser.py:142` "remainder next run": a limited run moves the watermark of
  `--quick` past what it left (`sync_service.py:873`).
* With two peers, what the first one brought may be replaced by the second one's older
  copy (`sync_service.py:489`); a torn pull of a large file looks newest
  (`sync_pull.py:49`).
* An installer that outlives its run does not hold `automation.lock`, although
  `docs/AUTOMATION.md:5` promises one maintenance at a time.
* A second forced write within one second replaces the backup the first one made
  (`filesystem.py:60-68`), against `README.md:76`.
* An install that bootstraps between the bootout and the unlink of an uninstall leaves an
  agent loaded without a plist (`launchagent.py:158-162`), which the next install
  replaces; with one process at a time `AgentFresh` has no such exception.
* The peer's script of an install looks whether there is a file before it copies it to
  its backup and writes over it (`remote_install_script.py:113-122`). A file that `init`
  puts there in between is overwritten with no backup, and if the script then dies, a torn
  one is left. Likewise an install may send a file that is just being written: it is read
  again after it was checked (`remote_install_service.py:149` and `:289-290`).
  `Recoverable` leaves both out.
* By way of ioreg there are no controller UIDs: the doctor then calls a restart a
  mismatch, and refresh-tb drops the pinned UIDs (`tb_identity.py:201-203`).
* Any connected link completes the topology of every peer (`topology/match.py:86-94`).

## 7. Not modelled

* Byte counts of archives, amounts of space and time, scopes, filters, exclusions:
  archives are cut by number of files, budgets end at any moment, and the set of paths
  is what remains after the filters.
* Symbolic links; deletions (the sync never deletes); clock skew between Macs.
* SafetyNet pruning, run log, speedtest (`sync_service.py`), arep's manifests and
  temporary names, progress output: no decision of the modelled code depends on them.
* Dev sync preflight (`sync_mcprt.py`): decided by git's state, which nothing else
  touches. Benchmarks: measurements with one append-only history file. Doctor apart from
  the ids, building topologies, cable grading, validation: independent pure functions of
  one observation.
* The subprocess runner is seen through its result (a code, or a timeout); parsing,
  rendering and logging are I/O.
* The sync and automation agents are installed by the code `LocalSetup` models for the
  heal agent; the settings file of the automation schedule is not modelled.
