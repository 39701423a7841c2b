# Verification of the CentralCloud node installer

TLA+ models of the installer in this repository, the TLC configurations that
check them and TLAPS proofs about them. Paths are relative to the repository
root; `installer.go` alone means `internal/cli/installer.go`.

- [1. The system](#1-the-system)
- [2. Modules and code](#2-modules-and-code)
- [3. Runs](#3-runs)
- [4. Fairness](#4-fairness)
- [5. Proofs](#5-proofs)
- [6. Where code and documentation disagree](#6-where-code-and-documentation-disagree)
- [7. What is not modelled](#7-what-is-not-modelled)
- [8. Plan](#8-plan)

Run a configuration with `tlc -config MCInstaller_single.cfg MCInstaller`, check
a proof module with `tlapm InstallerProofs.tla`.

## 1. The system

The installer is a short-lived command. `install` and `repair` are the same
code: load a state file, enroll with the Dashboard unless an enrollment is
saved, run four provisioning stages, install and configure the Agent, close the
firewall, start and validate the services, report completion, forget the
secrets. `update` replaces the Agent binary; `uninstall` stops the Agent. The
command is expected to die anywhere and to be run again.

| Component | State | Operations | Correct when |
|---|---|---|---|
| flow (`internal/cli`) | in memory only | `install`/`repair`, `provision`, `update`, `uninstall` | a later run may trust what an earlier one saved; what is reported is what is there |
| state file (`internal/state`) | `state.json` | `Load`, `Save`, `Complete`, `HasCompleted` | never torn; records only what succeeded; no run gives up its secrets before the acknowledgement |
| enrollment client (`internal/enrollment`) | none | `Automatic`, `Create`, `Poll`, `Progress`, `Complete` | a lost reply is not a lost enrollment; a repeated report is a replay |
| Dashboard (external) | enrollments, the one-time token, accepted reports | answers the client, expires bootstrap tokens | - |
| Agent configuration (`internal/agent`) | digest, `config.yaml`, unit, other secrets | `Configure` | the files belong to one node when it is reported |
| releases (`internal/release`) | Agent binary and `.previous` | `Fetch`, `InstallAsset` | some verified binary always remains, in its place or as `.previous` |
| Traefik (`internal/traefik`) | dynamic route, container, network | `EnsureNetwork`, `WriteDynamic`, `Install` | the route is the node's |
| firewall (`internal/firewall`) | ufw rules or nftables file, include, boot service, kernel | `Detect`, `Build`, `Apply` | SSH is never shut out; closed ports stay closed |
| Docker (`internal/docker`) | packages, `daemon.json`, service | `Install` | daemon settings take effect; settings of the host are kept |
| PostgreSQL (`internal/postgresql`) | cluster files, `pg_hba.conf` and its backup, password, role, temporary database | `Configure` | files usable after a stop; the distribution's rules are not lost without a backup |
| packages (`internal/packages`) | package source, installed packages | `Install` | a stopped run can be repeated |
| validation (`internal/validation`) | temporary network | `Run`, `RunFinal` | passes only on a provisioned host and leaves nothing |
| configuration (`internal/config`) | token file | `Parse`, `EnrollmentToken` | flags before file before defaults; the token file outlives a failed exchange |
| detection (`internal/detection`) | none; host facts | `Detect` | no token is spent on a host below the minimum |
| runner, logging, TLS helpers, entry point | none of the installation | - | - |

Interactions. `installer.go` calls every other component in one fixed order and
is the only one to touch `state.json`. Everything else meets through files:
`Configure` writes what the Agent reads when systemd starts it, Traefik's file
provider reads the route, the boot services read the rule files. The Dashboard
is reached by HTTPS requests whose replies may be lost, and the operator acts on
both sides (starts runs, approves devices, removes networks).

What is hard:

- *Crash and restart.* Any call may be the last one of a run. State is saved at
  five places only (`Preflight`, `Record`, `SaveStage`, `Validate`, `Finalize`
  in the model; the other steps are completed in memory and redone).
- *Lost and late requests.* The one-time token and the completion report change
  the Dashboard although the run may never learn it.
- *Retry.* The completion report is repeated under a saved Idempotency-Key while
  the host is measured again.
- *Interleaving.* Nothing locks out a second run.
- *Partial failure.* Files, kernel rules and two-rename replacements are changed
  by several calls with their own ways back, which may fail too.
- *Stale state.* A recorded stage is skipped, a live Agent is not restarted.
- *Power failure.* Renames reach the disk some time after `Save` returned.
- *Files written in place.* Five files of the stages and one backup are written
  by `os.WriteFile`; a stop in the middle leaves a short file that later runs read.
- *Time.* Poll looks at the deadline before a sleep and a request that end behind
  it; the Dashboard chooses the interval; the client's timeout may be off.

`PROJECT.json` lists each hazard at its line with the properties that cover it.

## 2. Modules and code

```
Dashboard <- Installer <- InstallerLiveness <- MCInstallerLiveness
                 |  \____ MCInstaller
                 |  \____ InstallerProofs <- LifecycleProofs <- ReportProofs
                 `- implements NodeLifecycle (INSTANCE, LifecycleSpec)
                 `- implements StageLedger   (INSTANCE, LedgerSpec)
AtomicFile   implements AtomicCell  (CellSpec)    MCAtomicFile,  AtomicFileProofs
AgentBinary  implements BinarySlot  (SlotSpec)    MCAgentBinary, AgentBinaryProofs
Firewall                                          MCFirewall,    FirewallProofs
Stages       implements StageLedger (LedgerSpec)  MCStages,      StagesProofs
Enroll                                            MCEnroll,      EnrollProofs
```

**Installer** is the core. One action is one call of the flow; `pc[p]` is where
run `p` is between two calls.

| Action | Code |
|---|---|
| `Launch` | `state.Load`, then the host is measured; memory and disk size are overwritten on every run (`installer.go:85-86`) |
| `Preflight` | the step is completed and saved; a saved enrollment with a bootstrap token is resumed (`installer.go:100`), anything else enrolls again |
| `SendAutomatic`, `ReceiveAutomatic` | the one-time token is exchanged; `--delete-token-file` removes the file after the reply and before the save |
| `SendCreate`, `ReceiveDevice`, `PollApproved` | device code |
| `Record` | the approval is copied into the state (`installer.go:128-147`) and saved at once |
| `ReportProgress`, `RunStage`, `WriteRoute`, `StartTraefik`, `SaveStage` | one turn of the loop over the stages (`installer.go:181-195`); progress is best effort |
| `InstallRelease`, `WriteDigest`, `WriteConfig`, `ApplyFirewall`, `EnableAgent` | what is redone by every run (`installer.go:196-273`) |
| `Validate` | final validation, then the completion key is drawn and saved before its first use; a saved key is used again |
| `Finalize` | the report was acknowledged: secrets cleared, state saved |
| `Refused`, `Stop` | the ends of a run that fails |
| `InstallUpdate`, `RestartAgent`, `Uninstall`, `AgentRestarts` | `update`, `uninstall`, systemd |

`Stop(p)` stands for every error a call can return, the two hour context
deadline (`cmd/centralcloud-installer/main.go:42`), a kill and a reboot: all
lose `mem[p]` and leave the file, the host and the Dashboard. A request that was
under way may still arrive (`late`). Progress requests are fire and forget and
do not arrive late in the model. Flags (`--delete-token-file`,
`--skip-firewall`, interactive or not) are nondeterministic where they are used,
so every combination is explored, including one that differs between runs.

Abstractions: `mem[p].node` stands for node ID, name, FQDN, endpoint, suffix,
Agent version, protocol and manifest URL, which are copied together from one
approval; `digest` and `bootstrap` are represented by the enrollment they were
issued for, so a mix of two approvals is visible; `completed` is a set because
only membership is asked; `size` stands for memory and disk sizes. `installSelf`
and `Detect` change nothing the properties see and fail as `Stop`.

**Dashboard** is external: it is what the client and the resume logic rely on
(one-time token, device approval, idempotent completion per key, expiring
bootstrap token), and nothing is proved about the real service. **NodeLifecycle**
is the abstract promise of the resumable installation: a host belongs to one
enrollment, takes another only after the first was acknowledged, and forgets the
secrets only after the acknowledgement. `Phase` is the refinement mapping.
**StageLedger** is the promise of the loop over the stages (`installer.go:175-195`),
the one that lets `HasCompleted` skip: work is done for the first stage that is
not recorded, a stage is recorded only while it is in force, and what is recorded
stays in force. Installer implements it with "the action of the stage succeeded"
for *in force*, Stages with the host itself (`InForce(n)`: the packages, the
daemon settings, the rules with the role's password, the container).

**InstallerLiveness** adds `corrected`: failures may happen until the operator
has corrected their cause.

**AtomicFile** is `Store.Save` and `Load` (`internal/state/state.go`) at the level
of create, write, sync, rename, with write-back and power failure; the Agent
files, the firewall rules and `daemon.json` use the same sequence. **AtomicCell**
says what replacing a file as a whole promises, including that a power failure
may take it back to an earlier value, since the directory is not synced.

**AgentBinary** is `InstallAsset` (`internal/release/release.go:119-168`) call by
call: digest check, temporary file, stat, remove, rename aside, rename in, way
back. install and repair compare the installer with the version the manifest
asks for first (`Compatible`), `update` does not. **BinarySlot** is its promise,
with two views of the host: the release it has, in its place or kept as
`.previous`, and whether one is in its place and can be started. BinarySlot is not
a replacement in one step, because the code's is none: the old binary is taken
away first (`release.go:159`), and until the second rename there is nothing to
start.

**Firewall** is `Build` and `Apply` for both backends
(`internal/firewall/firewall.go`). The semantics of ufw (replace the same match
in place, append otherwise, first match decides, default deny), of `nft -f`
(atomic; `flush table` keeps set elements) and of the boot services are external.
Every command may fail with or without effect, restores and reloads may fail,
runs may be killed, the host may reboot and the Traefik network may get another
subnet between or during runs.

**Stages** opens what Installer's `RunStage`, `WriteRoute`, `StartTraefik` and
`Validate` take for single steps: every call of `packages.Install`,
`docker.Install`, `postgresql.Configure`, `traefik.ConfigureAgent` and
`validation.RunFinal` that changes the host or decides, in order.

| Action | Code |
|---|---|
| `Refresh`, `InstallPostgres` | `packages.go:14-41`; apt reads the sources of earlier runs first |
| `InstallDocker`, `ConfigureDaemon`, `EnableDocker`, `RestartDocker` | `docker.go:16-60`; `changed` is the local that decides the restart |
| `Open`, `Fill` | `os.WriteFile`: the file is truncated, then written; `Stop` in between leaves it empty or cut |
| `ReadRules`, `ReadPassword` | `configureAccess`, `ensurePassword` (`postgresql.go:91-146`) |
| `RestartPostgres`, `AlterRole`, `ProbeDatabase` | the commands of `postgresql.go:74-82`; the server holds the files it was started with |
| `CreateNetwork`, `InspectContainer`, `CreateContainer`, `StartContainer` | `traefik.go:88-142`; `docker run` creates and then starts |
| `Validate`, `ProbeNetwork` | `validation.go:15-52` |
| `SaveStage` | `installer.go:191-195` |
| `Refused`, `Stop` | a call that cannot succeed; every other end of a run, an `apt-get install` that breaks off included (`Installing`, `dpkg`) |
| `Reboot`, `PutAside`, `DropTCP`, `ConfigurePackages` | the host; the operator, as `docs/operations.md:43-50`, the error of `docker.go:89` and that of apt-get ask |

A file is its content as far as the code or PostgreSQL tells contents apart: of
`pg_hba.conf`, whether it has the marker `configureAccess` looks for and whether
it has the distribution's rules below it; of the password, whether it has 32
bytes; of `daemon.json`, the log driver and a TCP host. `Torn` is what a write
that ends part way may leave. A short `pg_hba.conf` is cut behind the marker, and
either before the distribution's rule that lets postgres in (`"cut"`: psql fails
from then on) or behind it (`"trimmed"`: psql works, the marker makes
`configureAccess` leave the file as it is, and the stage is recorded without the
rules behind the cut). Cut within the marker it has no rule at all and counts as the
empty file.

**Enroll** opens what Installer takes for a request and its reply. `Launch` takes
any flags, environment and configuration file of the instance; `Effective` is
`applyConfigFile`, `Named` and `TokenValid` are `EnrollmentToken`, `Admissible`
is `Detect`. `Created`, `Pending` and `SlowDown` go through `Poll`, the head of
the loop at `client.go:106`, `Wake` is the timer, `Cancelled` and `TimedOut` are
the context and the client's timeout. `now` is the clock, which starts with the
run; `Due` stops it until a request that has timed out has ended, and `Tick`
stops at the end of a sleep, so a timer is never late.
`sent` and `asked` are history: when the last request or grant was, and the
interval the Dashboard has asked for.

Operators under the heading "Plausible bugs", or marked so, are not part of any
specification. Each is a faulty version of the operator beside it, used to see
that a property does notice that bug; `PROJECT.json` pairs them.

## 3. Runs

| Run | Bounds | Distinct states | Question |
|---|---|---|---|
| `single` | 1 run at a time, 2 enrollments approved for 2 releases, 2 keys, 1 late request, update to the other release, uninstall | 1.2 million | are reports true and replayable; who is refused; what the host serves; does the flow implement NodeLifecycle and StageLedger |
| `racing` | 2 overlapping runs, 2 enrollments, 2 keys, 1 release | 1.2 million (up to symmetry) | what survives without a lock |
| `live` | 1 run, 1 enrollment, 1 key | 58 thousand | does repair complete what install began |
| `file` | 2 writers, 3 values | 1.3 thousand | does a reader ever find a torn file |
| `binary` | 3 releases, 3 installer versions | 449 | is the binary ever lost; when does it change |
| `firewall` | 2 subnets, 3 earlier rule sets, both backends | 37 thousand | SSH kept, ports closed, reboots |
| `stages` | 3 stopped runs, 2 passwords, fresh hosts and hosts with a Docker, PostgreSQL or Traefik of their own | 90 thousand | is a recorded stage in force (StageLedger); what turns a run away; does repair get through |
| `enroll` | 2 tokens, 2 token files, 6 command lines, 7 configuration files, code lifetimes 2 and 4, intervals 0, 1 and 4, context of 7 units | 330 thousand | do flags decide; is polling paced, in time and finite |
| `reenroll`, `expiry`, `proxy`, `rotation` | as above, smaller | - | section 6 |

Why the bounds suffice. Two enrollments make a re-enrollment and every mix of two
identities possible; a third adds no new relation between *this* and *another*
one. Two keys let a report be repeated under the saved key and under a different
one. Two releases make a stale binary visible. One late request is what one
stopped run can leave; it may arrive in any later run. In `single` the runs
follow each other in any number. Three values and two writers in `file` give a
value before, one being saved by each writer and one after a reversal. Three
releases in `binary` let installed, retained and requested release all differ.
In `firewall` the rules start empty, with the operator's own SSH rule, or with an
SSH rule the plan must replace. In `stages` one stop leaves a short file, a
second can spoil its backup or meet the leftovers of the first, and a third does
so behind another stage; two passwords make the role's differ from the file's.
In `enroll` a unit of time stands for the 5 s of `slow_down`; an interval may be
zero, may be grown up to the maximum of 3 and may exceed it (4), a code may
expire during a sleep or a request, and the context (7) is longer than any code,
so both ends are reached. With `MaxInterval` as the client's timeout and 0 as
the other, a request ends by either. The command lines and files hold each
setting on either side, on both and on neither where the choice matters.

The `racing` run cuts what would only multiply states: `Focused` (no expiry, the
token file stays, no progress display), `AgentStays` (the Agent is not restarted
by systemd), no late request, no update or uninstall, and symmetry over runs and
keys, which are interchangeable in the specification and in its properties
(invariants and an action property, no liveness). The same properties are proved
without these cuts (section 5).

What the safety properties say, and how they could fail:

- `RecordedStagesDone`: a stage on disk has succeeded; fails if an error is
  dropped between action and save.
- `ResumableIdentity`: the enrollment, node, digest and bootstrap token that
  repair resumes from come from one approval.
- `OnlyOverlapLosesToken`: a bootstrap token the Dashboard has not acknowledged
  leaves the state file only by the save of an overlapping run that does not hold
  it. That this loss does happen is part of the model: one run loads a blank
  state, another records its enrollment, and the first saves at
  `installer.go:96`.
- `CompletedNodeProvisioned`, `ProgressTruthful`: the Dashboard is never ahead
  of the host, late and repeated reports included.
- `ReportReplayable`: a repeated report is the first one or a replay of the
  accepted one, because the key is on disk before its first use.
- `ReportMatchesHost`: digest, configuration and binary belong to the reported
  node although each is written by a call of its own.
- `TokenSpentBeforeDelete`: the token file outlives a failed exchange.
- `RefusedOnlyWhenExpired`: a host that has an enrollment to resume is turned
  away only once the bootstrap token expired. It would fail if a run could reach
  the report under another key than the accepted one, or enroll anew while the
  old approval is pending.
- `FirstEnrollmentServed`: until the host completes a second enrollment its route
  and its live Agent are those of the state file, although the route is written
  in a stage that is skipped later and the Agent is never restarted; it relies on
  an unacknowledged enrollment never being replaced.
- `LifecycleSpec`, `LedgerSpec` (of Installer and of Stages), `CellSpec`,
  `SlotSpec`: the refinements.
- `RecordedStagesInForce`: what repair skips is in force, the role's password is
  the one on file and the rules are managed, loaded and let postgres in, whatever
  number of runs stopped in the stage. It does not say that no rule was lost: a
  `pg_hba.conf` cut behind the rule for postgres is recorded by the code
  (section 6).
- `OneStopKeepsRules`: the distribution's access rules survive one stop, in the
  file, its backup or the memory of the run, also when the stage is recorded with
  a cut file; two stops can lose them.
- `ProbesRemoved`, `ContainerNeverReplaced`: temporary objects are gone and an
  existing Traefik container is at most started.
- `UninterruptedRotation`: without a stop a recorded docker stage means a daemon
  that rotates its logs.
- `OnlyNamedRefusals`: the errors a repeated run meets are those of `DeadEnd`, a
  TCP host in `daemon.json`, an incompatible container and an installation that
  broke off; its own temporary objects and restarted servers are none.
- `StagesComplete` (liveness): repair gets through unless a stop left a short
  file no run gets past, which `DeadEnd` names.
- `CommandLineDecides`: token, prompts and minimum follow an explicit flag,
  through the four calls between parsing and the request.
- `TokenFileKept`: of files named by flag or configuration file, only one whose
  token was accepted is removed, and not against an explicit refusal.
- `PollPaced`, `LastRequestInTime`, `RunEnds`: requests keep the distance the
  Dashboard asked for, none starts later than an interval behind the expiry, and
  every run ends although replies, timeout and interval may all be missing.
- `LoadNeverFails`; `OnlyCommitReplaces`, `PreviousRetained`; `SSHKept`,
  `PortsStayClosed`, `SuccessSurvivesReboot`: see the comments in the modules.

Overlapping runs do break the refinement of NodeLifecycle and
`ReportMatchesHost` (both may enroll, and one records its enrollment, or saves
the blank state it loaded, over the unacknowledged one of the other), and that of
StageLedger (a run saves the
stages it loaded over those the other has recorded since), so these are claimed,
checked and proved for runs that do not overlap. The code has no lock to rely
on; operators have to.

Deadlock is checked in every run: the operator can always start another one.

## 4. Fairness

`LiveSpec` assumes, for the question whether a saved enrollment is completed:

- `WF(Correct)`: the operator corrects what is wrong, as `docs/operations.md:37`
  asks. Before that, any number of failures.
- `SF(Launch(p))`: repair is run again; strong, because an update in between
  disables it for a moment.
- `WF(Work(p) \/ ServeLive(p))`: a run goes on to its next call and a call
  returns. Go's calls return because every command and request carries the
  context of `main.go:42`; a return with an error is `Fail` or `Refused`.

Nothing is assumed of late requests, expiry, the operator's answers to device
codes, update, uninstall or Agent restarts. `InstallCompletes` allows for the
expiry of the bootstrap token; that without it the property fails is run
`expiry`.

Stages has `WF(Launch \/ Call \/ Refused)`, that a run goes on and repair is run
again, and `SF(PutAside)`, `SF(DropTCP)`, `SF(ConfigurePackages)`, that the
operator corrects what the error asks for (strong, because a run under way
disables them). Of apt-get the packages stage reports the output, which asks for
`dpkg --configure -a` (`packages.go:49-59`), the docker stage only the exit
status (`docker.go:41`): there the operator has to run it to see. Runs stop at most
`MaxStops` times, which is the assumption that the cause of stops is corrected.

Enroll has `WF(Run)`, that Go goes on to its next call, and `SF(Tick)`, that
time passes however fast the Dashboard answers (a zero interval would otherwise
stop the clock). No reply, no approval and no new run is ever forced.

## 5. Proofs

All theorems hold for every value of the constants that meets the assumptions
named in the modules (`None` is not a value, `Release` is a function, and the
like); every assumption is evaluated by a TLC run.

- **InstallerProofs**, any number of concurrent runs: `TypeOK`,
  `RecordedStagesDone`, `ResumableIdentity`, `OnlyOverlapLosesToken`,
  `CompletedNodeProvisioned` and `ProgressTruthful`. None is inductive, since a
  run saves from memory what it loaded long ago. `IInv` adds that every memory is
  `Sound` (what it would save meets the properties), what each location has
  `Achieved` (a run behind `WriteDigest` has a digest on the host, and so on),
  what a reply is worth (`Answered`), and that a late completion report exists
  only of a host that is ready. The step that makes races harmless is `Grows`:
  `done`, approvals, completions and the presence of binary, digest and
  configuration never go back, so an old memory stays sound whatever the others
  did. For `TokenHeld`, `Unbound` says that a run that is still enrolling holds no
  token, and `SaverKeepsToken` that a save by a run that holds one writes it, but
  for `Finalize`, whose reply says that the Dashboard has completed the
  enrollment. `RunsAreFinite`: `StepsLeft`, four steps for each stage left and at most
  28 in all, goes down with every step of a run, so that only a reply that does
  not come keeps a run from its end.
- **LifecycleProofs**: `Alone /\ Spec => LifecycleSpec`, where `Alone` says that
  there is one run at a time. `LInv` adds to `IInv` that memory agrees with the
  disk on enrollment and bootstrap token while the run works, and that a run
  still enrolling owns nothing unacknowledged. Each action is then a step of
  NodeLifecycle or a stutter: `Record` is `Claim`, the service of a report,
  live or late, is `Acknowledge`, `Finalize` is `Finalize`. In the same way
  `Alone /\ Spec => LedgerSpec`: a run that is alive has in memory the stages the
  disk records (`Synced`), so the stage it performs and saves is the next one of
  the ledger.
- **ReportProofs**: `TokenSpentBeforeDelete` for any number of runs, and
  `ReportMatchesHost` and `ReportReplayable` under `Alone`. `Built` follows what
  the run has written for the node in its memory. `Keyed` says that the key in
  memory is the key on disk, that a report is sent only with a saved key, and
  that every report of the enrollment being resumed, late or accepted, carries
  that key; a key is drawn only when nothing was reported, because otherwise the
  disk would have it. From it, what can refuse a run that resumes is the expiry
  alone (`RefusedOnlyWhenExpired`). `FirstEnrollmentServed` needs the refinement
  of NodeLifecycle as a lemma: `Named` and `HostOwned` say that what the host
  serves is of the enrollment on disk or of a completed one, and `OwnerKept` that
  the enrollment on disk is only replaced when it is completed.
- **AtomicFileProofs**: what a path names is never torn, now or after a power
  failure, for any number of writers; the refinement of AtomicCell. The invariant
  needs that a writer's file is whole and synced before it is renamed.
- **AgentBinaryProofs**: `TypeOK`, `OnlyCommitReplaces`, `PreviousRetained`, the
  refinement of BinarySlot, with the gap between the two renames. The invariant follows which of target and backup holds the
  binary the run began with at each location. `VersionOrder` and `NewerInstallerTaken` are
  about the comparison of versions for all versions x.y.z: it is an order, and a
  release that takes one installer takes every newer one.
- **FirewallProofs**: `TypeOK`, `SSHKept`, `PortsStayClosed`, `SuccessSurvivesReboot`, for
  any set of subnets and any earlier ufw rules. Lemmas on `PutRule` say that a
  rule that does not deny SSH keeps it open and that a rule that does not allow
  the public keeps a port shut. The invariant strengthens the properties with the
  snapshot a rollback restores (open, and shut once secured), with how far the
  plan has closed the ports at each step, and for nftables with the file, the
  include and the boot service agreeing at each stage. `ProxyReachesAgent`, which
  run `proxy` refutes, is proved where it does hold: for nftables after a
  successful run and the reboots until the next one (`NftablesReachesAgent`; of
  what a failed run leaves it says nothing), and for ufw when the subnet stays the same and no
  earlier rule was for the Agent's port from anywhere (`SteadyProxyReachesAgent`);
  `Guided` says that the refusal of everyone comes after the rule that `Leads`.
- **StagesProofs**, any set of passwords and number of stops: `TypeOK`,
  `RecordedStagesInForce`, `ProbesRemoved`, `OneStopKeepsRules`,
  `ContainerNeverReplaced`. A recorded stage stays in force because nothing writes
  its objects once the run is behind it; the invariant says per location which
  objects of the current stage are done, that a file is truncated only at its own
  location, and, for the rules, which of file, backup and memory still has them
  before and after the first stop. The same facts make every call a step of
  StageLedger or a stutter. `RotationKept` is `UninterruptedRotation`;
  `RefusalsNamed` is `OnlyNamedRefusals`; `RunsNeverStuck` says that what the next
  call needs beside that is always there (a run that would wait for ever is not a
  run the code has), and `RunsAreFinite` that each call lowers the number of
  calls left.
- **EnrollProofs**, any lifetimes, intervals, step, maximum and limit, and any
  sets of flags, files and tokens: `TypeOK`, `CommandLineDecides`,
  `LastRequestInTime`, `PollPaced`, `TokenFileKept`. The invariant carries what
  was checked on the way to each location (the token in a request is the one
  named, a run that polls is interactive), and relates the clock: the run sleeps
  from a moment before the deadline and its interval is at least what was asked,
  up to the maximum.

Model-checked only: liveness (`InstallCompletes`, `StagesComplete`, `RunEnds`;
fairness and ENABLED are beyond the prover). What those properties rest on is
proved: runs are finite (`RunsAreFinite`, twice), never wait without an error
(`RunsNeverStuck`), are turned away only for the named reasons (`RefusalsNamed`,
`OnlyExpiryEndsResuming`) and lose no stage they recorded (`ProvisionKeepsLedger`,
`LedgerRefinement`); that the operator runs repair again is the fairness. Every
safety property and refinement that a run checks is proved.

## 6. Where code and documentation disagree

| Run | What happens |
|---|---|
| `reenroll` | After a second enrollment the traefik stage is skipped and the live Agent is not restarted: route and live digest remain those of the first node, and the run reports success. |
| `expiry` | An expired bootstrap token is resumed for ever; no command discards it. |
| `rotation` | A run stops between the replacement of `daemon.json` and the restart of Docker: the next run finds the file complete and never restarts, the stage is recorded, and the live daemon has no log rotation (`docs/operations.md:35`) until the next reboot. |
| `proxy` | A changed Traefik subnet gets its ufw allow rule behind the deny of the earlier run: Traefik no longer reaches the Agent and `Apply` succeeds. |

How far the promises do hold is checked and proved beside them: until the second
enrollment is completed (`FirstEnrollmentServed`), until the token expires and
for no other reason (`RefusedOnlyWhenExpired`), as long as no run stopped
(`UninterruptedRotation`), with nftables or an unchanged subnet
(`NftablesReachesAgent`, `SteadyProxyReachesAgent`). The last one has a second
condition, which the run's instance does not meet: a host whose operator had an
`allow` for the Agent's port from anywhere gets it turned into the deny at its
place, before the rule for Traefik.

Seen on one step of the code, without a run of their own:

- After a finished installation `repair` enrolls again: the empty bootstrap token
  means "not enrolled" (`installer.go:100`), while `docs/operations.md:5`
  promises the same enrollment, node identity and digest. It is the first step
  of `reenroll`.
- `update --dry-run` replaces the binary: `InstallAsset` does not use the runner
  (`internal/config/config.go:73` says it changes nothing).
- A completion key may carry two different reports, the host being measured
  again on each run while the key is kept (`installer.go:85`, `280`).
- `docs/operations.md:6-7`: `update` "performs an atomic Agent replacement and
  retains the previous binary for rollback". Between the renames of
  `release.go:159` and `:163` the target does not exist; a run killed there leaves
  systemd nothing to start until the next run, or until someone renames
  `.previous` back. BinarySlot has this gap as a step of its own (`TakeAway`).
- A stop in the rewrite of `pg_hba.conf` behind the distribution's rule for
  postgres (`postgresql.go:122`): the marker is there, so every later run leaves
  the file as it is (line 106), the stage succeeds and is recorded, and the rules
  behind the cut (of the distribution's own, or of the host's operator) remain in
  the backup only. `docs/operations.md:37` counts on a reported error; there is
  none.
- An unacknowledged enrollment is lost when two runs overlap
  (`OnlyOverlapLosesToken`): the save of the run that does not hold its token
  takes it away, and the next repair enrolls anew, against
  `docs/operations.md:5` ("with the same enrollment").
- `DeadEnd` in Stages: a short `pgdg.list`, a short password file or a short
  `pg_hba.conf` is an error of every later repair; someone has to remove the
  file by hand, which `docs/operations.md:37` leaves to the "reported stable error
  code".

## 7. What is not modelled

- *Syntax and formatting*: flags and YAML as text (an explicit empty flag,
  malformed numbers), os-release, redaction, messages. No state of the
  installation. Settings that do not lead to the enrollment (channel, state
  directory, manifest URL, key) have the same precedence as those of Enroll.
- *Directories and symbolic links* the code refuses: among the errors of `Stop`.
- *Cryptography*: a signature or digest that verifies means the right content.
- *Logging*, and the *TLS helpers* (`internal/tls`), which no command calls.
- *The runner's dry run*: commands do nothing; the flow returns before any.
- *status, doctor, version*: read only.
- *Power failure in the flow*: Installer keeps every save that returned. The
  reversal AtomicCell allows is not composed into it, and Stages takes what a
  finished `os.WriteFile` wrote for durable.
- *Another size under the same completion key*: that the Dashboard takes such a
  report for a replay is an assumption of `Acceptable`, and the instances have one
  size.
- *The place of a cut in `pg_hba.conf`*: before or behind the rule for postgres;
  which of the rules behind it are lost is not told apart.
- *Overlapping runs in AgentBinary, Firewall, Stages and Enroll*: each is about
  runs that follow each other; the code has no lock there either.
- *IPv6 rule files and `DetectSSHPort`*: "ssh" is the detected port.

Stages is not a refinement of Installer itself, which may fail a stage in any way:
both implement StageLedger, Installer under the assumption that a stage that
succeeds is in force and stays so (`RunStage` and `done`), Stages from the calls
that bring it about. Enroll is connected less formally: what Installer assumes of
a request that succeeds (`ReceiveAutomatic`: the token is spent, the file may go)
is what `TokenFileKept` establishes.

## 8. Plan

1. Done: Dashboard, Installer, NodeLifecycle, StageLedger, InstallerLiveness,
   AtomicFile, AgentBinary, Firewall, Stages, Enroll, with their proofs.
2. Two runs in AgentBinary (`release.go:157`): which of its promises survive an
   overlap, and the invariant for them.
3. Compose the reversal of AtomicCell with the state file of Installer: which
   promises survive a power failure right after `Save` returned (a key or an
   approval that was used and is then forgotten).
4. Two runs in Stages: which of its invariants survive an overlap.
