------------------------------ MODULE Installer ------------------------------
(***************************************************************************)
(* The install, repair, update and uninstall commands of the CentralCloud  *)
(* node installer (internal/cli/installer.go) over its resumable state     *)
(* file (internal/state), the host it provisions and the Dashboard.        *)
(*                                                                         *)
(* A run is a process p.  It loads the state file into memory, advances    *)
(* one call at a time and saves at the points where the code saves.  Stop  *)
(* is every way a run ends early: an error returned by any call, the two   *)
(* hour context deadline, a kill or a reboot.  They all lose the memory    *)
(* and keep the state file, the host and the Dashboard as they are.        *)
(* Nothing in the code keeps two runs apart, so Proc may have several.     *)
(***************************************************************************)
EXTENDS Dashboard, Naturals, FiniteSets

CONSTANTS
  Proc,         \* installer processes that can be alive at the same time
  Version,      \* Agent releases
  Release,      \* Enrollment -> Agent release the Dashboard approved
  Updates,      \* Agent releases an operator may install with update
  MayUninstall, \* whether the operator uses uninstall
  MaxLate       \* bound on requests still under way after their run ended

Stages == {"packages", "docker", "postgresql", "traefik"}

ASSUME StageAssumption == Stage = Stages
ASSUME ReleaseAssumption == Release \in [Enrollment -> Version]
ASSUME UpdatesAssumption == Updates \subseteq Version
ASSUME MaxLateAssumption == MaxLate \in Nat
ASSUME NoneAssumption ==
  None \notin Enrollment \union Key \union Size \union Version \union Stage

VARIABLES
  pc, mem, answer,  \* per run: control, in-memory state, last reply
  late,             \* requests whose run ended before the reply
  disk,             \* state.json
  tokenFile,        \* the enrollment token file is present
  drawn,            \* completion keys generated so far
  done,             \* provisioning stages that have succeeded on the host
  route,            \* node the Traefik file provider routes to
  binary,           \* /usr/local/bin/centralcloud-agent
  config,           \* config.yaml (node) and api_token.sha256 (digest)
  running           \* binary and configuration the live Agent started with

runVars == <<pc, mem, answer, late>>
hostVars == <<done, route, binary, config, running>>
vars == <<runVars, disk, tokenFile, drawn, hostVars, dashVars>>

Step == Stages \union {"preflight", "waiting_for_claim", "firewall", "agent",
                       "validation", "complete"}

State == [enrollment : Enrollment \union {None},
          node : Enrollment \union {None},
          digest : Enrollment \union {None},
          bootstrap : Enrollment \union {None},
          key : Key \union {None},
          size : Size \union {None},
          completed : SUBSET Step,
          step : Step]

(* What Load returns when there is no file: nothing enrolled or completed. *)
NewState == [enrollment |-> None, node |-> None, digest |-> None,
             bootstrap |-> None, key |-> None, size |-> None,
             completed |-> {}, step |-> "preflight"]

AgentConfig == [node : Enrollment \union {None},
                digest : Enrollment \union {None}]
AgentImage == [binary : Version \union {None}, config : AgentConfig]

Location == {"idle", "preflight", "enroll", "automatic", "device", "poll",
             "record", "stage", "stage_run", "container", "stage_save",
             "release", "digest", "configure", "firewall", "enable",
             "validate", "finish", "restart"}

TypeOK ==
  /\ DashTypeOK
  /\ pc \in [Proc -> Location]
  /\ mem \in [Proc -> State]
  /\ answer \in [Proc -> Enrollment \union {None}]
  /\ late \in SUBSET Request
  /\ disk \in State
  /\ tokenFile \in BOOLEAN
  /\ drawn \in SUBSET Key
  /\ done \in SUBSET Stages
  /\ route \in Enrollment \union {None}
  /\ binary \in Version \union {None}
  /\ config \in AgentConfig
  /\ running \in AgentImage \union {None}

Init ==
  /\ DashInit
  /\ pc = [p \in Proc |-> "idle"]
  /\ mem = [p \in Proc |-> NewState]
  /\ answer = [p \in Proc |-> None]
  /\ late = {}
  /\ disk = NewState
  /\ tokenFile \in BOOLEAN
  /\ drawn = {}
  /\ done = {}
  /\ route = None
  /\ binary = None
  /\ config = [node |-> None, digest |-> None]
  /\ running = None

-----------------------------------------------------------------------------
(* Helpers                                                                 *)

At(p, from) == pc[p] = from
Goto(p, to) == pc' = [pc EXCEPT ![p] = to]
Move(p, from, to) == At(p, from) /\ Goto(p, to)

(* State.Complete: the step is recorded once and becomes the current one.  *)
Complete(m, s) == [m EXCEPT !.completed = @ \union {s}, !.step = s]

HasCompleted(m, s) == s \in m.completed

Keep(p, m) == mem' = [mem EXCEPT ![p] = m]
Save(p, m) == Keep(p, m) /\ disk' = m

Resumable(m) == m.enrollment # None /\ m.bootstrap # None

(* The order of the stages slice: what comes before each stage.            *)
Before == [s \in Stages |->
             CASE s = "packages"   -> {}
               [] s = "docker"     -> {"packages"}
               [] s = "postgresql" -> {"packages", "docker"}
               [] s = "traefik"    -> {"packages", "docker", "postgresql"}]

(* A plausible bug: the stages are run whatever the order of the slice.    *)
NextInAnyOrder(m, s) == ~HasCompleted(m, s)

(* The loop over the stages skips what HasCompleted reports.               *)
IsNext(m, s) == ~HasCompleted(m, s) /\ \A t \in Before[s] : HasCompleted(m, t)

AfterStage(m) == IF \A s \in Stages : HasCompleted(m, s) THEN "release" ELSE "stage"

(* What the live run is waiting for a reply to.                            *)
Waiting(p) == pc[p] \in {"automatic", "device", "finish"} /\ answer[p] = None

Outstanding(p) ==
  IF pc[p] = "finish"
  THEN [type |-> "finish", enrollment |-> mem[p].enrollment,
        bootstrap |-> mem[p].bootstrap, key |-> mem[p].key,
        size |-> mem[p].size]
  ELSE Ask(pc[p])

InstalledImage == [binary |-> binary, config |-> config]

-----------------------------------------------------------------------------
(* Plausible bugs.  None is part of the specification: each replaces the   *)
(* operator of the code it is a faulty version of, and a property fails.   *)

(* A saved enrollment is not resumed: the host enrolls again.              *)
PreflightEnrollingAgain(p) ==
  /\ Move(p, "preflight", "enroll")
  /\ Save(p, Complete(mem[p], "preflight"))
  /\ UNCHANGED <<answer, late, tokenFile, drawn, hostVars, dashVars>>

(* --delete-token-file removes the file before the exchange is answered.   *)
SendAutomaticDeletingToken(p) ==
  /\ tokenFile
  /\ Move(p, "enroll", "automatic")
  /\ tokenFile' \in {tokenFile, FALSE}
  /\ UNCHANGED <<mem, answer, late, disk, drawn, hostVars, dashVars>>

(* The digest of the Agent token is not copied into the state.             *)
RecordWithoutDigest(p) ==
  LET e == answer[p]
      m == Complete([mem[p] EXCEPT !.enrollment = e, !.node = e,
                                   !.bootstrap = e], "waiting_for_claim")
  IN
  /\ Move(p, "record", AfterStage(m))
  /\ Save(p, m)
  /\ answer' = [answer EXCEPT ![p] = None]
  /\ UNCHANGED <<late, tokenFile, drawn, hostVars, dashVars>>

(* The error of a stage is dropped.                                        *)
RunStageIgnoringError(p) ==
  /\ Move(p, "stage_run", "stage_save")
  /\ \E s \in Stages \ {"traefik"} : IsNext(mem[p], s) /\ done' \in {done, done \union {s}}
  /\ UNCHANGED <<mem, answer, late, disk, tokenFile, drawn, route, binary,
                 config, running, dashVars>>

(* The node takes the place of the Agent version.                          *)
InstallReleaseOfNode(p) ==
  /\ Move(p, "release", "digest")
  /\ binary' = mem[p].node
  /\ UNCHANGED <<mem, answer, late, disk, tokenFile, drawn, done, route,
                 config, running, dashVars>>

(* A download that fails is not an error.                                  *)
InstallReleaseIgnoringError(p) ==
  /\ Move(p, "release", "digest")
  /\ binary' \in {binary, Release[mem[p].node]}
  /\ UNCHANGED <<mem, answer, late, disk, tokenFile, drawn, done, route,
                 config, running, dashVars>>

(* The digest is written as master.key is, only when it is absent.         *)
WriteDigestIfAbsent(p) ==
  /\ mem[p].digest # None
  /\ Move(p, "digest", "configure")
  /\ config' = [config EXCEPT !.digest = IF @ = None THEN mem[p].digest ELSE @]
  /\ UNCHANGED <<mem, answer, late, disk, tokenFile, drawn, done, route,
                 binary, running, dashVars>>

(* The error of writing config.yaml is dropped.                            *)
WriteConfigIgnoringError(p) ==
  /\ Move(p, "configure", "firewall")
  /\ config' \in {config, [config EXCEPT !.node = mem[p].node]}
  /\ UNCHANGED <<mem, answer, late, disk, tokenFile, drawn, done, route,
                 binary, running, dashVars>>

(* The completion key is drawn and used, but not saved first.              *)
ValidateWithoutSave(p) ==
  LET m == Complete(mem[p], "validation") IN
  /\ running # None
  /\ Stages \ {"packages"} \subseteq done
  /\ Move(p, "validate", "finish")
  /\ \E k \in Key \ drawn : /\ Keep(p, [m EXCEPT !.key = k])
                            /\ drawn' = drawn \union {k}
  /\ UNCHANGED <<answer, late, disk, tokenFile, hostVars, dashVars>>

(* The error of the completion report is dropped.                          *)
FinalizeUnacknowledged(p) ==
  /\ Move(p, "finish", "idle")
  /\ disk' = Complete([mem[p] EXCEPT !.bootstrap = None, !.digest = None,
                                     !.key = None], "complete")
  /\ Keep(p, NewState)
  /\ answer' = [answer EXCEPT ![p] = None]
  /\ UNCHANGED <<late, tokenFile, drawn, hostVars, dashVars>>

-----------------------------------------------------------------------------
(* install and repair                                                      *)

(* Load the state file and measure the host.  The measurement replaces the *)
(* saved one on every run.                                                 *)
Launch(p) ==
  /\ Move(p, "idle", "preflight")
  /\ \E n \in Size : Keep(p, [disk EXCEPT !.size = n])
  /\ UNCHANGED <<answer, late, disk, tokenFile, drawn, hostVars, dashVars>>

(* Save the preflight step, then resume the saved enrollment or enroll.    *)
Preflight(p) ==
  LET m == Complete(mem[p], "preflight") IN
  /\ Move(p, "preflight", IF Resumable(m) THEN AfterStage(m) ELSE "enroll")
  /\ Save(p, m)
  /\ UNCHANGED <<answer, late, tokenFile, drawn, hostVars, dashVars>>

(* A one-time token was supplied: exchange it.                             *)
SendAutomatic(p) ==
  /\ tokenFile
  /\ Move(p, "enroll", "automatic")
  /\ UNCHANGED <<mem, answer, late, disk, tokenFile, drawn, hostVars, dashVars>>

(* No token and interactive: ask for a device code.                        *)
SendCreate(p) ==
  /\ Move(p, "enroll", "device")
  /\ UNCHANGED <<mem, answer, late, disk, tokenFile, drawn, hostVars, dashVars>>

(* The token was exchanged; --delete-token-file removes the file now,      *)
(* before the enrollment is saved.                                         *)
ReceiveAutomatic(p) ==
  /\ answer[p] # None
  /\ Move(p, "automatic", "record")
  /\ tokenFile' \in {tokenFile, FALSE}
  /\ UNCHANGED <<mem, answer, late, disk, drawn, hostVars, dashVars>>

(* The device code is displayed and polling starts.                        *)
ReceiveDevice(p) ==
  /\ answer[p] # None
  /\ Move(p, "device", "poll")
  /\ UNCHANGED <<mem, answer, late, disk, tokenFile, drawn, hostVars, dashVars>>

(* Poll returned the approval.                                             *)
PollApproved(p) ==
  /\ Move(p, "poll", "record")
  /\ dash[answer[p]] = "approved"
  /\ UNCHANGED <<mem, answer, late, disk, tokenFile, drawn, hostVars, dashVars>>

(* Copy the approval into the state, reduce the Agent token to its digest  *)
(* and save everything at once.                                            *)
Record(p) ==
  LET e == answer[p]
      m == Complete([mem[p] EXCEPT !.enrollment = e, !.node = e,
                                   !.digest = e, !.bootstrap = e],
                    "waiting_for_claim")
  IN
  /\ Move(p, "record", AfterStage(m))
  /\ Save(p, m)
  /\ answer' = [answer EXCEPT ![p] = None]
  /\ UNCHANGED <<late, tokenFile, drawn, hostVars, dashVars>>

(* Progress is best effort: its outcome is ignored.                        *)
ReportProgress(p) ==
  /\ Move(p, "stage", "stage_run")
  /\ \/ \E s \in Stages : /\ IsNext(mem[p], s)
                          /\ ShowProgress(mem[p].enrollment, s)
     \/ UNCHANGED dashVars
  /\ UNCHANGED <<mem, answer, late, disk, tokenFile, drawn, hostVars>>

(* The action of a stage other than traefik succeeds.                      *)
RunStage(p) ==
  /\ Move(p, "stage_run", "stage_save")
  /\ \E s \in Stages \ {"traefik"} :
       /\ IsNext(mem[p], s)
       /\ done' = done \union {s}
  /\ UNCHANGED <<mem, answer, late, disk, tokenFile, drawn, route, binary,
                 config, running, dashVars>>

(* The traefik stage first writes the route to the node ...                *)
WriteRoute(p) ==
  /\ IsNext(mem[p], "traefik")
  /\ Move(p, "stage_run", "container")
  /\ route' = mem[p].node
  /\ UNCHANGED <<mem, answer, late, disk, tokenFile, drawn, done, binary,
                 config, running, dashVars>>

(* ... and then creates or starts the container.                           *)
StartTraefik(p) ==
  /\ Move(p, "container", "stage_save")
  /\ done' = done \union {"traefik"}
  /\ UNCHANGED <<mem, answer, late, disk, tokenFile, drawn, route, binary,
                 config, running, dashVars>>

SaveStage(p) ==
  \E s \in Stages :
    LET m == Complete(mem[p], s) IN
    /\ IsNext(mem[p], s)
    /\ Move(p, "stage_save", AfterStage(m))
    /\ Save(p, m)
    /\ UNCHANGED <<answer, late, tokenFile, drawn, hostVars, dashVars>>

(* Fetch the signed manifest and install the Agent release it names; the   *)
(* manifest must be for the version the Dashboard approved.                *)
InstallRelease(p) ==
  /\ Move(p, "release", "digest")
  /\ binary' = Release[mem[p].node]
  /\ UNCHANGED <<mem, answer, late, disk, tokenFile, drawn, done, route,
                 config, running, dashVars>>

(* Configure writes the digest file, an absent digest being an error ...   *)
WriteDigest(p) ==
  /\ mem[p].digest # None
  /\ Move(p, "digest", "configure")
  /\ config' = [config EXCEPT !.digest = mem[p].digest]
  /\ UNCHANGED <<mem, answer, late, disk, tokenFile, drawn, done, route,
                 binary, running, dashVars>>

(* ... and then config.yaml and the unit file.                             *)
WriteConfig(p) ==
  /\ Move(p, "configure", "firewall")
  /\ config' = [config EXCEPT !.node = mem[p].node]
  /\ UNCHANGED <<mem, answer, late, disk, tokenFile, drawn, done, route,
                 binary, running, dashVars>>

(* Detect, build and apply the firewall, or skip it: the step counts as    *)
(* completed either way, in memory only.                                   *)
ApplyFirewall(p) ==
  /\ Move(p, "firewall", "enable")
  /\ Keep(p, Complete(mem[p], "firewall"))
  /\ UNCHANGED <<answer, late, disk, tokenFile, drawn, done, route, binary,
                 config, running, dashVars>>

(* systemctl enable --now: starts the Agent, and leaves a live one alone.  *)
EnableAgent(p) ==
  /\ Move(p, "enable", "validate")
  /\ running' = IF running = None THEN InstalledImage ELSE running
  /\ Keep(p, Complete(mem[p], "agent"))
  /\ UNCHANGED <<answer, late, disk, tokenFile, drawn, done, route, binary,
                 config, dashVars>>

(* Final validation of the services and of the live Agent, then the        *)
(* completion key is drawn and saved before it is first used; a saved key  *)
(* is used again and nothing is saved.                                     *)
Validate(p) ==
  LET m == Complete(mem[p], "validation") IN
  /\ running # None
  /\ Stages \ {"packages"} \subseteq done
  /\ Move(p, "validate", "finish")
  /\ IF m.key = None
     THEN \E k \in Key \ drawn :
            /\ Save(p, [m EXCEPT !.key = k])
            /\ drawn' = drawn \union {k}
     ELSE /\ Keep(p, m)
          /\ UNCHANGED <<disk, drawn>>
  /\ UNCHANGED <<answer, late, tokenFile, hostVars, dashVars>>

(* The Dashboard acknowledged the report: forget the secrets and save.     *)
Finalize(p) ==
  /\ answer[p] # None
  /\ Move(p, "finish", "idle")
  /\ disk' = Complete([mem[p] EXCEPT !.bootstrap = None, !.digest = None,
                                     !.key = None], "complete")
  /\ Keep(p, NewState)
  /\ answer' = [answer EXCEPT ![p] = None]
  /\ UNCHANGED <<late, tokenFile, drawn, hostVars, dashVars>>

(* The Dashboard answers with an error, or the operator denied the device. *)
Refused(p) ==
  /\ \/ Waiting(p) /\ Refuses(Outstanding(p))
     \/ At(p, "poll") /\ dash[answer[p]] = "denied"
  /\ Goto(p, "idle")
  /\ Keep(p, NewState)
  /\ answer' = [answer EXCEPT ![p] = None]
  /\ UNCHANGED <<late, disk, tokenFile, drawn, hostVars, dashVars>>

(* Any other early end of a run.  A request without a reply may still      *)
(* reach the Dashboard later.                                              *)
Stop(p) ==
  /\ ~At(p, "idle")
  /\ Goto(p, "idle")
  /\ Keep(p, NewState)
  /\ answer' = [answer EXCEPT ![p] = None]
  /\ \/ UNCHANGED late
     \/ /\ Waiting(p)
        /\ late' = late \union {Outstanding(p)}
        /\ Cardinality(late') <= MaxLate
  /\ UNCHANGED <<disk, tokenFile, drawn, hostVars, dashVars>>

-----------------------------------------------------------------------------
(* update, uninstall and the service manager                               *)

(* update: install the release of an explicit manifest ...                 *)
InstallUpdate(p) ==
  /\ Move(p, "idle", "restart")
  /\ binary' \in Updates
  /\ UNCHANGED <<mem, answer, late, disk, tokenFile, drawn, done, route,
                 config, running, dashVars>>

(* ... and restart the Agent, which fails when it was never configured.    *)
RestartAgent(p) ==
  /\ Move(p, "restart", "idle")
  /\ running' = IF config.node # None THEN InstalledImage ELSE running
  /\ UNCHANGED <<mem, answer, late, disk, tokenFile, drawn, done, route,
                 binary, config, dashVars>>

(* uninstall: disable --now, nothing else.                                 *)
Uninstall(p) ==
  /\ MayUninstall
  /\ At(p, "idle")
  /\ running # None
  /\ running' = None
  /\ UNCHANGED <<runVars, disk, tokenFile, drawn, done, route, binary, config,
                 dashVars>>

(* Restart=on-failure or a reboot: the Agent comes back with what is       *)
(* installed now.                                                          *)
AgentRestarts ==
  /\ running # None
  /\ running' = InstalledImage
  /\ UNCHANGED <<runVars, disk, tokenFile, drawn, done, route, binary, config,
                 dashVars>>

-----------------------------------------------------------------------------
(* The Dashboard's side                                                    *)

ServeLive(p) ==
  \E e \in Enrollment :
    /\ Waiting(p)
    /\ Serve(Outstanding(p), e)
    /\ answer' = [answer EXCEPT ![p] = e]
    /\ UNCHANGED <<pc, mem, late, disk, tokenFile, drawn, hostVars>>

ServeLate ==
  \E r \in late, e \in Enrollment :
    /\ Serve(r, e)
    /\ late' = late \ {r}
    /\ UNCHANGED <<pc, mem, answer, disk, tokenFile, drawn, hostVars>>

DashboardAlone(e) ==
  /\ OperatorAnswers(e) \/ BootstrapExpires(e)
  /\ UNCHANGED <<runVars, disk, tokenFile, drawn, hostVars>>

-----------------------------------------------------------------------------
Work(p) ==
  \/ Launch(p) \/ Preflight(p)
  \/ SendAutomatic(p) \/ SendCreate(p)
  \/ ReceiveAutomatic(p) \/ ReceiveDevice(p) \/ PollApproved(p) \/ Record(p)
  \/ ReportProgress(p) \/ RunStage(p) \/ WriteRoute(p) \/ StartTraefik(p)
  \/ SaveStage(p)
  \/ InstallRelease(p) \/ WriteDigest(p) \/ WriteConfig(p) \/ ApplyFirewall(p)
  \/ EnableAgent(p) \/ Validate(p) \/ Finalize(p)
  \/ Refused(p) \/ RestartAgent(p)

(* Everything but the failures.                                            *)
Smooth ==
  \/ \E p \in Proc : Work(p) \/ InstallUpdate(p) \/ Uninstall(p) \/ ServeLive(p)
  \/ ServeLate
  \/ \E e \in Enrollment : DashboardAlone(e)
  \/ AgentRestarts

Next == Smooth \/ \E p \in Proc : Stop(p)

Spec == Init /\ [][Next]_vars

-----------------------------------------------------------------------------
(* Safety, whatever the number of runs                                     *)

(* A stage the state file records as completed has really succeeded on the *)
(* host: repair may skip it (HasCompleted in provision).                   *)
RecordedStagesDone == disk.completed \intersect Stages \subseteq done

(* The identity repair resumes from is whole and genuine: enrollment, node *)
(* and digest come from one approval, its bootstrap token is the right     *)
(* one, and the Dashboard did approve it.                                  *)
ResumableIdentity ==
  disk.bootstrap # None =>
    /\ disk.enrollment = disk.bootstrap
    /\ disk.node = disk.bootstrap
    /\ disk.digest = disk.bootstrap
    /\ dash[disk.bootstrap] \in {"approved", "completed"}

(* A bootstrap token that the Dashboard has not acknowledged leaves the    *)
(* state file in one way only: an overlapping run that does not hold it    *)
(* saves over it (installer.go:96, :147, :192), which nothing prevents.    *)
(* No run that holds a token gives it up before the acknowledgement.       *)
OnlyOverlapLosesToken ==
  [][\A e \in Enrollment :
       (disk.bootstrap = e /\ disk'.bootstrap # e /\ dash[e] # "completed") =>
         \E p \in Proc : pc'[p] # pc[p] /\ mem[p].bootstrap # e]_disk

(* A token file is deleted only when its token bought an enrollment: a     *)
(* failed exchange must leave it for the next attempt.                     *)
TokenSpentBeforeDelete == [][tokenFile /\ ~tokenFile' => tokenUsed]_tokenFile

(* The Dashboard holds a node for completed only if every stage succeeded  *)
(* on the host and an Agent is installed and configured there, late and    *)
(* repeated completion reports included.                                   *)
CompletedNodeProvisioned ==
  (\E e \in Enrollment : dash[e] = "completed") =>
    /\ Stages \subseteq done
    /\ binary # None
    /\ config.node # None /\ config.digest # None

(* Progress is shown for a stage only when the stages before it succeeded. *)
ProgressTruthful ==
  \A e \in Enrollment : progress[e] # None => Before[progress[e]] \subseteq done

-----------------------------------------------------------------------------
(* Safety when runs do not overlap                                         *)

(* However often the report is repeated, after crashes and lost replies,   *)
(* it is the first one or the replay of the accepted one: until the        *)
(* bootstrap token expires the Dashboard never refuses it.                 *)
ReportReplayable ==
  \A p \in Proc : (At(p, "finish") /\ mem[p].enrollment \notin expired) =>
    Acceptable(Outstanding(p))

(* The only dead end of a host with an enrollment to resume is that its    *)
(* bootstrap token ran out: nothing else the Dashboard or the operator     *)
(* answers turns its run away, whatever it crashed in before.              *)
RefusedOnlyWhenExpired ==
  [][\A p \in Proc : (Refused(p) /\ Resumable(disk)) => disk.enrollment \in expired]_vars

(* What is reported as the node is what is installed on the host.          *)
ReportMatchesHost ==
  \A p \in Proc : At(p, "finish") =>
    /\ config = [node |-> mem[p].node, digest |-> mem[p].digest]
    /\ binary = Release[mem[p].node]

(* The state file and the Dashboard, crashes and late reports included,    *)
(* keep the promise of NodeLifecycle: an enrollment stays in the state     *)
(* file, resumable, until it is acknowledged, and only then is it          *)
(* finalized or replaced by another.                                       *)
Phase ==
  CASE disk.enrollment = None -> "unclaimed"
    [] Resumable(disk)        -> "claimed"
    [] OTHER                  -> "finalized"

Acknowledged == {e \in Enrollment : dash[e] = "completed"}

Lifecycle == INSTANCE NodeLifecycle
               WITH owner <- disk.enrollment, phase <- Phase,
                    acknowledged <- Acknowledged

LifecycleSpec == Lifecycle!LifeSpec

(* provision keeps the promise of StageLedger across crashes, repeated     *)
(* runs and enrollments: it performs and records the stages one by one, in *)
(* their order, and loses none it recorded.                                *)
Ledger == INSTANCE StageLedger
            WITH inForce <- done, recorded <- disk.completed \intersect Stages

LedgerSpec == Ledger!LedgerSpec

(* The promise of README.md:3 as far as the code keeps it (see             *)
(* HostServesEnrollment below): until the host completes a second          *)
(* enrollment, its route and its live Agent are those of the enrollment of *)
(* the state file, whatever earlier runs left half written.                *)
FirstEnrollmentServed ==
  (\A e \in Enrollment : dash[e] = "completed" => e = disk.enrollment) =>
    ((disk.enrollment # None /\ disk.bootstrap = None /\ running # None) =>
       /\ route = disk.node
       /\ running.config = [node |-> disk.node, digest |-> disk.node])

-----------------------------------------------------------------------------
(* What the documentation says and the code does not do                    *)

(* README.md:3: the installer enrolls the server, "then reconciles Docker, *)
(* PostgreSQL, Traefik HTTPS, per-node Bearer authentication and the       *)
(* signed Agent release": once a run has finalized an enrollment, the      *)
(* route and the live Agent are those of that enrollment.                  *)
HostServesEnrollment ==
  (disk.enrollment # None /\ disk.bootstrap = None /\ running # None) =>
    /\ route = disk.node
    /\ running.config = [node |-> disk.node, digest |-> disk.node]
=============================================================================
