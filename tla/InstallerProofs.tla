--------------------------- MODULE InstallerProofs ---------------------------
(***************************************************************************)
(* What Installer guarantees for any number of runs, enrollments, keys and *)
(* late requests, and that every run has a last step.                      *)
(***************************************************************************)
EXTENDS Installer, TLAPS

(* The inductive invariant                                                 *)

Vouched(e) == dash[e] \in {"approved", "completed"}

(* What holds of the state file and of the memory of every run: its        *)
(* stages are done, its identity is one approved enrollment, and a         *)
(* forgotten bootstrap token means an acknowledged enrollment.             *)
Sound(m) ==
  /\ m.completed \intersect Stages \subseteq done
  /\ m.bootstrap # None =>
       /\ m.enrollment = m.bootstrap
       /\ m.node = m.bootstrap
       /\ m.digest = m.bootstrap
       /\ Vouched(m.bootstrap)
  /\ (m.enrollment # None /\ m.bootstrap = None) =>
       dash[m.enrollment] = "completed"

(* Locations by what a run that reached them has achieved.                 *)
Reporting    == {"firewall", "enable", "validate", "finish"}
Configuring  == {"configure"} \union Reporting
Releasing    == {"digest"} \union Configuring
Provisioned  == {"release"} \union Releasing
Provisioning == {"stage", "stage_run", "container", "stage_save"} \union Provisioned

(* What the run at p has achieved.                                         *)
Achieved(p) ==
  /\ pc[p] \in Provisioning => mem[p].bootstrap # None
  /\ pc[p] \in Provisioned => Stages \subseteq mem[p].completed
  /\ pc[p] \in Releasing => binary # None
  /\ pc[p] \in Configuring => config.digest # None
  /\ pc[p] \in Reporting => config.node # None
  /\ pc[p] = "container" => IsNext(mem[p], "traefik")
  /\ pc[p] = "stage_save" => \A s \in Stages : IsNext(mem[p], s) => s \in done

(* What the reply to the run at p is worth.                                *)
Answered(p) ==
  /\ answer[p] # None => pc[p] \in {"automatic", "device", "poll", "record", "finish"}
  /\ pc[p] \in {"poll", "record"} => answer[p] # None
  /\ (pc[p] \in {"automatic", "record"} /\ answer[p] # None) => Vouched(answer[p])
  /\ (pc[p] = "finish" /\ answer[p] # None) => dash[mem[p].enrollment] = "completed"

HostReady ==
  /\ Stages \subseteq done
  /\ binary # None
  /\ config.node # None /\ config.digest # None

(* A completion report exists only of a host that is ready.                *)
ReportsReady == (\E r \in late : r.type = "finish") => HostReady

IInv ==
  /\ TypeOK
  /\ Sound(disk)
  /\ \A p \in Proc : Sound(mem[p]) /\ Achieved(p) /\ Answered(p)
  /\ ReportsReady
  /\ CompletedNodeProvisioned
  /\ ProgressTruthful

-----------------------------------------------------------------------------
(* Types                                                                   *)

(* What Load returns without a file is a state, and the initial state has  *)
(* the declared types.                                                     *)
LEMMA NewStateType == NewState \in State
  BY DEF NewState, State, Step, Stages

(* The first run finds nothing on disk, on the host or on the Dashboard.   *)
LEMMA InitTypeOK == Init => TypeOK
  <1> SUFFICES ASSUME Init PROVE TypeOK
    OBVIOUS
  <1>1. DashTypeOK
    BY DEF Init, DashInit, DashTypeOK, Status
  <1>2. pc \in [Proc -> Location]
    BY DEF Init, Location
  <1>3. config \in AgentConfig
    BY DEF Init, AgentConfig
  <1>4. mem \in [Proc -> State] /\ answer \in [Proc -> Enrollment \union {None}]
    BY NewStateType DEF Init
  <1>5. disk \in State /\ late \in SUBSET Request /\ drawn \in SUBSET Key
    BY NewStateType DEF Init
  <1>6. /\ tokenFile \in BOOLEAN /\ done \in SUBSET Stages
        /\ route \in Enrollment \union {None} /\ binary \in Version \union {None}
        /\ running \in AgentImage \union {None}
    BY Zenon DEF Init
  <1> QED BY Zenon, <1>1, <1>2, <1>3, <1>4, <1>5, <1>6 DEF TypeOK

(* Completing a known step keeps a state a state, whatever the step.       *)
LEMMA CompleteType ==
  ASSUME NEW m \in State, NEW s \in Step
  PROVE  /\ Complete(m, s) \in State
         /\ Complete(m, s).completed = m.completed \union {s}
         /\ Complete(m, s).enrollment = m.enrollment
         /\ Complete(m, s).node = m.node
         /\ Complete(m, s).digest = m.digest
         /\ Complete(m, s).bootstrap = m.bootstrap
         /\ Complete(m, s).key = m.key
  <1>1. m.completed \union {s} \in SUBSET Step
    BY DEF State
  <1>2. Complete(m, s) \in State
    BY <1>1 DEF Complete, State
  <1> QED BY <1>1, <1>2 DEF Complete, State

(* The Dashboard's own steps keep its types, given a typed request.        *)
LEMMA DashboardType ==
  ASSUME DashTypeOK, NEW r \in Request, NEW e \in Enrollment,
         Serve(r, e) \/ OperatorAnswers(e) \/ BootstrapExpires(e)
  PROVE  DashTypeOK'
  <1>1. ASSUME ServeAutomatic(r, e) PROVE DashTypeOK'
    BY <1>1 DEF DashTypeOK, ServeAutomatic, Status
  <1>2. ASSUME ServeDevice(r, e) PROVE DashTypeOK'
    BY <1>2 DEF DashTypeOK, ServeDevice, Status
  <1>3. ASSUME ServeComplete(r, e) PROVE DashTypeOK'
    <2>1. [enrollment |-> e, key |-> r.key, size |-> r.size] \in Report
      BY DEF Request, Report
    <2>2. reports' \in SUBSET Report
      BY <1>3, <2>1 DEF DashTypeOK, ServeComplete
    <2>3. dash' \in [Enrollment -> Status]
      BY <1>3 DEF DashTypeOK, ServeComplete, Status
    <2> QED BY <1>3, <2>2, <2>3 DEF DashTypeOK, ServeComplete
  <1>4. ASSUME OperatorAnswers(e) PROVE DashTypeOK'
    BY <1>4 DEF DashTypeOK, OperatorAnswers, Status
  <1>5. ASSUME BootstrapExpires(e) PROVE DashTypeOK'
    BY <1>5 DEF DashTypeOK, BootstrapExpires
  <1> QED BY <1>1, <1>2, <1>3, <1>4, <1>5 DEF Serve

(* What a live run waits for is a request.                                 *)
LEMMA OutstandingType ==
  ASSUME TypeOK, NEW p \in Proc, Waiting(p)
  PROVE  Outstanding(p) \in Request
  BY DEF TypeOK, Waiting, Outstanding, Ask, Request, State

(* A run that moves and keeps a new memory stays well typed; the rest of   *)
(* an action is about other variables.                                     *)
LEMMA MoveType ==
  ASSUME pc \in [Proc -> Location], NEW p \in Proc, NEW to \in Location, Goto(p, to)
  PROVE  pc' \in [Proc -> Location]
  BY DEF Goto

(* Keeping a state in the memory of a run changes nobody else's memory.    *)
LEMMA KeepType ==
  ASSUME mem \in [Proc -> State], NEW p \in Proc, NEW m \in State, Keep(p, m)
  PROVE  mem' \in [Proc -> State]
  BY DEF Keep

(* Every action keeps the types.  The release and the configuration files   *)
(* of a run exist because its enrollment does.                             *)
LEMMA StepTypeOK == IInv /\ [Next]_vars => TypeOK'
  <1> SUFFICES ASSUME IInv, TypeOK, [Next]_vars PROVE TypeOK'
    BY DEF IInv
  <1> USE StageAssumption
  <1>a. ASSUME NEW m \in State PROVE AfterStage(m) \in Location
    BY DEF AfterStage, Location
  <1>b. /\ "preflight" \in Step /\ "waiting_for_claim" \in Step /\ "complete" \in Step
        /\ "firewall" \in Step /\ "agent" \in Step /\ "validation" \in Step
        /\ Stages \subseteq Step
    BY DEF Step
  <1>c. \A p \in Proc : mem[p] \in State
    BY DEF TypeOK
  <1>d. \A p \in Proc : mem[p].node \in Enrollment \union {None}
    BY <1>c DEF State
  <1>e. InstalledImage \in AgentImage
    BY DEF TypeOK, InstalledImage, AgentImage
  <1>1. ASSUME NEW p \in Proc, Launch(p) PROVE TypeOK'
    <2>1. PICK n \in Size : Keep(p, [disk EXCEPT !.size = n])
      BY <1>1 DEF Launch
    <2>2. [disk EXCEPT !.size = n] \in State
      BY DEF TypeOK, State
    <2> QED BY <1>1, <2>1, <2>2, KeepType
            DEF Launch, Move, Goto, TypeOK, DashTypeOK, hostVars, dashVars, Location
  <1>2. ASSUME NEW p \in Proc, Preflight(p) PROVE TypeOK'
    <2>1. Complete(mem[p], "preflight") \in State
      BY CompleteType, <1>b, <1>c
    <2>2. Keep(p, Complete(mem[p], "preflight")) /\ disk' \in State
      BY <1>2, <2>1 DEF Preflight, Save
    <2>3. pc' \in [Proc -> Location]
      BY <1>2, <1>a, <2>1 DEF Preflight, Move, Goto, TypeOK, Location
    <2> QED BY <1>2, <2>1, <2>2, <2>3, KeepType
            DEF Preflight, TypeOK, DashTypeOK, hostVars, dashVars
  <1>3. ASSUME NEW p \in Proc,
               \/ SendAutomatic(p) \/ SendCreate(p) \/ ReceiveAutomatic(p)
               \/ ReceiveDevice(p) \/ PollApproved(p)
        PROVE TypeOK'
    BY <1>3 DEF SendAutomatic, SendCreate, ReceiveAutomatic, ReceiveDevice,
                PollApproved, Move, Goto, TypeOK, DashTypeOK, hostVars, dashVars, Location
  <1>4. ASSUME NEW p \in Proc, Record(p) PROVE TypeOK'
    <2> DEFINE e == answer[p]
               c == [mem[p] EXCEPT !.enrollment = e, !.node = e,
                                   !.digest = e, !.bootstrap = e]
               m == Complete(c, "waiting_for_claim")
    <2>1. c \in State
      BY DEF TypeOK, State
    <2>2. m \in State
      BY CompleteType, <2>1, <1>b
    <2>3. AfterStage(m) \in Location
      BY <1>a, <2>2
    <2>4. Move(p, "record", AfterStage(m)) /\ Save(p, m)
      BY <1>4 DEF Record
    <2> HIDE DEF m
    <2>5. pc' \in [Proc -> Location]
      BY <2>3, <2>4 DEF Move, Goto, TypeOK
    <2>6. mem' \in [Proc -> State] /\ disk' \in State
      BY <2>2, <2>4 DEF Save, Keep, TypeOK
    <2> QED BY <1>4, <2>5, <2>6 DEF Record, TypeOK, DashTypeOK, hostVars, dashVars
  <1>5. ASSUME NEW p \in Proc, ReportProgress(p) PROVE TypeOK'
    <2>1. pc' \in [Proc -> Location]
      BY <1>5 DEF ReportProgress, Move, Goto, TypeOK, Location
    <2>2. DashTypeOK'
      BY <1>5 DEF ReportProgress, ShowProgress, TypeOK, DashTypeOK, dashVars
    <2> QED BY <1>5, <2>1, <2>2 DEF ReportProgress, TypeOK, hostVars
  <1>6. ASSUME NEW p \in Proc, RunStage(p) \/ WriteRoute(p) \/ StartTraefik(p)
        PROVE TypeOK'
    BY <1>6, <1>d DEF RunStage, WriteRoute, StartTraefik, Move, Goto, TypeOK,
                      DashTypeOK, dashVars, Location, Stages
  <1>7. ASSUME NEW p \in Proc, SaveStage(p) PROVE TypeOK'
    <2>1. PICK s \in Stages : /\ Move(p, "stage_save", AfterStage(Complete(mem[p], s)))
                              /\ Save(p, Complete(mem[p], s))
                              /\ UNCHANGED <<answer, late, tokenFile, drawn, hostVars, dashVars>>
      BY <1>7 DEF SaveStage
    <2>2. Complete(mem[p], s) \in State
      BY CompleteType, <1>b, <1>c
    <2>3. pc' \in [Proc -> Location]
      BY <2>1, <2>2, <1>a DEF Move, Goto, TypeOK
    <2>4. mem' \in [Proc -> State] /\ disk' \in State
      BY <2>1, <2>2 DEF Save, Keep, TypeOK
    <2> QED BY <2>1, <2>3, <2>4 DEF TypeOK, DashTypeOK, hostVars, dashVars
  <1>8. ASSUME NEW p \in Proc, InstallRelease(p) \/ WriteDigest(p) \/ WriteConfig(p)
        PROVE TypeOK'
    <2>1. pc' \in [Proc -> Location]
      BY <1>8 DEF InstallRelease, WriteDigest, WriteConfig, Move, Goto, TypeOK, Location
    <2>2. CASE InstallRelease(p)
      <3>1. mem[p].node \in Enrollment
        BY <2>2, <1>d DEF InstallRelease, Move, At, IInv, Achieved, Sound, Provisioning,
                          Provisioned
      <3>2. binary' \in Version
        BY <2>2, <3>1, ReleaseAssumption DEF InstallRelease
      <3> QED BY <2>1, <2>2, <3>2 DEF InstallRelease, TypeOK, DashTypeOK, dashVars
    <2>3. CASE WriteDigest(p) \/ WriteConfig(p)
      <3>1. config' \in AgentConfig
        BY <2>3, <1>c DEF WriteDigest, WriteConfig, TypeOK, AgentConfig, State
      <3> QED BY <2>1, <2>3, <3>1 DEF WriteDigest, WriteConfig, TypeOK, DashTypeOK, dashVars
    <2> QED BY <1>8, <2>2, <2>3
  <1>9. ASSUME NEW p \in Proc, ApplyFirewall(p) \/ EnableAgent(p) PROVE TypeOK'
    <2>1. pc' \in [Proc -> Location]
      BY <1>9 DEF ApplyFirewall, EnableAgent, Move, Goto, TypeOK, Location
    <2>2. /\ Complete(mem[p], "firewall") \in State
          /\ Complete(mem[p], "agent") \in State
      BY CompleteType, <1>b, <1>c
    <2>3. mem' \in [Proc -> State]
      BY <1>9, <2>2, KeepType DEF ApplyFirewall, EnableAgent, TypeOK
    <2>4. running' \in AgentImage \union {None}
      BY <1>9, <1>e DEF ApplyFirewall, EnableAgent, TypeOK
    <2> QED BY <1>9, <2>1, <2>3, <2>4 DEF ApplyFirewall, EnableAgent, TypeOK, DashTypeOK, dashVars
  <1>10. ASSUME NEW p \in Proc, Validate(p) PROVE TypeOK'
    <2> DEFINE m == Complete(mem[p], "validation")
    <2>1. pc' \in [Proc -> Location]
      BY <1>10 DEF Validate, Move, Goto, TypeOK, Location
    <2>2. m \in State
      BY CompleteType, <1>b, <1>c
    <2>3. \A k \in Key : [m EXCEPT !.key = k] \in State
      BY <2>2 DEF State
    <2> HIDE DEF m
    <2>4. /\ mem' \in [Proc -> State]
          /\ disk' \in State /\ drawn' \in SUBSET Key
      BY <1>10, <2>2, <2>3 DEF Validate, Save, Keep, TypeOK, m
    <2> QED BY <1>10, <2>1, <2>4 DEF Validate, TypeOK, DashTypeOK, hostVars, dashVars
  <1>11. ASSUME NEW p \in Proc, Finalize(p) PROVE TypeOK'
    <2>1. pc' \in [Proc -> Location]
      BY <1>11 DEF Finalize, Move, Goto, TypeOK, Location
    <2>2. [mem[p] EXCEPT !.bootstrap = None, !.digest = None, !.key = None] \in State
      BY <1>c DEF State
    <2>3. disk' \in State
      BY <1>11, <2>2, CompleteType, <1>b DEF Finalize
    <2>4. mem' \in [Proc -> State]
      BY <1>11, NewStateType, KeepType DEF Finalize, TypeOK
    <2> QED BY <1>11, <2>1, <2>3, <2>4 DEF Finalize, TypeOK, DashTypeOK, hostVars, dashVars
  <1>12. ASSUME NEW p \in Proc, Refused(p) \/ Stop(p) PROVE TypeOK'
    <2>1. pc' \in [Proc -> Location]
      BY <1>12 DEF Refused, Stop, Goto, TypeOK, Location
    <2>2. mem' \in [Proc -> State]
      BY <1>12, NewStateType, KeepType DEF Refused, Stop, TypeOK
    <2>3. late' \in SUBSET Request
      BY <1>12, OutstandingType DEF Refused, Stop, TypeOK
    <2> QED BY <1>12, <2>1, <2>2, <2>3
            DEF Refused, Stop, TypeOK, DashTypeOK, hostVars, dashVars
  <1>13. ASSUME NEW p \in Proc, InstallUpdate(p) \/ RestartAgent(p) \/ Uninstall(p)
        PROVE TypeOK'
    <2>1. pc' \in [Proc -> Location]
      BY <1>13 DEF InstallUpdate, RestartAgent, Uninstall, Move, Goto, TypeOK, Location, runVars
    <2>2. binary' \in Version \union {None}
      BY <1>13, UpdatesAssumption DEF InstallUpdate, RestartAgent, Uninstall, TypeOK
    <2>3. running' \in AgentImage \union {None}
      BY <1>13, <1>e DEF InstallUpdate, RestartAgent, Uninstall, TypeOK
    <2> QED BY <1>13, <2>1, <2>2, <2>3
            DEF InstallUpdate, RestartAgent, Uninstall, TypeOK, DashTypeOK, runVars, dashVars
  <1>14. ASSUME AgentRestarts PROVE TypeOK'
    BY <1>14, <1>e DEF AgentRestarts, TypeOK, DashTypeOK, runVars, dashVars
  <1>15. ASSUME NEW p \in Proc, ServeLive(p) PROVE TypeOK'
    <2>1. PICK e \in Enrollment : /\ Waiting(p) /\ Serve(Outstanding(p), e)
                                  /\ answer' = [answer EXCEPT ![p] = e]
      BY <1>15 DEF ServeLive
    <2>2. DashTypeOK'
      BY <2>1, OutstandingType, DashboardType DEF TypeOK
    <2> QED BY <1>15, <2>1, <2>2 DEF ServeLive, TypeOK, hostVars
  <1>16. ASSUME ServeLate PROVE TypeOK'
    <2>1. PICK r \in late, e \in Enrollment : Serve(r, e) /\ late' = late \ {r}
      BY <1>16 DEF ServeLate
    <2>2. DashTypeOK'
      BY <2>1, DashboardType DEF TypeOK
    <2> QED BY <1>16, <2>1, <2>2 DEF ServeLate, TypeOK, hostVars
  <1>17. ASSUME NEW e \in Enrollment, DashboardAlone(e) PROVE TypeOK'
    <2>1. DashTypeOK'
      BY <1>17 DEF DashboardAlone, OperatorAnswers, BootstrapExpires, TypeOK, DashTypeOK, Status
    <2> QED BY <1>17, <2>1 DEF DashboardAlone, TypeOK, runVars, hostVars
  <1>18. CASE UNCHANGED vars
    BY <1>18 DEF vars, runVars, hostVars, dashVars, TypeOK, DashTypeOK
  <1> QED
    BY <1>1, <1>2, <1>3, <1>4, <1>5, <1>6, <1>7, <1>8, <1>9, <1>10, <1>11, <1>12,
       <1>13, <1>14, <1>15, <1>16, <1>17, <1>18
       DEF Next, Smooth, Work

-----------------------------------------------------------------------------
(* What no step takes back                                                 *)

Grows ==
  /\ done \subseteq done'
  /\ \A e \in Enrollment : Vouched(e) => Vouched(e)'
  /\ \A e \in Enrollment : dash[e] = "completed" => dash'[e] = "completed"
  /\ binary # None => binary' # None
  /\ config.digest # None => config'.digest # None
  /\ config.node # None => config'.node # None

(* What a run relies on after it looked is never taken back: stages,       *)
(* approvals, acknowledgements and the installed Agent stay.               *)
LEMMA StepGrows == IInv /\ [Next]_vars => Grows
  <1> SUFFICES ASSUME IInv, [Next]_vars PROVE Grows
    OBVIOUS
  <1> USE DEF Grows, Vouched
  <1>0. TypeOK
    BY DEF IInv
  <1>1. ASSUME UNCHANGED <<done, binary, config, dash>> PROVE Grows
    BY <1>1
  <1>2. ASSUME NEW p \in Proc,
               \/ Launch(p) \/ Preflight(p) \/ SendAutomatic(p) \/ SendCreate(p)
               \/ ReceiveAutomatic(p) \/ ReceiveDevice(p) \/ PollApproved(p)
               \/ Record(p) \/ ReportProgress(p) \/ SaveStage(p)
               \/ ApplyFirewall(p) \/ EnableAgent(p) \/ Validate(p) \/ Finalize(p)
               \/ Refused(p) \/ Stop(p) \/ RestartAgent(p) \/ Uninstall(p)
        PROVE Grows
    <2>1. UNCHANGED <<done, binary, config, dash>>
      BY <1>2 DEF Launch, Preflight, SendAutomatic, SendCreate, ReceiveAutomatic,
                  ReceiveDevice, PollApproved, Record, ReportProgress, ShowProgress,
                  SaveStage, ApplyFirewall, EnableAgent, Validate, Finalize,
                  Refused, Stop, RestartAgent, Uninstall, hostVars, dashVars, runVars
    <2> QED BY <2>1, <1>1
  <1>3. ASSUME NEW p \in Proc, RunStage(p) \/ WriteRoute(p) \/ StartTraefik(p)
        PROVE Grows
    BY <1>3 DEF RunStage, WriteRoute, StartTraefik, dashVars
  <1>4. ASSUME NEW p \in Proc, InstallRelease(p) \/ InstallUpdate(p) PROVE Grows
    <2>1. binary' \in Version
      <3>1. CASE InstallRelease(p)
        <4>1. mem[p].node \in Enrollment
          BY <3>1, <1>0 DEF InstallRelease, Move, At, IInv, Achieved, Sound,
                            Provisioning, Provisioned, TypeOK, State
        <4> QED BY <3>1, <4>1, ReleaseAssumption DEF InstallRelease
      <3>2. CASE InstallUpdate(p)
        BY <3>2, UpdatesAssumption DEF InstallUpdate
      <3> QED BY <1>4, <3>1, <3>2
    <2>2. binary' # None
      BY <2>1, NoneAssumption
    <2> QED BY <1>4, <2>2 DEF InstallRelease, InstallUpdate, dashVars
  <1>5. ASSUME NEW p \in Proc, WriteDigest(p) \/ WriteConfig(p) PROVE Grows
    <2>1. mem[p].node # None
      BY <1>5, <1>0 DEF WriteDigest, WriteConfig, Move, At, IInv, Achieved, Sound,
                        Provisioning, Provisioned, Releasing, Configuring
    <2> QED BY <1>5, <2>1, <1>0 DEF WriteDigest, WriteConfig, dashVars, TypeOK, AgentConfig
  <1>6. ASSUME NEW e \in Enrollment, NEW r, Serve(r, e) PROVE
          /\ \A d \in Enrollment : Vouched(d) => Vouched(d)'
          /\ \A d \in Enrollment : dash[d] = "completed" => dash'[d] = "completed"
    BY <1>6, <1>0 DEF Serve, ServeAutomatic, ServeDevice, ServeComplete, TypeOK, DashTypeOK
  <1>7. ASSUME NEW p \in Proc, ServeLive(p) PROVE Grows
    BY <1>7, <1>6 DEF ServeLive, hostVars
  <1>8. ASSUME ServeLate PROVE Grows
    BY <1>8, <1>6 DEF ServeLate, hostVars
  <1>9. ASSUME NEW e \in Enrollment, DashboardAlone(e) PROVE Grows
    BY <1>9, <1>0 DEF DashboardAlone, OperatorAnswers, BootstrapExpires, hostVars,
                      TypeOK, DashTypeOK
  <1>10. ASSUME AgentRestarts PROVE Grows
    BY <1>10, <1>1 DEF AgentRestarts, dashVars
  <1>11. CASE UNCHANGED vars
    BY <1>11, <1>1 DEF vars, hostVars, dashVars
  <1> QED
    BY <1>2, <1>3, <1>4, <1>5, <1>7, <1>8, <1>9, <1>10, <1>11 DEF Next, Smooth, Work

(* A sound state stays sound while nothing is taken back.                  *)
LEMMA SoundKept ==
  ASSUME Grows, NEW m \in State, Sound(m)
  PROVE  Sound(m)'
  BY DEF Grows, Sound, State

(* A run that did not move, and whose memory and reply are the same, has   *)
(* still achieved what it had.                                             *)
LEMMA OtherKept ==
  ASSUME IInv, Grows, NEW q \in Proc,
         pc'[q] = pc[q], mem'[q] = mem[q], answer'[q] = answer[q]
  PROVE  Sound(mem[q])' /\ Achieved(q)' /\ Answered(q)'
  <1>1. Sound(mem[q])' /\ mem[q] \in State
    BY SoundKept DEF IInv, TypeOK, Grows, Sound, State
  <1>2. Achieved(q)'
    BY DEF IInv, Achieved, Grows, IsNext, HasCompleted, Before
  <1>3. Answered(q)'
    <2>1. Answered(q) /\ answer[q] \in Enrollment \union {None}
          /\ mem[q].enrollment \in Enrollment \union {None}
      BY DEF IInv, TypeOK, State
    <2>2. pc[q] = "finish" => mem[q].enrollment # None
      BY DEF IInv, Achieved, Sound, Provisioning, Provisioned, Releasing,
             Configuring, Reporting
    <2> QED BY <2>1, <2>2 DEF Answered, Grows, Vouched
  <1> QED BY <1>1, <1>2, <1>3

(* While the Dashboard's record of completions and progress is unchanged   *)
(* and no new report is under way, what it shows stays true.               *)
LEMMA DashboardKept ==
  ASSUME IInv, Grows, late' \subseteq late, UNCHANGED <<dash, progress>>
  PROVE  ReportsReady' /\ CompletedNodeProvisioned' /\ ProgressTruthful'
  <1>1. HostReady => HostReady'
    BY DEF HostReady, Grows
  <1>2. ReportsReady'
    BY <1>1 DEF IInv, ReportsReady
  <1>3. CompletedNodeProvisioned'
    BY <1>1 DEF IInv, CompletedNodeProvisioned, HostReady
  <1>4. ProgressTruthful'
    BY DEF IInv, ProgressTruthful, Grows, Before
  <1> QED BY <1>2, <1>3, <1>4

-----------------------------------------------------------------------------
(* The invariant is inductive                                              *)

(* Nothing is recorded, asked for or reported at first.                    *)
LEMMA InitIInv == Init => IInv
  <1> SUFFICES ASSUME Init PROVE IInv
    OBVIOUS
  <1>1. TypeOK
    BY InitTypeOK
  <1>2. Sound(NewState)
    BY DEF Sound, NewState
  <1>4. Sound(disk)
    BY <1>2 DEF Init
  <1>5. ASSUME NEW p \in Proc PROVE Sound(mem[p]) /\ Achieved(p) /\ Answered(p)
    <2>1. pc[p] = "idle" /\ mem[p] = NewState /\ answer[p] = None
      BY DEF Init
    <2>2. Achieved(p)
      BY <2>1 DEF Achieved, Provisioning, Provisioned, Releasing, Configuring, Reporting
    <2> QED BY <1>2, <2>1, <2>2 DEF Answered
  <1>6. ReportsReady /\ CompletedNodeProvisioned /\ ProgressTruthful
    BY DEF Init, DashInit, ReportsReady, CompletedNodeProvisioned, ProgressTruthful
  <1> QED BY <1>1, <1>4, <1>5, <1>6 DEF IInv

(* A step of one run p that leaves the Dashboard's record alone keeps the  *)
(* invariant when p and the state file keep their share of it.             *)
LEMMA RunStep ==
  ASSUME IInv, Grows, TypeOK', NEW p \in Proc,
         \A q \in Proc \ {p} : /\ pc'[q] = pc[q]
                              /\ mem'[q] = mem[q]
                              /\ answer'[q] = answer[q],
         Sound(disk)', Sound(mem[p])', Achieved(p)', Answered(p)',
         late' \subseteq late, UNCHANGED <<dash, progress>>
  PROVE  IInv'
  <1>1. \A q \in Proc : (Sound(mem[q]) /\ Achieved(q) /\ Answered(q))'
    <2>1. ASSUME NEW q \in Proc, q # p
          PROVE  (Sound(mem[q]) /\ Achieved(q) /\ Answered(q))'
      BY <2>1, OtherKept
    <2> QED BY <2>1
  <1>2. ReportsReady' /\ CompletedNodeProvisioned' /\ ProgressTruthful'
    BY DashboardKept
  <1> QED BY <1>1, <1>2 DEF IInv

(* What is sound before a step is sound after it, in the file and in       *)
(* memory.                                                                 *)
LEMMA StaysSound ==
  ASSUME IInv, Grows
  PROVE  /\ disk' = disk => Sound(disk)'
         /\ \A p \in Proc : mem'[p] = mem[p] => Sound(mem[p])'
         /\ \A p \in Proc : mem'[p] = NewState => Sound(mem[p])'
  <1>1. disk' = disk => Sound(disk)'
    BY SoundKept DEF IInv, TypeOK, Sound, Grows, State
  <1>2. ASSUME NEW p \in Proc, mem'[p] = mem[p] PROVE Sound(mem[p])'
    BY <1>2, SoundKept DEF IInv, TypeOK, Sound, Grows, State
  <1>3. ASSUME NEW p \in Proc, mem'[p] = NewState PROVE Sound(mem[p])'
    BY <1>3 DEF Sound, NewState
  <1> QED BY <1>1, <1>2, <1>3

(* Completing a step that is no stage, or a stage that is done, keeps a    *)
(* state sound.                                                            *)
LEMMA CompleteSound ==
  ASSUME NEW m \in State, NEW s \in Step, Sound(m), s \in Stages => s \in done
  PROVE  Sound(Complete(m, s))
  BY CompleteType DEF Sound, Vouched

(* The stages are totally ordered, so at most one is next.                 *)
LEMMA NextStageUnique ==
  ASSUME NEW m \in State, NEW s \in Stages, NEW t \in Stages, IsNext(m, s), IsNext(m, t)
  PROVE  s = t
  <1>1. s = t \/ s \in Before[t] \/ t \in Before[s]
    BY DEF Before, Stages
  <1> QED BY <1>1 DEF IsNext, HasCompleted

(* Where a run goes after the stages it has completed.                     *)
LEMMA AfterStageWhere ==
  ASSUME NEW m \in State
  PROVE  \/ AfterStage(m) = "release" /\ Stages \subseteq m.completed
         \/ AfterStage(m) = "stage"
  BY DEF AfterStage, HasCompleted

(* The location sets, spelled out once.                                    *)
LEMMA Locations ==
  /\ \A l : l \in Provisioned <=> l \in {"release", "digest", "configure", "firewall",
                                       "enable", "validate", "finish"}
  /\ \A l : l \in Provisioning <=> l \in {"stage", "stage_run", "container", "stage_save"}
                                      \/ l \in Provisioned
  /\ \A l : l \in Releasing <=> l \in {"digest", "configure", "firewall",
                                     "enable", "validate", "finish"}
  /\ \A l : l \in Configuring <=> l \in {"configure", "firewall", "enable",
                                       "validate", "finish"}
  BY DEF Provisioned, Provisioning, Releasing, Configuring, Reporting

(* A run that has not saved an enrollment yet: loading and asking.         *)
LEMMA EnrollingStep ==
  ASSUME IInv, Grows, TypeOK', NEW p \in Proc,
         \/ Launch(p) \/ Preflight(p) \/ SendAutomatic(p) \/ SendCreate(p)
         \/ ReceiveAutomatic(p) \/ ReceiveDevice(p) \/ PollApproved(p) \/ Record(p)
  PROVE  IInv'
  <1> USE DEF Move, Goto, At
  <1>t. TypeOK
    BY DEF IInv
  <1>1. CASE Launch(p)
    <2>1. PICK n \in Size : mem' = [mem EXCEPT ![p] = [disk EXCEPT !.size = n]]
      BY <1>1 DEF Launch, Keep
    <2>2. Sound([disk EXCEPT !.size = n])
      BY DEF IInv, TypeOK, State, Sound, Vouched
    <2>3. [disk EXCEPT !.size = n] \in State
      BY <1>t DEF TypeOK, State
    <2>4. mem'[p] = [disk EXCEPT !.size = n]
      BY <1>t, <2>1 DEF TypeOK
    <2>5. Sound(mem[p])'
      BY <2>2, <2>3, <2>4, SoundKept DEF Sound
    <2>6. pc'[p] = "preflight"
      BY <1>t, <1>1 DEF Launch, TypeOK
    <2>7. Achieved(p)'
      BY <2>6, Locations DEF Achieved, Reporting
    <2>8. answer'[p] = None
      BY <1>1 DEF Launch, IInv, Answered
    <2>9. Answered(p)'
      BY <2>6, <2>8 DEF Answered
    <2>10. /\ \A q \in Proc \ {p} : pc'[q] = pc[q] /\ mem'[q] = mem[q] /\ answer'[q] = answer[q]
          /\ disk' = disk /\ late' \subseteq late /\ UNCHANGED <<dash, progress>>
      BY <1>t, <1>1, <2>1 DEF Launch, TypeOK, dashVars
    <2> QED BY <2>5, <2>7, <2>9, <2>10, RunStep, StaysSound
  <1>2. CASE Preflight(p)
    <2> DEFINE m == Complete(mem[p], "preflight")
    <2>1. m \in State /\ Sound(m)
      BY <1>t, CompleteType, CompleteSound DEF TypeOK, IInv, Step, Stages
    <2>2. mem' = [mem EXCEPT ![p] = m] /\ disk' = m
      BY <1>2 DEF Preflight, Save, Keep
    <2>3. pc' = [pc EXCEPT ![p] = IF Resumable(m) THEN AfterStage(m) ELSE "enroll"]
      BY <1>2 DEF Preflight
    <2> HIDE DEF m
    <2>4. mem'[p] = m
      BY <1>t, <2>2 DEF TypeOK
    <2>5. Sound(mem[p])' /\ Sound(disk)'
      BY <2>1, <2>2, <2>4, SoundKept DEF Sound
    <2>6. \/ pc'[p] = "enroll"
          \/ pc'[p] = "stage" /\ m.bootstrap # None
          \/ pc'[p] = "release" /\ m.bootstrap # None /\ Stages \subseteq m.completed
      BY <1>t, <2>1, <2>3, AfterStageWhere DEF TypeOK, Resumable
    <2>7. Achieved(p)'
      BY <2>4, <2>6, Locations DEF Achieved, Reporting
    <2>a. answer'[p] = None
      BY <1>2 DEF Preflight, IInv, Answered
    <2>b. Answered(p)'
      BY <2>6, <2>a DEF Answered
    <2>8. /\ \A q \in Proc \ {p} : pc'[q] = pc[q] /\ mem'[q] = mem[q] /\ answer'[q] = answer[q]
          /\ late' \subseteq late /\ UNCHANGED <<dash, progress>>
      BY <1>t, <1>2, <2>2, <2>3 DEF Preflight, TypeOK, dashVars
    <2> QED BY <2>5, <2>7, <2>b, <2>8, RunStep
  <1>3. CASE SendAutomatic(p) \/ SendCreate(p) \/ ReceiveAutomatic(p) \/ ReceiveDevice(p)
             \/ PollApproved(p)
    <2> USE <1>3 DEF SendAutomatic, SendCreate, ReceiveAutomatic, ReceiveDevice, PollApproved
    <2>1. /\ mem' = mem /\ answer' = answer /\ disk' = disk /\ late' = late
          /\ UNCHANGED <<dash, progress>>
      BY DEF dashVars
    <2>2. \A q \in Proc \ {p} : pc'[q] = pc[q]
      BY <1>t DEF TypeOK
    <2>3. pc'[p] \in {"automatic", "device", "poll", "record"}
      BY <1>t DEF TypeOK
    <2>4. Achieved(p)'
      BY <2>3, Locations DEF Achieved, Reporting
    <2>5. Answered(p)'
      <3>1. Answered(p) /\ answer[p] \in Enrollment \union {None} /\ pc \in [Proc -> Location]
        BY <1>t DEF IInv, TypeOK
      <3>2. CASE SendAutomatic(p) \/ SendCreate(p)
        BY <2>1, <3>1, <3>2 DEF Answered
      <3>3. CASE ReceiveAutomatic(p)
        BY <2>1, <3>1, <3>3 DEF Answered, Vouched
      <3>4. CASE ReceiveDevice(p)
        BY <2>1, <3>1, <3>4 DEF Answered
      <3>5. CASE PollApproved(p)
        BY <2>1, <3>1, <3>5 DEF Answered, Vouched
      <3> QED BY <3>2, <3>3, <3>4, <3>5
    <2> QED BY <2>1, <2>2, <2>4, <2>5, RunStep, StaysSound
  <1>4. CASE Record(p)
    <2> DEFINE e == answer[p]
               c == [mem[p] EXCEPT !.enrollment = e, !.node = e,
                                   !.digest = e, !.bootstrap = e]
               m == Complete(c, "waiting_for_claim")
    <2>1. e \in Enrollment /\ Vouched(e)
      BY <1>t, <1>4 DEF Record, IInv, Answered, TypeOK
    <2>2. c \in State /\ Sound(c) /\ c.bootstrap = e
      BY <1>t, <2>1 DEF TypeOK, State, IInv, Sound
    <2>a. "waiting_for_claim" \in Step \ Stages
      BY DEF Step, Stages
    <2> HIDE DEF c, e
    <2>3. m \in State /\ Sound(m) /\ m.bootstrap = e
      BY <2>2, <2>a, CompleteType, CompleteSound
    <2>4. mem' = [mem EXCEPT ![p] = m] /\ disk' = m
      BY <1>4 DEF Record, Save, Keep, c, e
    <2>5. pc' = [pc EXCEPT ![p] = AfterStage(m)] /\ answer' = [answer EXCEPT ![p] = None]
      BY <1>4 DEF Record, c, e
    <2>6. m.bootstrap # None
      BY <2>1, <2>3, NoneAssumption
    <2> HIDE DEF m
    <2>7. mem'[p] = m
      BY <1>t, <2>4 DEF TypeOK
    <2>8. Sound(mem[p])' /\ Sound(disk)'
      BY <2>3, <2>4, <2>7, SoundKept DEF Sound
    <2>9. \/ pc'[p] = "stage"
          \/ pc'[p] = "release" /\ Stages \subseteq m.completed
      BY <1>t, <2>3, <2>5, AfterStageWhere DEF TypeOK
    <2>10. Achieved(p)'
      BY <2>6, <2>7, <2>9, Locations DEF Achieved, Reporting
    <2>b. answer'[p] = None
      BY <1>t, <2>5 DEF TypeOK
    <2>d. Answered(p)'
      BY <2>9, <2>b DEF Answered
    <2>11. /\ \A q \in Proc \ {p} : pc'[q] = pc[q] /\ mem'[q] = mem[q] /\ answer'[q] = answer[q]
           /\ late' \subseteq late /\ UNCHANGED <<dash, progress>>
      BY <1>t, <1>4, <2>4, <2>5 DEF Record, TypeOK, dashVars
    <2> QED BY <2>8, <2>10, <2>d, <2>11, RunStep
  <1> QED BY <1>1, <1>2, <1>3, <1>4

(* A run that only moves, or only touches the host, keeps its memory and   *)
(* its share of the invariant with it.                                     *)
LEMMA HostStep ==
  ASSUME IInv, Grows, TypeOK', NEW p \in Proc,
         \/ RunStage(p) \/ WriteRoute(p) \/ StartTraefik(p)
         \/ InstallRelease(p) \/ WriteDigest(p) \/ WriteConfig(p)
  PROVE  IInv'
  <1> USE DEF Move, Goto, At
  <1>t. TypeOK
    BY DEF IInv
  <1>1. /\ mem' = mem /\ answer' = answer /\ disk' = disk /\ late' = late
        /\ UNCHANGED <<dash, progress>>
    BY DEF RunStage, WriteRoute, StartTraefik, InstallRelease, WriteDigest,
           WriteConfig, dashVars
  <1>2. \A q \in Proc \ {p} : pc'[q] = pc[q]
    BY <1>t DEF TypeOK, RunStage, WriteRoute, StartTraefik, InstallRelease,
                WriteDigest, WriteConfig
  <1>3. Answered(p)'
    <2>1. pc[p] \notin {"automatic", "device", "poll", "record", "finish"}
      BY DEF RunStage, WriteRoute, StartTraefik, InstallRelease, WriteDigest, WriteConfig
    <2>2. pc'[p] \notin {"poll", "record"}
      BY <1>t DEF TypeOK, RunStage, WriteRoute, StartTraefik, InstallRelease,
                  WriteDigest, WriteConfig
    <2>3. answer'[p] = None
      BY <1>1, <2>1 DEF IInv, Answered
    <2> QED BY <2>2, <2>3 DEF Answered
  <1>4. Achieved(p)'
    <2>0. Achieved(p) /\ mem[p] \in State /\ Sound(mem[p])
      BY DEF IInv, TypeOK
    <2> USE <1>1, <1>t DEF TypeOK
    <2>1. CASE RunStage(p)
      <3>1. PICK s \in Stages : IsNext(mem[p], s) /\ done' = done \union {s}
        BY <2>1 DEF RunStage
      <3>2. \A u \in Stages : IsNext(mem[p], u) => u \in done'
        BY <3>1, <2>0, NextStageUnique
      <3>3. pc[p] = "stage_run" /\ pc'[p] = "stage_save"
        BY <2>1 DEF RunStage
      <3>4. \A u \in Stages : IsNext(mem[p], u)' <=> IsNext(mem[p], u)
        BY DEF IsNext, HasCompleted, Before
      <3> QED BY <2>0, <3>2, <3>3, <3>4, Locations DEF Achieved, Reporting
    <2>2. CASE WriteRoute(p)
      <3>1. pc[p] = "stage_run" /\ pc'[p] = "container" /\ IsNext(mem[p], "traefik")
        BY <2>2 DEF WriteRoute
      <3>2. IsNext(mem[p], "traefik")'
        BY <3>1 DEF IsNext, HasCompleted, Before
      <3> QED BY <2>0, <3>1, <3>2, Locations DEF Achieved, Reporting
    <2>3. CASE StartTraefik(p)
      <3>1. /\ pc[p] = "container" /\ pc'[p] = "stage_save"
            /\ IsNext(mem[p], "traefik") /\ "traefik" \in done' /\ "traefik" \in Stages
        BY <2>0, <2>3 DEF StartTraefik, Achieved, Stages
      <3>2. \A u \in Stages : IsNext(mem[p], u) => u \in done'
        BY <2>0, <3>1, NextStageUnique
      <3>3. \A u \in Stages : IsNext(mem[p], u)' <=> IsNext(mem[p], u)
        BY DEF IsNext, HasCompleted, Before
      <3> QED BY <2>0, <3>1, <3>2, <3>3, Locations DEF Achieved, Reporting
    <2>4. CASE InstallRelease(p)
      <3>1. pc[p] = "release" /\ pc'[p] = "digest"
        BY <2>4 DEF InstallRelease
      <3>2. mem[p].node \in Enrollment
        BY <2>0, <3>1, Locations DEF Achieved, Sound, State
      <3>3. binary' # None
        BY <2>4, <3>2, ReleaseAssumption, NoneAssumption DEF InstallRelease
      <3> QED BY <2>0, <3>1, <3>3, Locations DEF Achieved, Reporting
    <2>5. CASE WriteDigest(p)
      <3>1. pc[p] = "digest" /\ pc'[p] = "configure" /\ config'.digest # None /\ binary' = binary
        BY <2>5 DEF WriteDigest, AgentConfig
      <3> QED BY <2>0, <3>1, Locations DEF Achieved, Reporting
    <2>6. CASE WriteConfig(p)
      <3>1. /\ pc[p] = "configure" /\ pc'[p] = "firewall" /\ binary' = binary
            /\ config'.node = mem[p].node /\ config'.digest = config.digest
        BY <2>6 DEF WriteConfig, AgentConfig
      <3>2. mem[p].node # None
        BY <2>0, <3>1, Locations DEF Achieved, Sound
      <3> QED BY <2>0, <3>1, <3>2, Locations DEF Achieved, Reporting
    <2> QED BY <2>1, <2>2, <2>3, <2>4, <2>5, <2>6
  <1> QED BY <1>1, <1>2, <1>3, <1>4, RunStep, StaysSound

(* A run that completes a step in memory, and in the file for a stage or   *)
(* with the first completion key.                                          *)
LEMMA CompletingStep ==
  ASSUME IInv, Grows, TypeOK', NEW p \in Proc,
         SaveStage(p) \/ ApplyFirewall(p) \/ EnableAgent(p) \/ Validate(p)
  PROVE  IInv'
  <1> USE DEF Move, Goto, At
  <1>t. TypeOK
    BY DEF IInv
  <1>0. Achieved(p) /\ mem[p] \in State /\ Sound(mem[p]) /\ pc \in [Proc -> Location]
    BY DEF IInv, TypeOK
  <1>1. /\ answer' = answer /\ late' = late /\ UNCHANGED <<dash, progress>>
        /\ \A q \in Proc \ {p} : pc'[q] = pc[q] /\ mem'[q] = mem[q]
    BY <1>t DEF TypeOK, SaveStage, ApplyFirewall, EnableAgent, Validate, Save, Keep, dashVars
  <1>2. /\ pc[p] \notin {"automatic", "device", "poll", "record", "finish"}
        /\ pc'[p] \in {"stage", "release", "enable", "validate", "finish"}
    BY <1>0, AfterStageWhere DEF SaveStage, ApplyFirewall, EnableAgent, Validate, AfterStage
  <1>3. Answered(p)'
    <2>1. answer'[p] = None
      BY <1>1, <1>2 DEF IInv, Answered
    <2> QED BY <1>2, <2>1 DEF Answered
  <1>4. CASE SaveStage(p)
    <2>1. PICK s \in Stages : /\ IsNext(mem[p], s)
                              /\ pc[p] = "stage_save"
                              /\ pc' = [pc EXCEPT ![p] = AfterStage(Complete(mem[p], s))]
                              /\ mem' = [mem EXCEPT ![p] = Complete(mem[p], s)]
                              /\ disk' = Complete(mem[p], s)
      BY <1>4 DEF SaveStage, Save, Keep
    <2> DEFINE m == Complete(mem[p], s)
    <2>2. s \in Step /\ s \in done
      BY <1>0, <2>1 DEF Step, Achieved
    <2>3. m \in State /\ Sound(m) /\ m.bootstrap = mem[p].bootstrap
      BY <1>0, <2>2, CompleteType, CompleteSound
    <2>4. mem[p].bootstrap # None
      BY <1>0, <2>1, Locations DEF Achieved
    <2> HIDE DEF m
    <2>5. mem'[p] = m /\ disk' = m /\ pc'[p] = AfterStage(m)
      BY <1>t, <2>1 DEF TypeOK, m
    <2>6. Sound(mem[p])' /\ Sound(disk)'
      BY <2>3, <2>5, SoundKept DEF Sound
    <2>7. Achieved(p)'
      BY <2>3, <2>4, <2>5, AfterStageWhere, Locations DEF Achieved, Reporting
    <2> QED BY <1>1, <1>3, <2>6, <2>7, RunStep
  <1>5. CASE ApplyFirewall(p) \/ EnableAgent(p)
    <2>1. PICK s \in {"firewall", "agent"} :
             mem' = [mem EXCEPT ![p] = Complete(mem[p], s)]
      BY <1>5 DEF ApplyFirewall, EnableAgent, Keep
    <2>2. /\ pc[p] \in {"firewall", "enable"} /\ pc'[p] \in {"enable", "validate"}
          /\ disk' = disk /\ binary' = binary /\ config' = config
      BY <1>0, <1>5 DEF ApplyFirewall, EnableAgent
    <2>3. s \in Step \ Stages
      BY DEF Step, Stages
    <2>4. mem'[p] = Complete(mem[p], s)
      BY <1>t, <2>1 DEF TypeOK
    <2>5. Complete(mem[p], s) \in State /\ Sound(Complete(mem[p], s))
      BY <1>0, <2>3, CompleteType, CompleteSound
    <2>6. Sound(mem[p])'
      BY <2>4, <2>5, SoundKept DEF Sound
    <2>7. mem'[p].bootstrap = mem[p].bootstrap /\ mem[p].completed \subseteq mem'[p].completed
      BY <1>0, <2>3, <2>4, CompleteType
    <2>8. Achieved(p)'
      BY <1>0, <2>2, <2>7, Locations DEF Achieved, Reporting
    <2> QED BY <1>1, <1>3, <2>2, <2>6, <2>8, RunStep, StaysSound
  <1>6. CASE Validate(p)
    <2> DEFINE m == Complete(mem[p], "validation")
    <2>1. "validation" \in Step \ Stages
      BY DEF Step, Stages
    <2>2. /\ m \in State /\ Sound(m) /\ m.bootstrap = mem[p].bootstrap
          /\ mem[p].completed \subseteq m.completed
      BY <1>0, <2>1, CompleteType, CompleteSound
    <2>3. ASSUME NEW k \in Key
          PROVE  /\ [m EXCEPT !.key = k] \in State
                 /\ Sound([m EXCEPT !.key = k])
                 /\ [m EXCEPT !.key = k].bootstrap = m.bootstrap
                 /\ [m EXCEPT !.key = k].completed = m.completed
      <3> HIDE DEF m
      <3> DEFINE n == [m EXCEPT !.key = k]
      <3>1. n \in State
        BY <2>2 DEF State
      <3>2. /\ n.bootstrap = m.bootstrap /\ n.enrollment = m.enrollment /\ n.node = m.node
            /\ n.digest = m.digest /\ n.completed = m.completed
        BY <2>2 DEF State
      <3>3. Sound(n)
        BY <2>2, <3>2 DEF Sound
      <3> QED BY <3>1, <3>2, <3>3
    <2>4. PICK n \in State : /\ mem' = [mem EXCEPT ![p] = n]
                             /\ disk' = disk \/ disk' = n
                             /\ Sound(n)
                             /\ n.bootstrap = mem[p].bootstrap
                             /\ mem[p].completed \subseteq n.completed
      <3>1. CASE m.key = None
        <4>1. PICK k \in Key : /\ mem' = [mem EXCEPT ![p] = [m EXCEPT !.key = k]]
                               /\ disk' = [m EXCEPT !.key = k]
          BY <1>6, <3>1 DEF Validate, Save, Keep
        <4>2. mem[p].completed \subseteq [m EXCEPT !.key = k].completed
          BY <2>2, <2>3
        <4> QED BY <2>2, <2>3, <4>1, <4>2
      <3>2. CASE m.key # None
        <4>1. mem' = [mem EXCEPT ![p] = m] /\ disk' = disk
          BY <1>6, <3>2 DEF Validate, Keep
        <4> QED BY <2>2, <4>1
      <3> QED BY <3>1, <3>2
    <2>5. mem'[p] = n /\ (disk' = disk \/ disk' = n)
      BY <1>t, <2>4 DEF TypeOK
    <2>6. Sound(mem[p])' /\ Sound(disk)'
      BY <2>4, <2>5, SoundKept, StaysSound DEF Sound
    <2>7. /\ pc[p] = "validate" /\ pc'[p] = "finish"
          /\ binary' = binary /\ config' = config
      BY <1>0, <1>6 DEF Validate, hostVars
    <2>8. Achieved(p)'
      BY <1>0, <2>4, <2>5, <2>7, Locations DEF Achieved, Reporting
    <2> QED BY <1>1, <1>3, <2>6, <2>8, RunStep
  <1> QED BY <1>4, <1>5, <1>6

(* A run that reports progress, ends, or never looked at the state file.   *)
LEMMA EndingStep ==
  ASSUME IInv, Grows, TypeOK', NEW p \in Proc,
         \/ Finalize(p) \/ Refused(p) \/ InstallUpdate(p) \/ RestartAgent(p) \/ Uninstall(p)
  PROVE  IInv'
  <1> USE DEF Move, Goto, At
  <1>t. TypeOK
    BY DEF IInv
  <1>1. /\ late' = late /\ UNCHANGED <<dash, progress>>
        /\ \A q \in Proc \ {p} : pc'[q] = pc[q] /\ mem'[q] = mem[q] /\ answer'[q] = answer[q]
    BY <1>t DEF TypeOK, Finalize, Refused, InstallUpdate, RestartAgent, Uninstall, Keep,
                runVars, dashVars
  <1>2. pc'[p] \in {"idle", "restart"} /\ answer'[p] = None
    BY <1>t DEF TypeOK, Finalize, Refused, InstallUpdate, RestartAgent, Uninstall,
                runVars, IInv, Answered
  <1>3. Achieved(p)' /\ Answered(p)'
    BY <1>2, Locations DEF Achieved, Answered, Reporting
  <1>4. mem'[p] = mem[p] \/ mem'[p] = NewState
    BY <1>t DEF TypeOK, Finalize, Refused, InstallUpdate, RestartAgent, Uninstall, Keep, runVars
  <1>5. Sound(mem[p])'
    BY <1>4, StaysSound
  <1>6. Sound(disk)'
    <2>1. CASE Finalize(p)
      <3> DEFINE c == [mem[p] EXCEPT !.bootstrap = None, !.digest = None, !.key = None]
      <3>1. mem[p] \in State /\ Sound(mem[p]) /\ pc[p] = "finish" /\ answer[p] # None
        BY <1>t, <2>1 DEF TypeOK, IInv, Finalize
      <3>2. dash[mem[p].enrollment] = "completed"
        BY <3>1 DEF IInv, Answered
      <3>3. /\ c \in State /\ c.completed = mem[p].completed /\ c.bootstrap = None
            /\ c.enrollment = mem[p].enrollment
        BY <3>1 DEF State
      <3>4. Sound(c)
        BY <3>1, <3>2, <3>3 DEF Sound
      <3>5. "complete" \in Step \ Stages
        BY DEF Step, Stages
      <3>6. disk' = Complete(c, "complete")
        BY <2>1 DEF Finalize
      <3> HIDE DEF c
      <3>7. Complete(c, "complete") \in State /\ Sound(Complete(c, "complete"))
        BY <3>3, <3>4, <3>5, CompleteType, CompleteSound
      <3> QED BY <3>6, <3>7, SoundKept DEF Sound
    <2>2. CASE ~Finalize(p)
      <3>1. disk' = disk
        BY <2>2 DEF Refused, InstallUpdate, RestartAgent, Uninstall
      <3> QED BY <3>1, StaysSound
    <2> QED BY <2>1, <2>2
  <1> QED BY <1>1, <1>3, <1>5, <1>6, RunStep

(* A run that stops may leave a completion report under way.               *)
LEMMA StopStep ==
  ASSUME IInv, Grows, TypeOK', NEW p \in Proc, Stop(p)
  PROVE  IInv'
  <1>t. TypeOK
    BY DEF IInv
  <1>1. /\ UNCHANGED <<dash, progress>> /\ disk' = disk
        /\ \A q \in Proc \ {p} : pc'[q] = pc[q] /\ mem'[q] = mem[q] /\ answer'[q] = answer[q]
        /\ pc'[p] = "idle" /\ mem'[p] = NewState /\ answer'[p] = None
    BY <1>t DEF TypeOK, Stop, Goto, Keep, dashVars
  <1>2. \A q \in Proc : (Sound(mem[q]) /\ Achieved(q) /\ Answered(q))'
    <2>1. Achieved(p)' /\ Answered(p)'
      BY <1>1, Locations DEF Achieved, Answered, Reporting
    <2>2. ASSUME NEW q \in Proc, q # p
          PROVE  (Sound(mem[q]) /\ Achieved(q) /\ Answered(q))'
      BY <1>1, <2>2, OtherKept
    <2> QED BY <1>1, <2>1, <2>2, StaysSound
  <1>3. HostReady => HostReady'
    BY DEF HostReady, Grows
  <1>4. CASE late' = late
    BY <1>1, <1>2, <1>4, StaysSound, DashboardKept DEF IInv
  <1>5. CASE late' = late \union {Outstanding(p)} /\ Waiting(p)
    <2>1. Outstanding(p).type = "finish" => HostReady
      <3> SUFFICES ASSUME Outstanding(p).type = "finish" PROVE HostReady
        OBVIOUS
      <3>1. pc[p] = "finish"
        BY <1>5 DEF Outstanding, Ask, Waiting
      <3> QED BY <3>1, Locations DEF IInv, Achieved, Sound, HostReady, Reporting
    <2>2. ReportsReady'
      BY <1>3, <1>5, <2>1 DEF IInv, ReportsReady
    <2>3. CompletedNodeProvisioned'
      BY <1>1, <1>3 DEF IInv, CompletedNodeProvisioned, HostReady
    <2>4. ProgressTruthful'
      BY <1>1 DEF IInv, ProgressTruthful, Grows, Before
    <2> QED BY <1>1, <1>2, <2>2, <2>3, <2>4, StaysSound DEF IInv
  <1> QED BY <1>4, <1>5 DEF Stop

(* Progress is shown of a stage whose predecessors are done.               *)
LEMMA ProgressStep ==
  ASSUME IInv, Grows, TypeOK', NEW p \in Proc, ReportProgress(p)
  PROVE  IInv'
  <1>t. TypeOK
    BY DEF IInv
  <1>1. /\ dash' = dash /\ disk' = disk /\ mem' = mem /\ answer' = answer /\ late' = late
        /\ \A q \in Proc \ {p} : pc'[q] = pc[q]
        /\ pc[p] = "stage" /\ pc'[p] = "stage_run" /\ done' = done
    BY <1>t DEF TypeOK, ReportProgress, ShowProgress, Move, Goto, At, hostVars, dashVars
  <1>2. \A q \in Proc : (Sound(mem[q]) /\ Achieved(q) /\ Answered(q))'
    <2>1. Achieved(p)'
      BY <1>1, Locations DEF IInv, Achieved, Reporting
    <2>2. Answered(p)'
      BY <1>1 DEF IInv, Answered
    <2>3. ASSUME NEW q \in Proc, q # p
          PROVE  (Sound(mem[q]) /\ Achieved(q) /\ Answered(q))'
      BY <1>1, <2>3, OtherKept
    <2> QED BY <1>1, <2>1, <2>2, <2>3, StaysSound
  <1>3. HostReady => HostReady'
    BY DEF HostReady, Grows
  <1>4. ReportsReady' /\ CompletedNodeProvisioned'
    BY <1>1, <1>3 DEF IInv, ReportsReady, CompletedNodeProvisioned, HostReady
  <1>5. ProgressTruthful'
    <2>1. CASE progress' = progress
      BY <1>1, <2>1 DEF IInv, ProgressTruthful, Before
    <2>2. CASE \E s \in Stages : /\ IsNext(mem[p], s)
                                 /\ ShowProgress(mem[p].enrollment, s)
      <3>1. PICK s \in Stages : /\ IsNext(mem[p], s)
                                /\ progress' = [progress EXCEPT ![mem[p].enrollment] = s]
        BY <2>2 DEF ShowProgress
      <3>2. Before[s] \subseteq mem[p].completed \intersect Stages
        BY <3>1 DEF IsNext, HasCompleted, Before, Stages
      <3>3. Before[s] \subseteq done
        BY <3>2 DEF IInv, Sound
      <3>4. \A e \in Enrollment : progress'[e] = progress[e] \/ progress'[e] = s
        BY <1>t, <3>1 DEF TypeOK, DashTypeOK
      <3> QED BY <1>1, <3>3, <3>4 DEF IInv, ProgressTruthful, Before
    <2> QED BY <2>1, <2>2 DEF ReportProgress, dashVars
  <1> QED BY <1>1, <1>2, <1>4, <1>5, StaysSound DEF IInv

(* A completion report is served only of a host that is ready.             *)
LEMMA ServingStep ==
  ASSUME IInv, Grows, TypeOK',
         ServeLate \/ (\E p \in Proc : ServeLive(p))
  PROVE  IInv'
  <1>t. TypeOK
    BY DEF IInv
  <1>1. /\ pc' = pc /\ mem' = mem /\ disk' = disk /\ late' \subseteq late
        /\ UNCHANGED <<done, binary, config>>
    BY DEF ServeLive, ServeLate, hostVars
  <1>2. ASSUME NEW r \in Request, NEW e \in Enrollment, Serve(r, e),
               r.type = "finish" => HostReady
        PROVE  ReportsReady' /\ CompletedNodeProvisioned' /\ ProgressTruthful'
    <2>1. HostReady' <=> HostReady
      BY <1>1 DEF HostReady
    <2>2. progress' = progress
      BY <1>2 DEF Serve, ServeAutomatic, ServeDevice, ServeComplete
    <2>3. (\E d \in Enrollment : dash'[d] = "completed") =>
             \/ r.type = "finish"
             \/ \E d \in Enrollment : dash[d] = "completed"
      BY <1>t, <1>2 DEF Serve, ServeAutomatic, ServeDevice, ServeComplete, TypeOK, DashTypeOK
    <2>4. CompletedNodeProvisioned'
      BY <1>1, <1>2, <2>1, <2>3 DEF IInv, CompletedNodeProvisioned, HostReady
    <2>5. ReportsReady'
      BY <1>1, <2>1 DEF IInv, ReportsReady
    <2>6. ProgressTruthful'
      BY <1>1, <2>2 DEF IInv, ProgressTruthful, Before
    <2> QED BY <2>4, <2>5, <2>6
  <1>3. CASE ServeLate
    <2>1. PICK r \in late, e \in Enrollment : Serve(r, e)
      BY <1>3 DEF ServeLate
    <2>2. r \in Request /\ (r.type = "finish" => HostReady)
      BY <1>t DEF TypeOK, IInv, ReportsReady
    <2>3. \A q \in Proc : (Sound(mem[q]) /\ Achieved(q) /\ Answered(q))'
      BY <1>1, <1>3, OtherKept DEF ServeLate
    <2> QED BY <1>1, <1>2, <2>1, <2>2, <2>3, StaysSound DEF IInv
  <1>4. ASSUME NEW p \in Proc, ServeLive(p) PROVE IInv'
    <2>1. PICK e \in Enrollment : /\ Waiting(p) /\ Serve(Outstanding(p), e)
                                  /\ answer' = [answer EXCEPT ![p] = e]
      BY <1>4 DEF ServeLive
    <2>2. Outstanding(p) \in Request
      BY <1>t, <2>1, OutstandingType
    <2>3. Outstanding(p).type = "finish" => pc[p] = "finish"
      BY <2>1 DEF Outstanding, Ask, Waiting
    <2>4. Outstanding(p).type = "finish" => HostReady
      BY <2>3, Locations DEF IInv, Achieved, Sound, HostReady, Reporting
    <2>5. Sound(mem[p])' /\ Achieved(p)'
      BY <1>1, StaysSound DEF IInv, Achieved, IsNext, HasCompleted, Before
    <2>6. answer'[p] = e /\ e # None
      BY <1>t, <2>1, NoneAssumption DEF TypeOK
    <2>7. CASE pc[p] = "automatic"
      <3>1. ServeAutomatic(Outstanding(p), e)
        BY <2>1, <2>7 DEF Serve, ServeDevice, ServeComplete, Outstanding, Ask
      <3>2. dash'[e] = "approved"
        BY <1>t, <3>1 DEF ServeAutomatic, TypeOK, DashTypeOK
      <3> QED BY <1>1, <1>2, <2>1, <2>2, <2>4, <2>5, <2>6, <2>7, <3>2, OtherKept, StaysSound
              DEF IInv, Answered, Vouched
    <2>8. CASE pc[p] = "device"
      <3>1. Answered(p)'
        BY <1>1, <2>6, <2>8 DEF Answered
      <3>2. \A q \in Proc : (Sound(mem[q]) /\ Achieved(q) /\ Answered(q))'
        BY <1>1, <2>1, <2>5, <3>1, <1>t, OtherKept DEF TypeOK
      <3> QED BY <1>1, <1>2, <2>1, <2>2, <2>4, <3>2, StaysSound DEF IInv
    <2>9. CASE pc[p] = "finish"
      <3>1. ServeComplete(Outstanding(p), e) /\ Outstanding(p).enrollment = mem[p].enrollment
        BY <2>1, <2>9 DEF Serve, ServeAutomatic, ServeDevice, Outstanding
      <3>2. dash'[mem[p].enrollment] = "completed"
        BY <1>t, <3>1 DEF ServeComplete, TypeOK, DashTypeOK
      <3>3. Answered(p)'
        BY <1>1, <2>6, <2>9, <3>2 DEF Answered
      <3>4. \A q \in Proc : (Sound(mem[q]) /\ Achieved(q) /\ Answered(q))'
        BY <1>1, <2>1, <2>5, <3>3, <1>t, OtherKept DEF TypeOK
      <3> QED BY <1>1, <1>2, <2>1, <2>2, <2>4, <3>4, StaysSound DEF IInv
    <2> QED BY <2>1, <2>7, <2>8, <2>9 DEF Waiting
  <1> QED BY <1>3, <1>4

(* Every step of a run, of the Dashboard and of the host preserves the     *)
(* inductive invariant.                                                    *)
LEMMA StepIInv == IInv /\ [Next]_vars => IInv'
  <1> SUFFICES ASSUME IInv, [Next]_vars PROVE IInv'
    OBVIOUS
  <1>1. Grows /\ TypeOK'
    BY StepGrows, StepTypeOK
  <1>2. ASSUME NEW p \in Proc, Work(p) \/ Stop(p) \/ InstallUpdate(p) \/ Uninstall(p) PROVE IInv'
    BY <1>1, <1>2, EnrollingStep, HostStep, CompletingStep, ProgressStep, EndingStep, StopStep
       DEF Work
  <1>3. ASSUME ServeLate \/ (\E p \in Proc : ServeLive(p)) PROVE IInv'
    BY <1>1, <1>3, ServingStep
  <1>4. ASSUME UNCHANGED <<pc, mem, answer, disk, late, done, binary, config, progress>>,
               dash' = dash \/ (\E e \in Enrollment : OperatorAnswers(e))
        PROVE  IInv'
    <2>1. \A q \in Proc : (Sound(mem[q]) /\ Achieved(q) /\ Answered(q))'
      BY <1>1, <1>4, OtherKept
    <2>2. Sound(disk)' /\ (HostReady' <=> HostReady) /\ ProgressTruthful' /\ ReportsReady'
      BY <1>1, <1>4, StaysSound DEF HostReady, IInv, ProgressTruthful, ReportsReady, Before
    <2>3. (\E e \in Enrollment : dash'[e] = "completed") =>
             \E e \in Enrollment : dash[e] = "completed"
      BY <1>4 DEF OperatorAnswers, IInv, TypeOK, DashTypeOK
    <2>4. CompletedNodeProvisioned'
      BY <1>4, <2>3 DEF IInv, CompletedNodeProvisioned
    <2> QED BY <1>1, <2>1, <2>2, <2>4 DEF IInv
  <1>5. ASSUME NEW e \in Enrollment, DashboardAlone(e) PROVE IInv'
    BY <1>4, <1>5 DEF DashboardAlone, OperatorAnswers, BootstrapExpires, runVars, hostVars
  <1>6. ASSUME AgentRestarts PROVE IInv'
    BY <1>4, <1>6 DEF AgentRestarts, runVars, dashVars
  <1>7. CASE UNCHANGED vars
    BY <1>4, <1>7 DEF vars, runVars, hostVars, dashVars
  <1> QED BY <1>2, <1>3, <1>5, <1>6, <1>7 DEF Next, Smooth

-----------------------------------------------------------------------------
(* The theorems                                                            *)

(* The inductive invariant holds of every behaviour, for any set of        *)
(* overlapping runs.                                                       *)
THEOREM Invariance == Spec => []IInv
  <1>1. Init => IInv
    BY InitIInv
  <1>2. IInv /\ [Next]_vars => IInv'
    BY StepIInv
  <1> QED BY <1>1, <1>2, PTL DEF Spec

(* Every variable keeps its type.                                          *)
THEOREM TypeCorrect == Spec => []TypeOK
  <1>1. IInv => TypeOK
    BY DEF IInv
  <1> QED BY <1>1, Invariance, PTL

(* repair may skip what the state file records as completed, even when     *)
(* runs overlap.                                                           *)
THEOREM StagesRecordedWhenDone == Spec => []RecordedStagesDone
  <1>1. IInv => RecordedStagesDone
    BY DEF IInv, Sound, RecordedStagesDone
  <1> QED BY <1>1, Invariance, PTL

(* The identity repair resumes from is one approved enrollment.            *)
THEOREM IdentityWhole == Spec => []ResumableIdentity
  <1>1. IInv => ResumableIdentity
    BY DEF IInv, Sound, Vouched, ResumableIdentity
  <1> QED BY <1>1, Invariance, PTL

(* The Dashboard holds no unprovisioned node for completed.                *)
THEOREM CompletionTruthful == Spec => []CompletedNodeProvisioned
  <1>1. IInv => CompletedNodeProvisioned
    BY DEF IInv
  <1> QED BY <1>1, Invariance, PTL

(* The progress the Dashboard shows is never ahead of the host.            *)
THEOREM ProgressNotAhead == Spec => []ProgressTruthful
  <1>1. IInv => ProgressTruthful
    BY DEF IInv
  <1> QED BY <1>1, Invariance, PTL
-----------------------------------------------------------------------------
(* Who gives up a bootstrap token                                          *)

(* A run that enrolls has no bootstrap token yet: with one it would have   *)
(* resumed (installer.go:100).                                             *)
AtEnrollment == {"enroll", "automatic", "device", "poll", "record"}
Unbound == \A p \in Proc : pc[p] \in AtEnrollment => mem[p].bootstrap = None

(* Only Preflight leads to the enrollment, and only of a run without one   *)
(* to resume; no memory changes on the way through it.                     *)
LEMMA StepUnbound == IInv /\ Unbound /\ [Next]_vars => Unbound'
  <1> SUFFICES ASSUME IInv, Unbound, [Next]_vars PROVE Unbound'
    OBVIOUS
  <1> USE DEF Unbound, AtEnrollment, Move, Goto, At
  <1>t. TypeOK /\ pc \in [Proc -> Location] /\ mem \in [Proc -> State]
    BY DEF IInv, TypeOK
  <1>1. ASSUME UNCHANGED <<pc, mem>> PROVE Unbound'
    BY <1>1
  <1>2. ASSUME NEW p \in Proc, \A q \in Proc \ {p} : pc'[q] = pc[q] /\ mem'[q] = mem[q],
               pc'[p] \in AtEnrollment => mem'[p].bootstrap = None
        PROVE  Unbound'
    BY <1>2
  <1>3. ASSUME NEW p \in Proc,
               \/ SendAutomatic(p) \/ SendCreate(p) \/ ReceiveAutomatic(p)
               \/ ReceiveDevice(p) \/ PollApproved(p)
        PROVE  Unbound'
    <2>1. /\ mem' = mem /\ pc[p] \in AtEnrollment
          /\ \A q \in Proc \ {p} : pc'[q] = pc[q]
      BY <1>t, <1>3 DEF SendAutomatic, SendCreate, ReceiveAutomatic, ReceiveDevice,
                        PollApproved
    <2> QED BY <1>2, <2>1
  <1>4. ASSUME NEW p \in Proc, Preflight(p) PROVE Unbound'
    <2> DEFINE m == Complete(mem[p], "preflight")
    <2>1. /\ mem'[p] = m /\ pc'[p] = IF Resumable(m) THEN AfterStage(m) ELSE "enroll"
          /\ \A q \in Proc \ {p} : pc'[q] = pc[q] /\ mem'[q] = mem[q]
      BY <1>t, <1>4 DEF Preflight, Save, Keep
    <2>2. m.bootstrap = mem[p].bootstrap /\ m.enrollment = mem[p].enrollment
      BY <1>t, CompleteType DEF Step
    <2>3. mem[p].bootstrap # None => Resumable(m)
      BY <2>2 DEF IInv, Sound, Resumable
    <2> HIDE DEF m
    <2>4. CASE Resumable(m)
      BY <1>2, <2>1, <2>4 DEF AfterStage
    <2>5. CASE ~Resumable(m)
      BY <1>2, <2>1, <2>2, <2>3, <2>5
    <2> QED BY <2>4, <2>5
  <1>5. ASSUME NEW p \in Proc,
               \/ Launch(p) \/ ReportProgress(p) \/ RunStage(p) \/ WriteRoute(p)
               \/ StartTraefik(p) \/ InstallRelease(p) \/ WriteDigest(p) \/ WriteConfig(p)
        PROVE  Unbound'
    <2>1. /\ pc'[p] \notin AtEnrollment
          /\ \A q \in Proc \ {p} : pc'[q] = pc[q] /\ mem'[q] = mem[q]
      BY <1>t, <1>5 DEF Launch, ReportProgress, RunStage, WriteRoute, StartTraefik,
                        InstallRelease, WriteDigest, WriteConfig, Keep
    <2> QED BY <1>2, <2>1
  <1>6. ASSUME NEW p \in Proc,
               \/ ApplyFirewall(p) \/ EnableAgent(p) \/ Validate(p) \/ Finalize(p)
               \/ Refused(p) \/ Stop(p) \/ InstallUpdate(p) \/ RestartAgent(p)
        PROVE  Unbound'
    <2>1. /\ pc'[p] \notin AtEnrollment
          /\ \A q \in Proc \ {p} : pc'[q] = pc[q] /\ mem'[q] = mem[q]
      BY <1>t, <1>6 DEF ApplyFirewall, EnableAgent, Validate, Finalize, Refused, Stop,
                        InstallUpdate, RestartAgent, Save, Keep
    <2> QED BY <1>2, <2>1
  <1>7. ASSUME NEW p \in Proc, Record(p) \/ SaveStage(p) PROVE Unbound'
    <2>1. PICK m : /\ pc' = [pc EXCEPT ![p] = AfterStage(m)]
                   /\ mem' = [mem EXCEPT ![p] = m]
      BY <1>7 DEF Record, SaveStage, Save, Keep
    <2> QED BY <1>t, <1>2, <2>1 DEF AfterStage
  <1>8. ASSUME NEW p \in Proc, ServeLive(p) \/ Uninstall(p) PROVE Unbound'
    BY <1>1, <1>8 DEF ServeLive, Uninstall, runVars
  <1>9. CASE ServeLate \/ AgentRestarts \/ (\E e \in Enrollment : DashboardAlone(e))
    BY <1>1, <1>9 DEF ServeLate, AgentRestarts, DashboardAlone, runVars
  <1>10. CASE UNCHANGED vars
    BY <1>1, <1>10 DEF vars, runVars
  <1> QED BY <1>3, <1>4, <1>5, <1>6, <1>7, <1>8, <1>9, <1>10 DEF Next, Smooth, Work

(* What a run saves keeps the bootstrap token it holds, except that        *)
(* Finalize drops one that was acknowledged.                               *)
LEMMA SaverKeepsToken ==
  ASSUME IInv, Unbound, NEW p \in Proc, NEW e \in Enrollment,
         mem[p].bootstrap = e, dash[e] # "completed",
         Work(p), disk' # disk
  PROVE  disk'.bootstrap = e
  <1> USE DEF Move, Goto, At
  <1>t. TypeOK /\ mem[p] \in State
    BY DEF IInv, TypeOK
  <1>b. {"preflight", "validation"} \union Stages \subseteq Step
    BY DEF Step
  <1>1. CASE Preflight(p)
    BY <1>t, <1>b, <1>1, CompleteType DEF Preflight, Save
  <1>2. CASE Record(p)
    BY <1>2, NoneAssumption DEF Record, Unbound, AtEnrollment
  <1>3. CASE SaveStage(p)
    <2>1. PICK s \in Stages : disk' = Complete(mem[p], s)
      BY <1>3 DEF SaveStage, Save
    <2> QED BY <1>t, <1>b, <2>1, CompleteType
  <1>4. CASE Validate(p)
    <2> DEFINE m == Complete(mem[p], "validation")
    <2>1. m.bootstrap = e /\ m \in State
      BY <1>t, <1>b, CompleteType
    <2> HIDE DEF m
    <2>2. PICK k \in Key : disk' = [m EXCEPT !.key = k]
      BY <1>4 DEF Validate, Save, m
    <2> QED BY <2>1, <2>2 DEF State
  <1>5. CASE Finalize(p)
    <2>1. dash[mem[p].enrollment] = "completed"
      BY <1>5 DEF Finalize, IInv, Answered
    <2>2. mem[p].enrollment = e
      BY NoneAssumption DEF IInv, Sound
    <2> QED BY <2>1, <2>2
  <1>6. CASE \/ Launch(p) \/ SendAutomatic(p) \/ SendCreate(p) \/ ReceiveAutomatic(p)
             \/ ReceiveDevice(p) \/ PollApproved(p) \/ ReportProgress(p) \/ RunStage(p)
             \/ WriteRoute(p) \/ StartTraefik(p) \/ InstallRelease(p) \/ WriteDigest(p)
             \/ WriteConfig(p) \/ ApplyFirewall(p) \/ EnableAgent(p) \/ Refused(p)
             \/ RestartAgent(p)
    <2>1. disk' = disk
      BY <1>6 DEF Launch, SendAutomatic, SendCreate, ReceiveAutomatic, ReceiveDevice,
                  PollApproved, ReportProgress, RunStage, WriteRoute, StartTraefik,
                  InstallRelease, WriteDigest, WriteConfig, ApplyFirewall, EnableAgent,
                  Refused, RestartAgent, hostVars
    <2> QED BY <2>1
  <1> QED BY <1>1, <1>2, <1>3, <1>4, <1>5, <1>6 DEF Work

(* Only the steps of a run on its own write the state file, and move it.   *)
LEMMA SaverMoves ==
  ASSUME IInv, [Next]_vars, disk' # disk
  PROVE  \E p \in Proc : Work(p) /\ pc'[p] # pc[p]
  <1>1. PICK p \in Proc : Work(p)
    BY DEF Next, Smooth, InstallUpdate, Uninstall, ServeLive, ServeLate, DashboardAlone,
           AgentRestarts, Stop, vars, hostVars, runVars
  <1>2. /\ pc \in [Proc -> Location] /\ IInv
        /\ \A m : AfterStage(m) \in {"release", "stage"}
    BY DEF IInv, TypeOK, AfterStage
  <1>3. CASE Preflight(p) \/ Record(p) \/ SaveStage(p) \/ Validate(p) \/ Finalize(p)
    BY <1>1, <1>2, <1>3 DEF Preflight, Record, SaveStage, Validate, Finalize, Move, Goto, At
  <1>4. CASE ~(Preflight(p) \/ Record(p) \/ SaveStage(p) \/ Validate(p) \/ Finalize(p))
    <2>1. disk' = disk
      BY <1>1, <1>4
         DEF Work, Launch, SendAutomatic, SendCreate, ReceiveAutomatic, ReceiveDevice,
             PollApproved, ReportProgress, RunStage, WriteRoute, StartTraefik,
             InstallRelease, WriteDigest, WriteConfig, ApplyFirewall, EnableAgent,
             Refused, RestartAgent, hostVars
    <2> QED BY <2>1
  <1> QED BY <1>3, <1>4

(* No run gives up a bootstrap token it holds before the Dashboard has     *)
(* acknowledged its enrollment: only a run that overlaps and does not      *)
(* hold it can lose it (internal/cli/installer.go:96, :147, :192).         *)
THEOREM TokenHeld == Spec => OnlyOverlapLosesToken
  <1>1. Init => Unbound
    BY DEF Init, Unbound, AtEnrollment
  <1>2. IInv /\ Unbound /\ [Next]_vars =>
          [\A e \in Enrollment :
             (disk.bootstrap = e /\ disk'.bootstrap # e /\ dash[e] # "completed") =>
               \E p \in Proc : pc'[p] # pc[p] /\ mem[p].bootstrap # e]_disk
    <2> SUFFICES ASSUME IInv, Unbound, [Next]_vars, disk' # disk, NEW e \in Enrollment,
                        disk'.bootstrap # e, dash[e] # "completed"
                 PROVE  \E p \in Proc : pc'[p] # pc[p] /\ mem[p].bootstrap # e
      OBVIOUS
    <2>1. PICK p \in Proc : Work(p) /\ pc'[p] # pc[p]
      BY SaverMoves
    <2>2. mem[p].bootstrap # e
      BY <2>1, SaverKeepsToken
    <2> QED BY <2>1, <2>2
  <1>3. IInv /\ Unbound /\ [Next]_vars => Unbound'
    BY StepUnbound
  <1> QED BY <1>1, <1>2, <1>3, Invariance, PTL DEF Spec, OnlyOverlapLosesToken

-----------------------------------------------------------------------------
(* The end of a run                                                        *)

(* The stages a run has not completed.                                     *)
StagesLeft(m) ==
  (IF "packages" \in m.completed THEN 0 ELSE 1)
  + (IF "docker" \in m.completed THEN 0 ELSE 1)
  + (IF "postgresql" \in m.completed THEN 0 ELSE 1)
  + (IF "traefik" \in m.completed THEN 0 ELSE 1)

(* The steps from a location on, without those for the stages left ...     *)
StepsFrom ==
  [idle |-> 0, restart |-> 1,
   preflight |-> 28, enroll |-> 27, automatic |-> 26, device |-> 26, poll |-> 25,
   record |-> 24,
   stage |-> 7, stage_run |-> 6, container |-> 5, stage_save |-> 4,
   release |-> 7, digest |-> 6, configure |-> 5, firewall |-> 4, enable |-> 3,
   validate |-> 2, finish |-> 1]

(* ... and a bound on the steps of its own the run at p has left.          *)
StepsLeft(p) ==
  StepsFrom[pc[p]] +
  (IF pc[p] \in {"stage", "stage_run", "container", "stage_save"}
   THEN 4 * StagesLeft(mem[p]) ELSE 0)

(* There are four stages.                                                  *)
LEMMA StagesLeftRange == \A m : StagesLeft(m) \in 0..4
  BY DEF StagesLeft

(* Completing the next stage leaves one less.                              *)
LEMMA OneStageLess ==
  ASSUME NEW m \in State, NEW s \in Stages, ~HasCompleted(m, s)
  PROVE  StagesLeft(Complete(m, s)) = StagesLeft(m) - 1
  <1>1. Complete(m, s).completed = m.completed \union {s}
    BY CompleteType DEF Step
  <1>2. CASE s = "packages"
    BY <1>1, <1>2 DEF StagesLeft, HasCompleted
  <1>3. CASE s = "docker"
    BY <1>1, <1>3 DEF StagesLeft, HasCompleted
  <1>4. CASE s = "postgresql"
    BY <1>1, <1>4 DEF StagesLeft, HasCompleted
  <1>5. CASE s = "traefik"
    BY <1>1, <1>5 DEF StagesLeft, HasCompleted
  <1> QED BY <1>2, <1>3, <1>4, <1>5 DEF Stages

(* No location is more than 28 steps from the end.                         *)
LEMMA StepsFromRange == \A l \in Location : StepsFrom[l] \in 0..28
  BY DEF StepsFrom, Location

(* Nor is any run, whatever stages it has left.                            *)
LEMMA StepsLeftRange == TypeOK => \A p \in Proc : StepsLeft(p) \in 0..28
  <1> SUFFICES ASSUME TypeOK, NEW p \in Proc PROVE StepsLeft(p) \in 0..28
    OBVIOUS
  <1>1. pc[p] \in Location /\ StagesLeft(mem[p]) \in 0..4
    BY StagesLeftRange DEF TypeOK
  <1>2. CASE pc[p] \in {"stage", "stage_run", "container", "stage_save"}
    <2>1. StepsFrom[pc[p]] \in 0..7
      BY <1>2 DEF StepsFrom
    <2> QED BY <1>1, <1>2, <2>1 DEF StepsLeft
  <1>3. CASE pc[p] \notin {"stage", "stage_run", "container", "stage_save"}
    BY <1>1, <1>3, StepsFromRange DEF StepsLeft
  <1> QED BY <1>2, <1>3

(* After Preflight or Record a run has the stages and the Agent left.      *)
LEMMA AfterStageSteps ==
  ASSUME NEW m, NEW p \in Proc, pc'[p] = AfterStage(m), mem'[p] = m
  PROVE  StepsLeft(p)' <= 7 + 4 * StagesLeft(m) /\ StepsLeft(p)' \in Nat
  <1>1. StagesLeft(m) \in 0..4
    BY StagesLeftRange
  <1>2. CASE pc'[p] = "release"
    BY <1>1, <1>2 DEF StepsLeft, StepsFrom
  <1>3. CASE pc'[p] = "stage"
    <2>1. StepsLeft(p)' = 7 + 4 * StagesLeft(m)
      BY <1>3 DEF StepsLeft, StepsFrom
    <2> QED BY <1>1, <2>1
  <1> QED BY <1>2, <1>3 DEF AfterStage

(* A step of a run that is alive brings it closer to its end.              *)
LEMMA CloserToEnd ==
  ASSUME IInv, NEW p \in Proc, Work(p) \/ Stop(p), ~At(p, "idle")
  PROVE  StepsLeft(p)' < StepsLeft(p)
  <1> USE DEF Move, Goto, At
  <1>t. /\ TypeOK /\ pc \in [Proc -> Location] /\ mem \in [Proc -> State]
        /\ mem[p] \in State /\ StepsLeft(p) \in 0..28
        /\ StagesLeft(mem[p]) \in 0..4
    BY StepsLeftRange, StagesLeftRange DEF IInv, TypeOK
  <1>1. CASE \/ SendAutomatic(p) \/ SendCreate(p) \/ ReceiveAutomatic(p) \/ ReceiveDevice(p)
             \/ PollApproved(p) \/ InstallRelease(p) \/ WriteDigest(p) \/ WriteConfig(p)
             \/ ApplyFirewall(p) \/ EnableAgent(p) \/ Validate(p)
    <2>1. \/ pc[p] = "enroll" /\ pc'[p] \in {"automatic", "device"}
          \/ pc[p] \in {"automatic", "poll"} /\ pc'[p] = "record"
          \/ pc[p] = "device" /\ pc'[p] = "poll"
          \/ pc[p] = "release" /\ pc'[p] = "digest"
          \/ pc[p] = "digest" /\ pc'[p] = "configure"
          \/ pc[p] = "configure" /\ pc'[p] = "firewall"
          \/ pc[p] = "firewall" /\ pc'[p] = "enable"
          \/ pc[p] = "enable" /\ pc'[p] = "validate"
          \/ pc[p] = "validate" /\ pc'[p] = "finish"
      BY <1>t, <1>1
         DEF SendAutomatic, SendCreate, ReceiveAutomatic, ReceiveDevice, PollApproved,
             InstallRelease, WriteDigest, WriteConfig, ApplyFirewall, EnableAgent, Validate
    <2> QED BY <2>1 DEF StepsLeft, StepsFrom
  <1>2. CASE ReportProgress(p) \/ RunStage(p) \/ WriteRoute(p) \/ StartTraefik(p)
    <2>1. /\ mem' = mem
          /\ \/ pc[p] = "stage" /\ pc'[p] = "stage_run"
             \/ pc[p] = "stage_run" /\ pc'[p] \in {"container", "stage_save"}
             \/ pc[p] = "container" /\ pc'[p] = "stage_save"
      BY <1>t, <1>2 DEF ReportProgress, RunStage, WriteRoute, StartTraefik
    <2>2. /\ StepsFrom[pc'[p]] < StepsFrom[pc[p]]
          /\ StepsFrom[pc'[p]] \in Nat /\ StepsFrom[pc[p]] \in Nat
      BY <2>1 DEF StepsFrom
    <2>3. StepsLeft(p)' = StepsFrom[pc'[p]] + 4 * StagesLeft(mem[p])
      BY <2>1 DEF StepsLeft
    <2>4. StepsLeft(p) = StepsFrom[pc[p]] + 4 * StagesLeft(mem[p])
      BY <2>1 DEF StepsLeft
    <2> QED BY <1>t, <2>2, <2>3, <2>4
  <1>3. CASE SaveStage(p)
    <2>1. PICK s \in Stages : /\ IsNext(mem[p], s) /\ pc[p] = "stage_save"
                              /\ pc' = [pc EXCEPT ![p] = AfterStage(Complete(mem[p], s))]
                              /\ mem' = [mem EXCEPT ![p] = Complete(mem[p], s)]
      BY <1>3 DEF SaveStage, Save, Keep
    <2>2. StepsLeft(p)' <= 7 + 4 * StagesLeft(Complete(mem[p], s)) /\ StepsLeft(p)' \in Nat
      BY <1>t, <2>1, AfterStageSteps
    <2>3. StagesLeft(Complete(mem[p], s)) = StagesLeft(mem[p]) - 1
      BY <1>t, <2>1, OneStageLess DEF IsNext
    <2>4. StepsLeft(p) = 4 + 4 * StagesLeft(mem[p])
      BY <2>1 DEF StepsLeft, StepsFrom
    <2> QED BY <1>t, <2>2, <2>3, <2>4
  <1>4. CASE Preflight(p)
    <2> DEFINE m == Complete(mem[p], "preflight")
    <2>1. StepsLeft(p) = 28 /\ mem'[p] = m
          /\ pc'[p] = IF Resumable(m) THEN AfterStage(m) ELSE "enroll"
      BY <1>t, <1>4 DEF Preflight, Save, Keep, StepsLeft, StepsFrom
    <2>2. StagesLeft(m) \in 0..4
      BY StagesLeftRange
    <2> HIDE DEF m
    <2>3. CASE Resumable(m)
      BY <1>t, <2>1, <2>2, <2>3, AfterStageSteps
    <2>4. CASE ~Resumable(m)
      BY <2>1, <2>4 DEF StepsLeft, StepsFrom
    <2> QED BY <2>3, <2>4
  <1>5. CASE Record(p)
    <2> DEFINE m == Complete([mem[p] EXCEPT !.enrollment = answer[p], !.node = answer[p],
                                            !.digest = answer[p], !.bootstrap = answer[p]],
                             "waiting_for_claim")
    <2>1. StepsLeft(p) = 24 /\ mem'[p] = m /\ pc'[p] = AfterStage(m)
      BY <1>t, <1>5 DEF Record, Save, Keep, StepsLeft, StepsFrom
    <2>2. StagesLeft(m) \in 0..4
      BY StagesLeftRange
    <2> HIDE DEF m
    <2> QED BY <1>t, <2>1, <2>2, AfterStageSteps
  <1>6. CASE Finalize(p) \/ Refused(p) \/ RestartAgent(p) \/ Stop(p)
    <2>1. pc'[p] = "idle" /\ pc[p] \in Location \ {"idle"}
      BY <1>t, <1>6 DEF Finalize, Refused, RestartAgent, Stop, Waiting
    <2>2. StepsLeft(p)' = 0
      BY <2>1 DEF StepsLeft, StepsFrom
    <2>3. StepsFrom[pc[p]] \in 1..28
      BY <2>1 DEF StepsFrom, Location
    <2>4. StepsLeft(p) > 0
      BY <1>t, <2>3 DEF StepsLeft
    <2> QED BY <2>2, <2>4
  <1>7. ~Launch(p)
    BY DEF Launch
  <1> QED BY <1>1, <1>2, <1>3, <1>4, <1>5, <1>6, <1>7 DEF Work

(* A run, alone or not, has at most 28 steps of its own from its start to  *)
(* its end, and nothing in it goes round: what keeps an install from its   *)
(* end is a reply that does not come.                                      *)
THEOREM RunsAreFinite ==
  Spec => /\ [](\A p \in Proc : StepsLeft(p) \in 0..28)
          /\ [][\A p \in Proc : (Work(p) \/ Stop(p)) /\ ~At(p, "idle") =>
                                  StepsLeft(p)' < StepsLeft(p)]_vars
  <1>1. IInv => \A p \in Proc : StepsLeft(p) \in 0..28
    BY StepsLeftRange DEF IInv
  <1>2. IInv => \A p \in Proc : (Work(p) \/ Stop(p)) /\ ~At(p, "idle") =>
                                 StepsLeft(p)' < StepsLeft(p)
    BY CloserToEnd
  <1> QED BY <1>1, <1>2, Invariance, PTL
=============================================================================
