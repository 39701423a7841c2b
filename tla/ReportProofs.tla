---------------------------- MODULE ReportProofs ----------------------------
(***************************************************************************)
(* What is reported as completed is true of the host, a repeated report is *)
(* a replay, only expiry ends the resuming of an enrollment, and the host  *)
(* serves the first one it completes, when runs do not overlap; and a      *)
(* token file is only deleted once its token was exchanged, however many   *)
(* runs overlap.                                                           *)
(***************************************************************************)
EXTENDS LifecycleProofs

-----------------------------------------------------------------------------
(* The token file                                                          *)

(* A reply to the exchange means that the token was exchanged.             *)
Bought == \A p \in Proc : (pc[p] = "automatic" /\ answer[p] # None) => tokenUsed

(* No run is alive at first.                                               *)
LEMMA InitBought == Init => Bought
  BY DEF Init, Bought

(* A run that is not asking has no reply, and only a reply that comes with *)
(* the exchange reaches one that is; the file goes when there is a reply.  *)
LEMMA StepBought ==
  ASSUME IInv, Bought, [Next]_vars
  PROVE  Bought' /\ [tokenFile /\ ~tokenFile' => tokenUsed]_tokenFile
  <1> USE DEF Bought, Move, Goto, At
  <1>t. /\ pc \in [Proc -> Location] /\ answer \in [Proc -> Enrollment \union {None}]
        /\ \A p \in Proc : pc[p] = "enroll" => answer[p] = None
    BY DEF IInv, TypeOK, Answered
  <1>1. ASSUME NEW p \in Proc, SendAutomatic(p)
        PROVE  Bought' /\ tokenFile' = tokenFile
    BY <1>t, <1>1 DEF SendAutomatic, dashVars
  <1>2. ASSUME NEW p \in Proc, ReceiveAutomatic(p)
        PROVE  Bought' /\ (tokenFile' # tokenFile => tokenUsed)
    BY <1>t, <1>2 DEF ReceiveAutomatic, dashVars
  <1>3. ASSUME NEW p \in Proc,
               \/ Launch(p) \/ Preflight(p) \/ SendCreate(p) \/ ReceiveDevice(p)
               \/ PollApproved(p) \/ Record(p) \/ ReportProgress(p) \/ RunStage(p)
               \/ WriteRoute(p) \/ StartTraefik(p) \/ SaveStage(p) \/ InstallRelease(p)
               \/ WriteDigest(p) \/ WriteConfig(p) \/ ApplyFirewall(p) \/ EnableAgent(p)
               \/ Validate(p) \/ Finalize(p) \/ Refused(p) \/ RestartAgent(p)
               \/ InstallUpdate(p) \/ Uninstall(p) \/ Stop(p)
        PROVE  Bought' /\ tokenFile' = tokenFile
    <2>1. tokenUsed' = tokenUsed /\ tokenFile' = tokenFile
      BY <1>3 DEF Launch, Preflight, SendCreate, ReceiveDevice, PollApproved, Record,
                  ReportProgress, ShowProgress, RunStage, WriteRoute, StartTraefik,
                  SaveStage, InstallRelease, WriteDigest, WriteConfig, ApplyFirewall,
                  EnableAgent, Validate, Finalize, Refused, RestartAgent, InstallUpdate,
                  Uninstall, Stop, dashVars
    <2>2. \/ pc' = pc /\ answer' = answer
          \/ /\ \E l \in Location \ {"automatic"} : pc' = [pc EXCEPT ![p] = l]
             /\ answer' = answer \/ answer' = [answer EXCEPT ![p] = None]
      <3>1. ASSUME NEW m PROVE AfterStage(m) \in Location \ {"automatic"}
        BY DEF AfterStage, Location
      <3> QED
        BY <1>3, <3>1
           DEF Launch, Preflight, SendCreate, ReceiveDevice, PollApproved, Record,
               ReportProgress, RunStage, WriteRoute, StartTraefik, SaveStage,
               InstallRelease, WriteDigest, WriteConfig, ApplyFirewall, EnableAgent,
               Validate, Finalize, Refused, RestartAgent, InstallUpdate, Uninstall,
               Stop, runVars, Location
    <2> QED BY <1>t, <2>1, <2>2
  <1>4. ASSUME NEW p \in Proc, ServeLive(p) PROVE Bought' /\ tokenFile' = tokenFile
    <2>1. PICK e \in Enrollment : /\ Waiting(p) /\ Serve(Outstanding(p), e)
                                  /\ answer' = [answer EXCEPT ![p] = e]
      BY <1>4 DEF ServeLive
    <2>2. pc[p] = "automatic" => Outstanding(p).type = "automatic"
      BY DEF Outstanding, Ask
    <2>3. pc[p] = "automatic" => tokenUsed'
      BY <2>1, <2>2 DEF Serve, ServeAutomatic, ServeDevice, ServeComplete
    <2>4. tokenUsed => tokenUsed'
      BY <2>1 DEF Serve, ServeAutomatic, ServeDevice, ServeComplete
    <2> QED BY <1>t, <1>4, <2>1, <2>3, <2>4 DEF ServeLive
  <1>5. ASSUME ServeLate PROVE Bought' /\ tokenFile' = tokenFile
    BY <1>5 DEF ServeLate, Serve, ServeAutomatic, ServeDevice, ServeComplete
  <1>6. ASSUME NEW e \in Enrollment, DashboardAlone(e) PROVE Bought' /\ tokenFile' = tokenFile
    BY <1>6 DEF DashboardAlone, OperatorAnswers, BootstrapExpires, runVars
  <1>7. CASE AgentRestarts \/ UNCHANGED vars
    BY <1>7 DEF AgentRestarts, vars, runVars, dashVars
  <1> QED BY <1>1, <1>2, <1>3, <1>4, <1>5, <1>6, <1>7 DEF Next, Smooth, Work

(* installer.go:106-113: the token file outlives a failed exchange.        *)
THEOREM TokenFileOutlivesFailure == Spec => TokenSpentBeforeDelete
  <1>1. Init => Bought
    BY InitBought
  <1>2. IInv /\ Bought /\ [Next]_vars =>
          Bought' /\ [tokenFile /\ ~tokenFile' => tokenUsed]_tokenFile
    BY StepBought
  <1> QED BY <1>1, <1>2, Invariance, PTL DEF Spec, TokenSpentBeforeDelete

-----------------------------------------------------------------------------
(* What is reported is installed                                           *)

(* Binary, digest and configuration are those of the run that is past      *)
(* writing them.                                                           *)
Built ==
  \A p \in Proc :
    /\ pc[p] \in Releasing => binary = Release[mem[p].node]
    /\ pc[p] \in Configuring => config.digest = mem[p].digest
    /\ pc[p] \in Reporting => config.node = mem[p].node

(* Locations by what is left to be written.                                *)
LEMMA ReportingIs ==
  /\ \A l : l \in Reporting <=> l \in {"firewall", "enable", "validate", "finish"}
  /\ \A l : l \in Configuring <=> l = "configure" \/ l \in Reporting
  /\ \A l : l \in Releasing <=> l = "digest" \/ l \in Configuring
  BY DEF Reporting, Configuring, Releasing

(* No run is alive at first.                                               *)
LEMMA InitBuilt == Init => Built
  BY ReportingIs DEF Init, Built

(* The only run writes for the node in its memory, and nothing else is     *)
(* written while it is under way.                                          *)
LEMMA StepBuilt ==
  ASSUME IInv, Built, Alone, [Next]_vars
  PROVE  Built'
  <1> USE DEF Built, Move, Goto, At
  <1>t. /\ TypeOK /\ pc \in [Proc -> Location] /\ mem \in [Proc -> State]
        /\ config \in AgentConfig
    BY DEF IInv, TypeOK
  <1>1. ASSUME NEW p \in Proc, InstallRelease(p) PROVE Built'
    BY <1>t, <1>1, ReportingIs DEF Alone, InstallRelease
  <1>2. ASSUME NEW p \in Proc, WriteDigest(p) PROVE Built'
    BY <1>t, <1>2, ReportingIs DEF Alone, WriteDigest, AgentConfig
  <1>3. ASSUME NEW p \in Proc, WriteConfig(p) PROVE Built'
    BY <1>t, <1>3, ReportingIs DEF Alone, WriteConfig, AgentConfig
  <1>4. ASSUME NEW p \in Proc, ApplyFirewall(p) \/ EnableAgent(p) \/ Validate(p)
        PROVE  Built'
    <2>1. binary' = binary /\ config' = config
      BY <1>4 DEF ApplyFirewall, EnableAgent, Validate, hostVars
    <2>2. PICK s \in Step, k \in Key \union {None} :
             mem'[p] = Complete(mem[p], s) \/ mem'[p] = [Complete(mem[p], s) EXCEPT !.key = k]
      BY <1>t, <1>4 DEF ApplyFirewall, EnableAgent, Validate, Save, Keep, Step, Stages
    <2>3. /\ Complete(mem[p], s) \in State
          /\ Complete(mem[p], s).node = mem[p].node
          /\ Complete(mem[p], s).digest = mem[p].digest
      BY <1>t, CompleteType
    <2>4. mem'[p].node = mem[p].node /\ mem'[p].digest = mem[p].digest
      BY <2>2, <2>3 DEF State
    <2>5. pc[p] \in Reporting /\ pc'[p] \in Reporting
      BY <1>t, <1>4, ReportingIs DEF ApplyFirewall, EnableAgent, Validate
    <2> QED BY <2>1, <2>4, <2>5, ReportingIs DEF Alone
  <1>5. ASSUME NEW p \in Proc,
               \/ Launch(p) \/ Preflight(p) \/ SendAutomatic(p) \/ SendCreate(p)
               \/ ReceiveAutomatic(p) \/ ReceiveDevice(p) \/ PollApproved(p)
               \/ Record(p) \/ ReportProgress(p) \/ RunStage(p) \/ WriteRoute(p)
               \/ StartTraefik(p) \/ SaveStage(p) \/ Finalize(p) \/ Refused(p)
               \/ RestartAgent(p) \/ InstallUpdate(p) \/ Stop(p)
        PROVE  Built'
    <2>1. pc'[p] \notin Releasing
      <3>1. ASSUME NEW m PROVE AfterStage(m) \in {"release", "stage"}
        BY DEF AfterStage
      <3>2. pc'[p] \notin {"digest", "configure", "firewall", "enable", "validate", "finish"}
        BY <1>t, <1>5, <3>1
           DEF Launch, Preflight, SendAutomatic, SendCreate, ReceiveAutomatic,
               ReceiveDevice, PollApproved, Record, ReportProgress, RunStage,
               WriteRoute, StartTraefik, SaveStage, Finalize, Refused,
               RestartAgent, InstallUpdate, Stop
      <3> QED BY <3>2, ReportingIs
    <2> QED BY <2>1, ReportingIs DEF Alone
  <1>6. ASSUME UNCHANGED <<pc, mem, binary, config>> PROVE Built'
    BY <1>6
  <1>7. ASSUME NEW p \in Proc, ServeLive(p) \/ Uninstall(p) PROVE Built'
    BY <1>6, <1>7 DEF ServeLive, Uninstall, hostVars, runVars
  <1>8. ASSUME NEW e \in Enrollment, DashboardAlone(e) PROVE Built'
    BY <1>6, <1>8 DEF DashboardAlone, hostVars, runVars
  <1>9. CASE ServeLate \/ AgentRestarts \/ UNCHANGED vars
    BY <1>6, <1>9 DEF ServeLate, AgentRestarts, vars, hostVars, runVars
  <1> QED BY <1>1, <1>2, <1>3, <1>4, <1>5, <1>7, <1>8, <1>9 DEF Next, Smooth, Work

(* installer.go:215-297: what is reported as the node is what this run     *)
(* installed, whatever earlier runs left half done.                        *)
THEOREM ReportedIsInstalled == Alone /\ Spec => []ReportMatchesHost
  <1> SUFFICES ASSUME Alone PROVE Spec => []ReportMatchesHost
    OBVIOUS
  <1>1. Init => Built
    BY InitBuilt
  <1>2. IInv /\ Built /\ [Next]_vars => Built'
    BY StepBuilt
  <1>3. IInv /\ Built => ReportMatchesHost
    BY ReportingIs DEF IInv, TypeOK, AgentConfig, Built, ReportMatchesHost, At
  <1> QED BY <1>1, <1>2, <1>3, Invariance, PTL DEF Spec

-----------------------------------------------------------------------------
(* A repeated report is a replay                                           *)

(* The key in memory is the key on disk, and a report is sent with one.    *)
KeySaved ==
  \A p \in Proc :
    /\ pc[p] \in Loaded => mem[p].key = disk.key
    /\ pc[p] = "finish" => disk.key # None

(* A report of the enrollment being resumed that is still under way has    *)
(* the key on disk.                                                        *)
LateKeyed ==
  \A r \in late :
    (r.type = "finish" /\ Resumable(disk) /\ r.enrollment = disk.enrollment) =>
      r.key = disk.key /\ disk.key # None

(* A report of it that was accepted had the key on disk.                   *)
AcceptedKeyed ==
  (Resumable(disk) /\ dash[disk.enrollment] = "completed") =>
    /\ disk.key # None
    /\ \E x \in reports : x.enrollment = disk.enrollment /\ x.key = disk.key

Keyed == KeySaved /\ LateKeyed /\ AcceptedKeyed

(* No run is alive, no report is under way and none accepted at first.     *)
LEMMA InitKeyed == Init => Keyed
  <1> SUFFICES ASSUME Init PROVE Keyed
    OBVIOUS
  <1>1. KeySaved
    BY LoadedIs DEF Init, KeySaved
  <1>2. LateKeyed
    BY DEF Init, LateKeyed
  <1>3. AcceptedKeyed
    BY DEF Init, NewState, AcceptedKeyed, Resumable
  <1> QED BY <1>1, <1>2, <1>3 DEF Keyed

(* Reports and completions under the same owner and key stay accounted     *)
(* for.                                                                    *)
LEMMA KeyedStays ==
  ASSUME Keyed, SameOwner, disk'.key = disk.key, dash' = dash,
         late' \subseteq late, reports' = reports
  PROVE  LateKeyed' /\ AcceptedKeyed'
  BY DEF Keyed, LateKeyed, AcceptedKeyed, SameOwner, Resumable

(* A state file that has nothing to resume accounts for everything.        *)
LEMMA NothingToResume ==
  ASSUME ~Resumable(disk)'
  PROVE  LateKeyed' /\ AcceptedKeyed'
  BY DEF LateKeyed, AcceptedKeyed

(* The only run keeps the key of the state file, draws one when nothing    *)
(* was reported, and gives it up with the bootstrap token.                 *)
LEMMA WorkKeyed ==
  ASSUME IInv, LInv, Keyed, Alone, IInv', NEW p \in Proc,
         Work(p) \/ InstallUpdate(p) \/ Uninstall(p)
  PROVE  Keyed'
  <1> USE DEF Move, Goto, At
  <1>t. /\ TypeOK /\ pc \in [Proc -> Location] /\ mem \in [Proc -> State]
        /\ answer \in [Proc -> Enrollment \union {None}] /\ mem[p] \in State
    BY DEF IInv, TypeOK
  <1>k. pc[p] \in Loaded =>
          /\ mem[p].key = disk.key /\ mem[p].enrollment = disk.enrollment
          /\ mem[p].bootstrap = disk.bootstrap
    BY DEF Keyed, KeySaved, LInv, InStep
  <1>o. ~Record(p) /\ ~Finalize(p) => SameOwner
    BY WorkLInv
  <1>1. CASE Launch(p)
    <2>1. PICK n \in Size : mem' = [mem EXCEPT ![p] = [disk EXCEPT !.size = n]]
      BY <1>1 DEF Launch, Keep
    <2>2. /\ mem'[p].key = disk.key /\ pc'[p] = "preflight"
          /\ disk' = disk /\ dash' = dash /\ late' = late /\ reports' = reports
      BY <1>t, <1>1, <2>1 DEF Launch, dashVars, TypeOK, State
    <2>3. KeySaved'
      BY <2>2 DEF Alone, KeySaved
    <2> QED BY <2>2, <2>3, KeyedStays DEF Keyed, SameOwner
  <1>2. CASE Preflight(p)
    <2> DEFINE m == Complete(mem[p], "preflight")
    <2>1. m.key = mem[p].key
      BY <1>t, CompleteType DEF Step, Stages
    <2>2. /\ mem' = [mem EXCEPT ![p] = m] /\ disk' = m /\ dash' = dash /\ late' = late
          /\ reports' = reports /\ pc[p] = "preflight"
          /\ pc' = [pc EXCEPT ![p] = IF Resumable(m) THEN AfterStage(m) ELSE "enroll"]
      BY <1>2 DEF Preflight, Save, Keep, dashVars
    <2>3. pc'[p] # "finish"
      BY <1>t, <2>2 DEF AfterStage
    <2>4. SameOwner
      BY <1>2, <1>o DEF Preflight, Record, Finalize
    <2> HIDE DEF m
    <2>5. mem'[p] = disk' /\ disk'.key = disk.key
      BY <1>t, <1>k, <2>1, <2>2, LoadedIs
    <2>6. KeySaved'
      BY <2>3, <2>5 DEF Alone, KeySaved
    <2> QED BY <2>2, <2>4, <2>5, <2>6, KeyedStays DEF Keyed
  <1>3. CASE SendAutomatic(p) \/ SendCreate(p) \/ ReceiveAutomatic(p) \/ ReceiveDevice(p)
             \/ PollApproved(p) \/ Refused(p) \/ RestartAgent(p) \/ InstallUpdate(p)
             \/ Uninstall(p)
    <2>1. /\ disk' = disk /\ dash' = dash /\ late' = late /\ reports' = reports
          /\ pc'[p] \in {"automatic", "device", "record", "poll", "idle", "restart"}
      BY <1>t, <1>3 DEF SendAutomatic, SendCreate, ReceiveAutomatic, ReceiveDevice,
                        PollApproved, Refused, RestartAgent, InstallUpdate, Uninstall,
                        dashVars, runVars
    <2>2. KeySaved'
      BY <2>1, LoadedIs DEF Alone, KeySaved
    <2> QED BY <2>1, <2>2, KeyedStays DEF Keyed, SameOwner
  <1>4. CASE Record(p)
    <2> DEFINE c == [mem[p] EXCEPT !.enrollment = answer[p], !.node = answer[p],
                                   !.digest = answer[p], !.bootstrap = answer[p]]
               m == Complete(c, "waiting_for_claim")
    <2>1. answer[p] \in Enrollment /\ pc[p] = "record" /\ answer[p] # None
      BY <1>t, <1>4 DEF Record, IInv, Answered
    <2>2. c \in State /\ c.enrollment = answer[p]
      BY <1>t DEF State
    <2>3. m \in State /\ m.enrollment = answer[p]
      <3> HIDE DEF c
      <3> QED BY <2>2, CompleteType DEF Step, Stages
    <2>4. /\ pc' = [pc EXCEPT ![p] = AfterStage(m)] /\ mem' = [mem EXCEPT ![p] = m]
          /\ disk' = m /\ dash' = dash /\ late' = late
      BY <1>4 DEF Record, Save, Keep, dashVars
    <2>5. dash[answer[p]] # "completed" /\ ReportOf(answer[p]) = {}
      BY <2>1 DEF LInv, InStep, Asking
    <2> HIDE DEF m
    <2>6. mem'[p] = disk' /\ pc'[p] \in {"stage", "release"}
      BY <1>t, <2>3, <2>4, AfterStageWhere
    <2>7. KeySaved'
      BY <2>6 DEF Alone, KeySaved
    <2>8. LateKeyed' /\ AcceptedKeyed'
      BY <2>3, <2>4, <2>5 DEF LateKeyed, AcceptedKeyed, ReportOf
    <2> QED BY <2>7, <2>8 DEF Keyed
  <1>5. CASE \/ ReportProgress(p) \/ RunStage(p) \/ WriteRoute(p) \/ StartTraefik(p)
             \/ InstallRelease(p) \/ WriteDigest(p) \/ WriteConfig(p)
    <2>1. /\ mem' = mem /\ disk' = disk /\ dash' = dash /\ late' = late
          /\ reports' = reports /\ pc[p] \in Loaded /\ pc'[p] # "finish"
      BY <1>t, <1>5, LoadedIs
         DEF ReportProgress, ShowProgress, RunStage, WriteRoute, StartTraefik,
             InstallRelease, WriteDigest, WriteConfig, dashVars
    <2>2. KeySaved'
      BY <1>k, <2>1 DEF Alone, KeySaved
    <2> QED BY <2>1, <2>2, KeyedStays DEF Keyed, SameOwner
  <1>6. CASE SaveStage(p) \/ ApplyFirewall(p) \/ EnableAgent(p)
    <2>1. /\ pc[p] \in Loaded /\ dash' = dash /\ late' = late /\ reports' = reports
          /\ disk' = disk \/ disk' = mem'[p]
      BY <1>t, <1>6, LoadedIs
         DEF SaveStage, ApplyFirewall, EnableAgent, Save, Keep, dashVars
    <2>2. PICK s \in Step : mem'[p] = Complete(mem[p], s)
      BY <1>t, <1>6 DEF SaveStage, ApplyFirewall, EnableAgent, Save, Keep, Step, Stages
    <2>3. mem'[p].key = disk.key /\ disk'.key = disk.key
      BY <1>t, <1>k, <2>1, <2>2, CompleteType
    <2>4. pc'[p] # "finish" /\ SameOwner
      BY <1>t, <1>6, <1>o
         DEF SaveStage, ApplyFirewall, EnableAgent, AfterStage, Record, Finalize
    <2>5. KeySaved'
      BY <2>3, <2>4 DEF Alone, KeySaved
    <2> QED BY <2>1, <2>3, <2>4, <2>5, KeyedStays DEF Keyed
  <1>7. CASE Validate(p)
    <2> DEFINE m == Complete(mem[p], "validation")
    <2>1. m \in State /\ m.key = disk.key /\ pc[p] = "validate"
      BY <1>t, <1>7, <1>k, LoadedIs, CompleteType DEF Validate, Step, Stages
    <2>2. dash' = dash /\ late' = late /\ reports' = reports /\ SameOwner
      BY <1>7, <1>o, <2>1 DEF Validate, Record, Finalize, dashVars
    <2>3. CASE disk.key = None
      <3>1. PICK k \in Key : mem' = [mem EXCEPT ![p] = [m EXCEPT !.key = k]]
                           /\ disk' = [m EXCEPT !.key = k]
        BY <1>7, <2>1, <2>3 DEF Validate, Save, Keep
      <3> HIDE DEF m
      <3>2. mem'[p] = disk' /\ disk'.key # None
        BY <1>t, <2>1, <3>1, NoneAssumption DEF State
      <3>3. KeySaved'
        BY <3>2 DEF Alone, KeySaved
      <3>4. LateKeyed' /\ AcceptedKeyed'
        BY <2>2, <2>3 DEF Keyed, LateKeyed, AcceptedKeyed, SameOwner, Resumable
      <3> QED BY <3>3, <3>4 DEF Keyed
    <2>4. CASE disk.key # None
      <3>1. mem' = [mem EXCEPT ![p] = m] /\ disk' = disk
        BY <1>7, <2>1, <2>4 DEF Validate, Keep
      <3> HIDE DEF m
      <3>2. mem'[p].key = disk'.key /\ disk'.key # None
        BY <1>t, <2>1, <2>4, <3>1
      <3>3. KeySaved'
        BY <3>2 DEF Alone, KeySaved
      <3> QED BY <2>2, <3>1, <3>3, KeyedStays DEF Keyed
    <2> QED BY <2>3, <2>4
  <1>8. CASE Finalize(p)
    <2> DEFINE c == [mem[p] EXCEPT !.bootstrap = None, !.digest = None, !.key = None]
    <2>1. c \in State /\ c.bootstrap = None
      BY <1>t DEF State
    <2>2. disk' = Complete(c, "complete") /\ pc'[p] = "idle"
      BY <1>t, <1>8 DEF Finalize
    <2> HIDE DEF c
    <2>3. ~Resumable(disk)'
      BY <2>1, <2>2, CompleteType DEF Resumable, Step, Stages
    <2>4. KeySaved'
      BY <2>2, LoadedIs DEF Alone, KeySaved
    <2> QED BY <2>3, <2>4, NothingToResume DEF Keyed
  <1> QED BY <1>1, <1>2, <1>3, <1>4, <1>5, <1>6, <1>7, <1>8 DEF Work

(* A report left behind has the key on disk.                               *)
LEMMA StopKeyed ==
  ASSUME IInv, LInv, Keyed, Alone, NEW p \in Proc, Stop(p)
  PROVE  Keyed'
  <1>1. /\ pc' = [pc EXCEPT ![p] = "idle"] /\ disk' = disk /\ dash' = dash
        /\ late' = late \/ (Waiting(p) /\ late' = late \union {Outstanding(p)})
        /\ reports' = reports
    BY DEF Stop, Goto, dashVars
  <1>2. pc'[p] = "idle"
    BY <1>1 DEF IInv, TypeOK
  <1>3. KeySaved'
    BY <1>2, LoadedIs DEF Alone, KeySaved
  <1>4. AcceptedKeyed'
    BY <1>1 DEF Keyed, AcceptedKeyed, Resumable
  <1>5. CASE late' = late
    BY <1>1, <1>3, <1>5, KeyedStays DEF Keyed, SameOwner
  <1>6. CASE Waiting(p) /\ late' = late \union {Outstanding(p)}
    <2>1. Outstanding(p).type = "finish" =>
            Outstanding(p).key = disk.key /\ disk.key # None
      <3>1. Outstanding(p).type = "finish" =>
              pc[p] = "finish" /\ Outstanding(p).key = mem[p].key
        BY <1>6 DEF Outstanding, Ask, Waiting
      <3> QED BY <3>1, LoadedIs DEF Keyed, KeySaved
    <2>2. LateKeyed'
      BY <1>1, <1>6, <2>1 DEF Keyed, LateKeyed, Resumable
    <2> QED BY <1>3, <1>4, <2>2 DEF Keyed
  <1> QED BY <1>1, <1>5, <1>6

(* An accepted report of the enrollment being resumed, early or late, has  *)
(* the key on disk.                                                        *)
LEMMA ServeKeyed ==
  ASSUME IInv, LInv, Keyed, Alone, ServeLate \/ (\E p \in Proc : ServeLive(p))
  PROVE  Keyed'
  <1>t. TypeOK /\ dash \in [Enrollment -> Status] /\ disk \in State
    BY DEF IInv, TypeOK, DashTypeOK
  <1>1. /\ pc' = pc /\ mem' = mem /\ disk' = disk /\ late' \subseteq late
    BY DEF ServeLive, ServeLate, hostVars
  <1>2. KeySaved' /\ LateKeyed'
    BY <1>1 DEF Keyed, KeySaved, LateKeyed, Resumable
  <1>3. ASSUME NEW r \in Request, NEW e \in Enrollment, Serve(r, e),
               (r.type = "finish" /\ Resumable(disk) /\ r.enrollment = disk.enrollment) =>
                 r.key = disk.key /\ disk.key # None
        PROVE  AcceptedKeyed'
    <2>1. CASE r.type = "finish"
      <3>1. /\ r.enrollment = e /\ dash' = [dash EXCEPT ![e] = "completed"]
            /\ reports' = reports \union {[enrollment |-> e, key |-> r.key, size |-> r.size]}
        BY <1>3, <2>1 DEF Serve, ServeAutomatic, ServeDevice, ServeComplete
      <3>2. CASE e = disk.enrollment
        <4>1. Resumable(disk) => \E x \in reports' : x.enrollment = disk.enrollment
                                                   /\ x.key = disk.key
          <5> DEFINE x == [enrollment |-> e, key |-> r.key, size |-> r.size]
          <5>1. x \in reports' /\ x.enrollment = disk.enrollment /\ x.key = r.key
            BY <3>1, <3>2
          <5>2. Resumable(disk) => r.key = disk.key
            BY <1>3, <2>1, <3>1, <3>2
          <5> HIDE DEF x
          <5> QED BY <5>1, <5>2
        <4> QED BY <1>1, <1>3, <2>1, <3>1, <3>2, <4>1 DEF AcceptedKeyed, Resumable
      <3>3. CASE e # disk.enrollment
        <4>1. dash'[disk.enrollment] = "completed" /\ Resumable(disk) =>
                dash[disk.enrollment] = "completed"
          BY <1>t, <3>1, <3>3 DEF Resumable, State
        <4> QED BY <1>1, <3>1, <4>1 DEF Keyed, AcceptedKeyed, Resumable
      <3> QED BY <3>2, <3>3
    <2>2. CASE r.type # "finish"
      <3>1. /\ reports' = reports
            /\ \E st \in {"approved", "pending"} : dash' = [dash EXCEPT ![e] = st]
        BY <1>3, <2>2 DEF Serve, ServeAutomatic, ServeDevice, ServeComplete
      <3>2. dash'[disk.enrollment] = "completed" /\ Resumable(disk) =>
              dash[disk.enrollment] = "completed"
        BY <1>t, <3>1 DEF Resumable, State
      <3> QED BY <1>1, <3>1, <3>2 DEF Keyed, AcceptedKeyed, Resumable
    <2> QED BY <2>1, <2>2
  <1>4. CASE ServeLate
    <2>1. PICK r \in late, e \in Enrollment : Serve(r, e)
      BY <1>4 DEF ServeLate
    <2>2. r \in Request
      BY <1>t DEF TypeOK
    <2> QED BY <1>2, <1>3, <2>1, <2>2 DEF Keyed, LateKeyed
  <1>5. ASSUME NEW p \in Proc, ServeLive(p) PROVE Keyed'
    <2>1. PICK e \in Enrollment : Waiting(p) /\ Serve(Outstanding(p), e)
      BY <1>5 DEF ServeLive
    <2>2. Outstanding(p) \in Request
      BY <1>t, <2>1, OutstandingType
    <2>3. Outstanding(p).type = "finish" =>
            Outstanding(p).key = disk.key /\ disk.key # None
      <3>1. Outstanding(p).type = "finish" =>
              pc[p] = "finish" /\ Outstanding(p).key = mem[p].key
        BY <2>1 DEF Outstanding, Ask, Waiting
      <3> QED BY <3>1, LoadedIs DEF Keyed, KeySaved
    <2> QED BY <1>2, <1>3, <2>1, <2>2, <2>3 DEF Keyed
  <1> QED BY <1>4, <1>5

(* Every step keeps the keys accounted for.                                *)
LEMMA StepKeyed ==
  ASSUME IInv, LInv, Keyed, Alone, IInv', [Next]_vars
  PROVE  Keyed'
  <1>1. ASSUME NEW p \in Proc, Work(p) \/ InstallUpdate(p) \/ Uninstall(p) PROVE Keyed'
    BY <1>1, WorkKeyed
  <1>2. ASSUME NEW p \in Proc, Stop(p) PROVE Keyed'
    BY <1>2, StopKeyed
  <1>3. CASE ServeLate \/ (\E p \in Proc : ServeLive(p))
    BY <1>3, ServeKeyed
  <1>4. ASSUME UNCHANGED <<pc, mem, disk, late, reports>>,
               dash' = dash \/ (\E e \in Enrollment : OperatorAnswers(e))
        PROVE  Keyed'
    <2>1. \A e \in Enrollment : dash'[e] = "completed" => dash[e] = "completed"
      BY <1>4 DEF OperatorAnswers, IInv, TypeOK, DashTypeOK
    <2>2. Resumable(disk) => disk.enrollment \in Enrollment
      BY DEF Resumable, IInv, TypeOK, State
    <2> QED BY <1>4, <2>1, <2>2 DEF Keyed, KeySaved, LateKeyed, AcceptedKeyed, Resumable
  <1>5. ASSUME NEW e \in Enrollment, DashboardAlone(e) PROVE Keyed'
    BY <1>4, <1>5 DEF DashboardAlone, OperatorAnswers, BootstrapExpires, runVars
  <1>6. CASE AgentRestarts \/ UNCHANGED vars
    BY <1>4, <1>6 DEF AgentRestarts, vars, runVars, dashVars
  <1> QED BY <1>1, <1>2, <1>3, <1>5, <1>6 DEF Next, Smooth

(* While the bootstrap token is good, the report a run sends is one the    *)
(* Dashboard accepts.                                                      *)
LEMMA ReportAccepted ==
  ASSUME IInv, LInv, Keyed, NEW p \in Proc, pc[p] = "finish",
         mem[p].enrollment \notin expired
  PROVE  Acceptable(Outstanding(p))
  <1>1. /\ mem[p].enrollment = disk.enrollment /\ mem[p].bootstrap = disk.bootstrap
        /\ mem[p].key = disk.key
    BY LoadedIs DEF LInv, InStep, Keyed, KeySaved
  <1>2. mem[p].bootstrap # None
    BY Locations DEF IInv, Achieved
  <1>3. mem[p].enrollment = mem[p].bootstrap /\ Vouched(mem[p].bootstrap)
    BY <1>2 DEF IInv, Sound
  <1>4. dash[disk.enrollment] = "completed" =>
          \E x \in reports : x.enrollment = disk.enrollment /\ x.key = disk.key
    BY <1>1, <1>2, <1>3 DEF Keyed, AcceptedKeyed, Resumable
  <1>5. /\ Outstanding(p).enrollment = mem[p].enrollment
        /\ Outstanding(p).bootstrap = mem[p].bootstrap
        /\ Outstanding(p).key = mem[p].key
    BY DEF Outstanding
  <1> QED BY <1>1, <1>3, <1>4, <1>5 DEF Acceptable, Vouched

(* installer.go:279-299: until the bootstrap token expires, the Dashboard  *)
(* never refuses a report, however often crashes and lost replies repeat   *)
(* it.                                                                     *)
THEOREM RepeatedReportIsReplay == Alone /\ Spec => []ReportReplayable
  <1> SUFFICES ASSUME Alone PROVE Spec => []ReportReplayable
    OBVIOUS
  <1>1. Init => LInv /\ Keyed
    BY InitLInv, InitKeyed
  <1>2. IInv /\ IInv' /\ LInv /\ Keyed /\ [Next]_vars => LInv' /\ Keyed'
    BY LifecycleStep, StepKeyed
  <1>3. IInv /\ LInv /\ Keyed => ReportReplayable
    BY ReportAccepted DEF ReportReplayable, At
  <1> QED BY <1>1, <1>2, <1>3, Invariance, PTL DEF Spec

(* installer.go:91-93, 156-162, 279-299: a run with an enrollment to       *)
(* resume never asks for another, and its report is the first or a replay, *)
(* so it is turned away only when the bootstrap token ran out.             *)
THEOREM OnlyExpiryEndsResuming == Alone /\ Spec => RefusedOnlyWhenExpired
  <1> SUFFICES ASSUME Alone PROVE Spec => RefusedOnlyWhenExpired
    OBVIOUS
  <1>1. Init => LInv /\ Keyed
    BY InitLInv, InitKeyed
  <1>2. IInv /\ IInv' /\ LInv /\ Keyed /\ [Next]_vars => LInv' /\ Keyed'
    BY LifecycleStep, StepKeyed
  <1>3. IInv /\ LInv /\ Keyed /\ [Next]_vars =>
          [\A p \in Proc : (Refused(p) /\ Resumable(disk)) => disk.enrollment \in expired]_vars
    <2> SUFFICES ASSUME IInv, LInv, Keyed, NEW p \in Proc, Refused(p), Resumable(disk)
                 PROVE  disk.enrollment \in expired
      OBVIOUS
    <2>1. pc[p] \notin Asking
      BY DEF LInv, InStep
    <2>2. pc[p] = "finish" /\ Refuses(Outstanding(p))
      BY <2>1 DEF Refused, Waiting, At, Asking
    <2>3. ~Acceptable(Outstanding(p))
      BY <2>2 DEF Outstanding, Refuses
    <2>4. mem[p].enrollment \in expired
      BY <2>2, <2>3, ReportAccepted
    <2> QED BY <2>2, <2>4, LoadedIs DEF LInv, InStep
  <1> QED BY <1>1, <1>2, <1>3, Invariance, PTL DEF Spec, RefusedOnlyWhenExpired

-----------------------------------------------------------------------------
(* What the host serves                                                    *)

(* What the host may serve: nothing, the enrollment of the state file, or  *)
(* one that was completed before it.                                       *)
Owned(x) == x \in {None, disk.enrollment} \/ dash[x] = "completed"

(* The node of a state is the one of its enrollment.                       *)
Named ==
  /\ disk.node = disk.enrollment
  /\ \A p \in Proc : mem[p].node = mem[p].enrollment

(* Route, configuration and live Agent are of owned enrollments; a started *)
(* Traefik has a route, and a live Agent a whole configuration.            *)
HostOwned ==
  /\ Owned(route) /\ Owned(config.node) /\ Owned(config.digest)
  /\ config.node # None => config.digest # None
  /\ running # None =>
       /\ config.node # None
       /\ running.config.node # None /\ running.config.digest # None
       /\ Owned(running.config.node) /\ Owned(running.config.digest)
  /\ "traefik" \in done => route # None
  /\ \A p \in Proc : pc[p] = "container" => route # None

(* A host that was never installed serves nothing.                         *)
LEMMA InitServed == Init => Named /\ HostOwned
  BY DEF Init, NewState, Named, HostOwned, Owned

(* Every state that is kept or saved names the node of its enrollment.     *)
LEMMA StepNamed ==
  ASSUME IInv, Named, [Next]_vars
  PROVE  Named'
  <1> USE DEF Named
  <1>t. TypeOK /\ mem \in [Proc -> State] /\ disk \in State
        /\ answer \in [Proc -> Enrollment \union {None}]
    BY DEF IInv, TypeOK
  <1>1. ASSUME NEW p \in Proc, NEW m \in State, m.node = m.enrollment,
               mem' = [mem EXCEPT ![p] = m], disk' \in {disk, m}
        PROVE  Named'
    BY <1>t, <1>1
  <1>2. ASSUME NEW p \in Proc, Launch(p) PROVE Named'
    <2>1. PICK n \in Size : mem' = [mem EXCEPT ![p] = [disk EXCEPT !.size = n]]
      BY <1>2 DEF Launch, Keep
    <2> DEFINE m == [disk EXCEPT !.size = n]
    <2>2. m \in State /\ m.node = m.enrollment /\ disk' = disk
      BY <1>t, <1>2 DEF State, Launch
    <2> HIDE DEF m
    <2> QED BY <1>1, <2>1, <2>2 DEF m
  <1>3. ASSUME NEW p \in Proc,
               \/ Preflight(p) \/ SaveStage(p) \/ ApplyFirewall(p) \/ EnableAgent(p)
               \/ Validate(p)
        PROVE  Named'
    <2>1. PICK s \in Step, k \in Key \union {None} :
             /\ \/ mem' = [mem EXCEPT ![p] = Complete(mem[p], s)]
                \/ mem' = [mem EXCEPT ![p] = [Complete(mem[p], s) EXCEPT !.key = k]]
             /\ disk' \in {disk, mem'[p]}
      BY <1>t, <1>3 DEF Preflight, SaveStage, ApplyFirewall, EnableAgent, Validate,
                        Save, Keep, Step, Stages
    <2>2. /\ Complete(mem[p], s) \in State
          /\ Complete(mem[p], s).node = Complete(mem[p], s).enrollment
      BY <1>t, CompleteType
    <2> DEFINE m == [Complete(mem[p], s) EXCEPT !.key = k]
    <2>3. m \in State /\ m.node = m.enrollment
      BY <2>2 DEF State
    <2> HIDE DEF m
    <2>4. \/ mem' = [mem EXCEPT ![p] = Complete(mem[p], s)]
          \/ mem' = [mem EXCEPT ![p] = m]
      BY <2>1 DEF m
    <2>5. mem'[p] = Complete(mem[p], s) \/ mem'[p] = m
      BY <1>t, <2>4
    <2> QED BY <1>1, <1>t, <2>1, <2>2, <2>3, <2>4, <2>5
  <1>4. ASSUME NEW p \in Proc, Record(p) PROVE Named'
    <2> DEFINE c == [mem[p] EXCEPT !.enrollment = answer[p], !.node = answer[p],
                                   !.digest = answer[p], !.bootstrap = answer[p]]
               m == Complete(c, "waiting_for_claim")
    <2>1. c \in State /\ c.node = c.enrollment
      BY <1>t DEF State
    <2>2. m \in State /\ m.node = m.enrollment
      <3> HIDE DEF c
      <3> QED BY <2>1, CompleteType DEF Step, Stages
    <2>3. mem' = [mem EXCEPT ![p] = m] /\ disk' = m
      BY <1>4 DEF Record, Save, Keep
    <2> HIDE DEF m
    <2> QED BY <1>1, <2>2, <2>3
  <1>5. ASSUME NEW p \in Proc, Finalize(p) PROVE Named'
    <2> DEFINE c == [mem[p] EXCEPT !.bootstrap = None, !.digest = None, !.key = None]
    <2>1. c \in State /\ c.node = c.enrollment
      BY <1>t DEF State
    <2>2. mem' = [mem EXCEPT ![p] = NewState] /\ disk' = Complete(c, "complete")
      BY <1>5 DEF Finalize, Keep
    <2> HIDE DEF c
    <2>3. disk'.node = disk'.enrollment
      BY <2>1, <2>2, CompleteType DEF Step, Stages
    <2> QED BY <1>t, <2>2, <2>3, NewStateType DEF NewState
  <1>6. ASSUME NEW p \in Proc, Refused(p) \/ Stop(p) PROVE Named'
    BY <1>t, <1>6 DEF Refused, Stop, Keep, NewState
  <1>7. ASSUME UNCHANGED <<mem, disk>> PROVE Named'
    BY <1>7
  <1>8. ASSUME NEW p \in Proc,
               \/ SendAutomatic(p) \/ SendCreate(p) \/ ReceiveAutomatic(p)
               \/ ReceiveDevice(p) \/ PollApproved(p) \/ ReportProgress(p)
               \/ RunStage(p) \/ WriteRoute(p) \/ StartTraefik(p) \/ InstallRelease(p)
               \/ WriteDigest(p) \/ WriteConfig(p) \/ RestartAgent(p)
               \/ InstallUpdate(p) \/ Uninstall(p) \/ ServeLive(p)
        PROVE  Named'
    BY <1>7, <1>8
       DEF SendAutomatic, SendCreate, ReceiveAutomatic, ReceiveDevice, PollApproved,
           ReportProgress, RunStage, WriteRoute, StartTraefik, InstallRelease,
           WriteDigest, WriteConfig, RestartAgent, InstallUpdate, Uninstall, ServeLive,
           runVars
  <1>9. CASE \/ ServeLate \/ AgentRestarts \/ UNCHANGED vars
             \/ \E e \in Enrollment : DashboardAlone(e)
    BY <1>7, <1>9 DEF ServeLate, AgentRestarts, DashboardAlone, vars, runVars
  <1> QED BY <1>2, <1>3, <1>4, <1>5, <1>6, <1>8, <1>9 DEF Next, Smooth, Work

(* The enrollment of the state file changes only when it was none or       *)
(* completed: seen from NodeLifecycle, only a claim changes the owner.     *)
LEMMA OwnerKept ==
  ASSUME IInv, LInv, Alone, IInv', [Next]_vars
  PROVE  \/ disk'.enrollment = disk.enrollment
         \/ disk.enrollment = None
         \/ dash[disk.enrollment] = "completed"
  <1>1. [Lifecycle!LifeNext]_(Lifecycle!lifeVars)
    BY LifecycleStep
  <1>2. disk'.enrollment = disk.enrollment \/ Phase # "claimed"
    BY <1>1 DEF Lifecycle!LifeNext, Lifecycle!lifeVars, Lifecycle!Claim,
                Lifecycle!Acknowledge, Lifecycle!Finalize
  <1>3. Phase # "claimed" => disk.enrollment = None \/ disk.bootstrap = None
    BY DEF Phase, Resumable
  <1> QED BY <1>2, <1>3 DEF IInv, Sound

(* What the host may serve it may go on serving.                           *)
LEMMA OwnedStays ==
  ASSUME IInv, LInv, Alone, IInv', [Next]_vars
  PROVE  \A x \in Enrollment \union {None} : Owned(x) => Owned(x)'
  BY OwnerKept, StepGrows DEF Grows, Owned

(* A loaded run works for the enrollment of the state file, which is one.  *)
LEMMA OwnerLoaded ==
  ASSUME IInv, LInv, Named, NEW p \in Proc, pc[p] \in Provisioning
  PROVE  /\ mem[p].node = disk.enrollment
         /\ mem[p].node # None
  BY LoadedIs, Locations DEF LInv, InStep, Named, IInv, Achieved, Sound, Loaded

(* Only the only run writes, for the enrollment of the state file; what    *)
(* restarts the Agent gives it what is installed.                          *)
LEMMA StepHostOwned ==
  ASSUME IInv, LInv, Named, HostOwned, Alone, IInv', [Next]_vars
  PROVE  HostOwned'
  <1> USE DEF Move, Goto, At
  <1>t. /\ TypeOK /\ pc \in [Proc -> Location] /\ config \in AgentConfig
        /\ route \in Enrollment \union {None}
        /\ config.node \in Enrollment \union {None}
        /\ config.digest \in Enrollment \union {None}
        /\ running # None =>
             /\ running.config.node \in Enrollment \union {None}
             /\ running.config.digest \in Enrollment \union {None}
    BY DEF IInv, TypeOK, AgentConfig, AgentImage
  <1>o. \A x \in Enrollment \union {None} : Owned(x) => Owned(x)'
    BY OwnedStays
  <1>h. /\ Owned(route)' \/ route' # route
        /\ Owned(config.node)' \/ config' # config
        /\ Owned(config.digest)' \/ config' # config
        /\ \/ running' # running \/ running = None
           \/ Owned(running.config.node)' /\ Owned(running.config.digest)'
    BY <1>t, <1>o DEF HostOwned, Owned
  <1>1. ASSUME UNCHANGED <<done, route, config, running>>,
               \A q \in Proc : pc'[q] = "container" => pc[q] = "container"
        PROVE  HostOwned'
    BY <1>h, <1>1 DEF HostOwned
  <1>2. ASSUME NEW p \in Proc, RunStage(p) PROVE HostOwned'
    <2>1. PICK s \in Stages \ {"traefik"} : done' = done \union {s}
      BY <1>2 DEF RunStage
    <2>2. /\ UNCHANGED <<route, config, running>>
          /\ \A q \in Proc : pc'[q] = "container" => pc[q] = "container"
      BY <1>t, <1>2 DEF RunStage
    <2> QED BY <1>h, <2>1, <2>2 DEF HostOwned
  <1>3. ASSUME NEW p \in Proc, WriteRoute(p) PROVE HostOwned'
    <2>1. route' = disk.enrollment /\ route' # None /\ disk' = disk
      BY <1>3, OwnerLoaded, Locations DEF WriteRoute
    <2>2. UNCHANGED <<done, config, running>>
      BY <1>3 DEF WriteRoute
    <2> QED BY <1>h, <2>1, <2>2 DEF HostOwned, Owned
  <1>4. ASSUME NEW p \in Proc, StartTraefik(p) PROVE HostOwned'
    <2>1. /\ route # None /\ UNCHANGED <<route, config, running>>
          /\ \A q \in Proc : pc'[q] = "container" => pc[q] = "container"
      BY <1>t, <1>4 DEF StartTraefik, HostOwned
    <2> QED BY <1>h, <2>1 DEF HostOwned
  <1>5. ASSUME NEW p \in Proc, WriteDigest(p) \/ WriteConfig(p) PROVE HostOwned'
    <2>1. /\ UNCHANGED <<done, route, running, disk>>
          /\ \A q \in Proc : pc'[q] = "container" => pc[q] = "container"
      BY <1>t, <1>5 DEF WriteDigest, WriteConfig
    <2>2. /\ mem[p].node = disk.enrollment /\ mem[p].node # None
          /\ mem[p].digest = mem[p].node
      BY <1>5, OwnerLoaded, Locations DEF WriteDigest, WriteConfig, IInv, Achieved, Sound
    <2>3. CASE WriteDigest(p)
      <3>1. config' = [config EXCEPT !.digest = mem[p].digest]
        BY <2>3 DEF WriteDigest
      <3>2. config'.digest = disk'.enrollment /\ config'.digest # None
            /\ config'.node = config.node
        BY <1>t, <2>1, <2>2, <3>1 DEF AgentConfig
      <3>3. Owned(config.node)' /\ Owned(config.digest)'
        BY <1>t, <1>o, <3>2 DEF HostOwned, Owned
      <3> QED BY <1>h, <2>1, <3>2, <3>3 DEF HostOwned
    <2>4. CASE WriteConfig(p)
      <3>1. config' = [config EXCEPT !.node = mem[p].node] /\ config.digest # None
        BY <2>4, Locations DEF WriteConfig, IInv, Achieved
      <3>2. config'.node = disk'.enrollment /\ config'.node # None
            /\ config'.digest = config.digest /\ config'.digest # None
        BY <1>t, <2>1, <2>2, <3>1 DEF AgentConfig
      <3>3. Owned(config.node)' /\ Owned(config.digest)'
        BY <1>t, <1>o, <3>2 DEF HostOwned, Owned
      <3> QED BY <1>h, <2>1, <3>2, <3>3 DEF HostOwned
    <2> QED BY <1>5, <2>3, <2>4
  <1>6. ASSUME UNCHANGED <<done, route, config>>,
               \A q \in Proc : pc'[q] = "container" => pc[q] = "container",
               \/ running' \in {running, None}
               \/ running' = InstalledImage /\ config.node # None
        PROVE  HostOwned'
    <2>1. Owned(config.node)' /\ Owned(config.digest)'
      BY <1>h, <1>6
    <2>2. InstalledImage.config = config
      BY DEF InstalledImage
    <2>3. running' # None =>
            /\ config'.node # None
            /\ running'.config.node # None /\ running'.config.digest # None
            /\ Owned(running.config.node)' /\ Owned(running.config.digest)'
      BY <1>h, <1>6, <2>1, <2>2 DEF HostOwned, Owned
    <2> QED BY <1>h, <1>6, <2>1, <2>3 DEF HostOwned
  <1>7. ASSUME NEW p \in Proc, EnableAgent(p) PROVE HostOwned'
    <2>1. config.node # None
      BY <1>7 DEF EnableAgent, IInv, Achieved, Reporting
    <2> QED BY <1>t, <1>6, <1>7, <2>1 DEF EnableAgent
  <1>8. ASSUME NEW p \in Proc, RestartAgent(p) PROVE HostOwned'
    BY <1>t, <1>6, <1>8 DEF RestartAgent
  <1>9. ASSUME NEW p \in Proc, Uninstall(p) PROVE HostOwned'
    BY <1>6, <1>9 DEF Uninstall, runVars
  <1>10. CASE AgentRestarts
    BY <1>6, <1>10 DEF AgentRestarts, runVars, HostOwned
  <1>11. ASSUME NEW p \in Proc,
                \/ Launch(p) \/ Preflight(p) \/ SendAutomatic(p) \/ SendCreate(p)
                \/ ReceiveAutomatic(p) \/ ReceiveDevice(p) \/ PollApproved(p)
                \/ Record(p) \/ ReportProgress(p) \/ SaveStage(p) \/ InstallRelease(p)
                \/ ApplyFirewall(p) \/ Validate(p) \/ Finalize(p) \/ Refused(p)
                \/ InstallUpdate(p) \/ Stop(p)
         PROVE  HostOwned'
    <2>1. UNCHANGED <<done, route, config, running>>
      BY <1>11
         DEF Launch, Preflight, SendAutomatic, SendCreate, ReceiveAutomatic,
             ReceiveDevice, PollApproved, Record, ReportProgress, SaveStage,
             InstallRelease, ApplyFirewall, Validate, Finalize, Refused,
             InstallUpdate, Stop, hostVars
    <2>2. \E l \in Location \ {"container"} : pc' = [pc EXCEPT ![p] = l]
      <3>1. ASSUME NEW m PROVE AfterStage(m) \in Location \ {"container"}
        BY DEF AfterStage, Location
      <3> QED BY <1>11, <3>1
                 DEF Launch, Preflight, SendAutomatic, SendCreate, ReceiveAutomatic,
                     ReceiveDevice, PollApproved, Record, ReportProgress, SaveStage,
                     InstallRelease, ApplyFirewall, Validate, Finalize, Refused,
                     InstallUpdate, Stop, Location
    <2> QED BY <1>t, <1>1, <2>1, <2>2
  <1>12. ASSUME NEW p \in Proc, ServeLive(p) PROVE HostOwned'
    BY <1>1, <1>12 DEF ServeLive, hostVars
  <1>13. CASE ServeLate \/ UNCHANGED vars \/ (\E e \in Enrollment : DashboardAlone(e))
    BY <1>1, <1>13 DEF ServeLate, DashboardAlone, vars, hostVars, runVars
  <1> QED BY <1>2, <1>3, <1>4, <1>5, <1>7, <1>8, <1>9, <1>10, <1>11, <1>12, <1>13
             DEF Next, Smooth, Work

(* installer.go:173-276: until a second enrollment is completed, the route *)
(* and the live Agent of a finalized host are those of its enrollment,     *)
(* whatever crashed, was repeated or was updated on the way there.         *)
THEOREM HostServesItsFirstEnrollment == Alone /\ Spec => []FirstEnrollmentServed
  <1> SUFFICES ASSUME Alone PROVE Spec => []FirstEnrollmentServed
    OBVIOUS
  <1>1. Init => LInv /\ Named /\ HostOwned
    BY InitLInv, InitServed
  <1>2. IInv /\ IInv' /\ LInv /\ Named /\ HostOwned /\ [Next]_vars =>
          LInv' /\ Named' /\ HostOwned'
    BY LifecycleStep, StepNamed, StepHostOwned
  <1>3. IInv /\ Named /\ HostOwned => FirstEnrollmentServed
    <2> SUFFICES ASSUME IInv, Named, HostOwned,
                        \A e \in Enrollment : dash[e] = "completed" => e = disk.enrollment,
                        disk.enrollment # None, disk.bootstrap = None, running # None
                 PROVE  /\ route = disk.node
                        /\ running.config = [node |-> disk.node, digest |-> disk.node]
      BY DEF FirstEnrollmentServed
    <2>1. disk.enrollment \in Enrollment /\ dash[disk.enrollment] = "completed"
      BY DEF IInv, TypeOK, State, Sound
    <2>2. "traefik" \in done
      BY <2>1 DEF IInv, CompletedNodeProvisioned, Stages
    <2>3. \A x \in Enrollment \union {None} : Owned(x) /\ x # None => x = disk.node
      BY DEF Owned, Named
    <2>4. route = disk.node
      BY <2>2, <2>3 DEF HostOwned, IInv, TypeOK
    <2>5. /\ running.config \in AgentConfig
          /\ running.config.node = disk.node /\ running.config.digest = disk.node
      BY <2>3 DEF HostOwned, IInv, TypeOK, AgentImage, AgentConfig
    <2> QED BY <2>4, <2>5 DEF AgentConfig
  <1> QED BY <1>1, <1>2, <1>3, Invariance, PTL DEF Spec
=============================================================================
