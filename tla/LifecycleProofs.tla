-------------------------- MODULE LifecycleProofs --------------------------
(***************************************************************************)
(* When runs do not overlap, the installer implements NodeLifecycle: the   *)
(* state file never drops an enrollment that can still be resumed; and it  *)
(* implements StageLedger: the stages are performed and recorded in order. *)
(***************************************************************************)
EXTENDS InstallerProofs

(* At most one run at a time.                                              *)
Alone == \A p, q \in Proc : p = q

Loaded == {"preflight"} \union Provisioning
Asking == {"enroll", "automatic", "device", "poll", "record"}

(* The reports still under way of enrollment e.                            *)
ReportOf(e) == {r \in late : r.type = "finish" /\ r.enrollment = e}

(* A run works on the enrollment of the state file, or asks for one        *)
(* because the file has none to resume; what it is offered is new; and a   *)
(* late report is of the enrollment of the file or of one acknowledged.    *)
InStep ==
  \A p \in Proc :
    /\ pc[p] \in Loaded => /\ mem[p].enrollment = disk.enrollment
                           /\ mem[p].bootstrap = disk.bootstrap
    /\ pc[p] \in Asking => ~Resumable(disk)
    /\ (pc[p] \in Asking /\ answer[p] # None) =>
         /\ dash[answer[p]] # "completed"
         /\ ReportOf(answer[p]) = {}

LateAccounted ==
  \A r \in late : r.type = "finish" =>
    /\ r.enrollment \in Enrollment
    /\ \/ dash[r.enrollment] = "completed"
       \/ /\ dash[r.enrollment] = "approved"
          /\ disk.enrollment = r.enrollment
          /\ Resumable(disk)

LInv == InStep /\ LateAccounted

-----------------------------------------------------------------------------
(* What a step of the only run does to the state file                      *)

(* Completing steps and drawing a key leave the identity alone.            *)
SameOwner == disk'.enrollment = disk.enrollment /\ disk'.bootstrap = disk.bootstrap

SameCompletions == \A e \in Enrollment : dash'[e] = "completed" <=> dash[e] = "completed"

(* No run is alive and no report is under way at first.                    *)
LEMMA InitLInv == Init => LInv
  BY DEF Init, LInv, InStep, LateAccounted, Loaded, Asking, Provisioning, Provisioned,
         Releasing, Configuring, Reporting

(* Where a run works on the state it loaded.                               *)
LEMMA LoadedIs ==
  \A l : l \in Loaded <=> l \in {"preflight", "stage", "stage_run", "container",
                              "stage_save", "release", "digest", "configure", "firewall",
                              "enable", "validate", "finish"}
  BY Locations DEF Loaded

(* A run that has nothing in memory keeps LInv when the state file, the    *)
(* Dashboard's record and the late requests stay.                          *)
LEMMA Quiet ==
  ASSUME IInv, LInv, Alone, NEW p \in Proc, pc'[p] \in {"idle", "restart"},
         SameOwner, dash' = dash, late' \subseteq late
  PROVE  LInv'
  <1>1. InStep'
    BY LoadedIs DEF Alone, InStep, Asking
  <1>2. LateAccounted'
    BY DEF LInv, LateAccounted, SameOwner, Resumable
  <1> QED BY <1>1, <1>2 DEF LInv

(* A loaded run that saves what it has in memory, or saves nothing.        *)
LEMMA Working ==
  ASSUME IInv, LInv, Alone, NEW p \in Proc, pc'[p] \in Loaded,
         mem'[p].enrollment = disk.enrollment, mem'[p].bootstrap = disk.bootstrap,
         SameOwner, dash' = dash, late' = late
  PROVE  LInv'
  <1>1. InStep'
    BY LoadedIs DEF Alone, InStep, Asking, SameOwner
  <1>2. LateAccounted'
    BY DEF LInv, LateAccounted, SameOwner, Resumable
  <1> QED BY <1>1, <1>2 DEF LInv

(* A run that asks for an enrollment does not touch the state file.        *)
LEMMA Enrolling ==
  ASSUME IInv, LInv, Alone, NEW p \in Proc, pc[p] \in Asking, pc'[p] \in Asking,
         answer' = answer, disk' = disk, dash' = dash, late' = late
  PROVE  LInv'
  <1>1. InStep'
    BY LoadedIs DEF Alone, InStep, LInv, Asking, Resumable, ReportOf
  <1>2. LateAccounted'
    BY DEF LInv, LateAccounted, Resumable
  <1> QED BY <1>1, <1>2 DEF LInv

(* A step of the only run keeps it in step with the state file; only       *)
(* Record and Finalize change what the file says of the identity.          *)
LEMMA WorkLInv ==
  ASSUME IInv, LInv, Alone, IInv', NEW p \in Proc,
         Work(p) \/ InstallUpdate(p) \/ Uninstall(p)
  PROVE  /\ LInv'
         /\ ~Record(p) /\ ~Finalize(p) => SameOwner
         /\ dash' = dash
  <1> USE DEF Move, Goto, At
  <1>t. /\ TypeOK /\ pc \in [Proc -> Location] /\ mem \in [Proc -> State]
        /\ answer \in [Proc -> Enrollment \union {None}] /\ mem[p] \in State
    BY DEF IInv, TypeOK
  <1>1. CASE Launch(p)
    <2>1. PICK n \in Size : mem' = [mem EXCEPT ![p] = [disk EXCEPT !.size = n]]
      BY <1>1 DEF Launch, Keep
    <2>2. /\ mem'[p].enrollment = disk.enrollment /\ mem'[p].bootstrap = disk.bootstrap
          /\ pc'[p] = "preflight" /\ disk' = disk /\ dash' = dash /\ late' = late
      BY <1>t, <1>1, <2>1 DEF Launch, dashVars, TypeOK, State
    <2>3. SameOwner
      BY <2>2 DEF SameOwner
    <2> QED BY <2>2, <2>3, Working, LoadedIs
  <1>2. CASE Preflight(p)
    <2> DEFINE m == Complete(mem[p], "preflight")
    <2>1. m.enrollment = mem[p].enrollment /\ m.bootstrap = mem[p].bootstrap /\ m \in State
      BY <1>t, CompleteType DEF Step, Stages
    <2>2. mem[p].enrollment = disk.enrollment /\ mem[p].bootstrap = disk.bootstrap
      BY <1>2, LoadedIs DEF Preflight, LInv, InStep
    <2>3. /\ pc' = [pc EXCEPT ![p] = IF Resumable(m) THEN AfterStage(m) ELSE "enroll"]
          /\ mem' = [mem EXCEPT ![p] = m] /\ disk' = m /\ dash' = dash /\ late' = late
          /\ answer' = answer /\ pc[p] = "preflight"
      BY <1>2 DEF Preflight, Save, Keep, dashVars
    <2> HIDE DEF m
    <2>4. SameOwner /\ mem'[p] = m
      BY <1>t, <2>1, <2>2, <2>3 DEF SameOwner
    <2>5. CASE Resumable(m)
      <3>1. pc'[p] \in {"stage", "release"}
        BY <1>t, <2>1, <2>3, <2>5, AfterStageWhere
      <3> QED BY <2>1, <2>2, <2>3, <2>4, <3>1, Working, LoadedIs
    <2>6. CASE ~Resumable(m)
      <3>1. pc'[p] = "enroll" /\ answer'[p] = None /\ ~Resumable(disk)'
        BY <1>t, <2>3, <2>6 DEF IInv, Answered, Resumable
      <3>2. InStep'
        BY <3>1, LoadedIs DEF Alone, InStep, Asking
      <3>3. LateAccounted'
        BY <2>3, <2>4 DEF LInv, LateAccounted, SameOwner, Resumable
      <3> QED BY <2>3, <2>4, <3>2, <3>3 DEF LInv
    <2> QED BY <2>5, <2>6
  <1>3. CASE SendAutomatic(p) \/ SendCreate(p) \/ ReceiveAutomatic(p) \/ ReceiveDevice(p)
             \/ PollApproved(p)
    <2>1. /\ answer' = answer /\ disk' = disk /\ dash' = dash /\ late' = late
          /\ pc[p] \in Asking /\ pc'[p] \in Asking
      BY <1>t, <1>3 DEF SendAutomatic, SendCreate, ReceiveAutomatic, ReceiveDevice,
                        PollApproved, dashVars, Asking
    <2> QED BY <2>1, Enrolling DEF SameOwner
  <1>4. CASE Record(p)
    <2> DEFINE c == [mem[p] EXCEPT !.enrollment = answer[p], !.node = answer[p],
                                   !.digest = answer[p], !.bootstrap = answer[p]]
               m == Complete(c, "waiting_for_claim")
    <2>1. answer[p] \in Enrollment /\ pc[p] = "record"
      BY <1>t, <1>4 DEF Record, IInv, Answered
    <2>2. c \in State /\ c.enrollment = answer[p] /\ c.bootstrap = answer[p]
      BY <1>t DEF State
    <2>3. m \in State /\ m.enrollment = answer[p] /\ m.bootstrap = answer[p]
      <3> HIDE DEF c
      <3> QED BY <2>2, CompleteType DEF Step, Stages
    <2>4. /\ pc' = [pc EXCEPT ![p] = AfterStage(m)] /\ mem' = [mem EXCEPT ![p] = m]
          /\ disk' = m /\ dash' = dash /\ late' = late
      BY <1>4 DEF Record, Save, Keep, dashVars
    <2>5. ~Resumable(disk)
      BY <2>1 DEF LInv, InStep, Asking
    <2> HIDE DEF m
    <2>6. mem'[p] = disk' /\ pc'[p] \in {"stage", "release"}
      BY <1>t, <2>3, <2>4, AfterStageWhere
    <2>7. InStep'
      BY <2>6, LoadedIs DEF Alone, InStep, Asking
    <2>8. LateAccounted'
      BY <2>4, <2>5 DEF LInv, LateAccounted
    <2> QED BY <1>4, <2>4, <2>7, <2>8 DEF LInv
  <1>5. CASE \/ ReportProgress(p) \/ RunStage(p) \/ WriteRoute(p) \/ StartTraefik(p)
             \/ InstallRelease(p) \/ WriteDigest(p) \/ WriteConfig(p)
    <2>1. /\ mem' = mem /\ disk' = disk /\ dash' = dash /\ late' = late
          /\ pc[p] \in Loaded /\ pc'[p] \in Loaded
      BY <1>t, <1>5, LoadedIs
         DEF ReportProgress, ShowProgress, RunStage, WriteRoute, StartTraefik,
             InstallRelease, WriteDigest, WriteConfig, dashVars
    <2>2. mem[p].enrollment = disk.enrollment /\ mem[p].bootstrap = disk.bootstrap
      BY <2>1 DEF LInv, InStep
    <2>3. SameOwner
      BY <2>1 DEF SameOwner
    <2> QED BY <2>1, <2>2, <2>3, Working
  <1>6. CASE SaveStage(p) \/ ApplyFirewall(p) \/ EnableAgent(p) \/ Validate(p)
    <2>1. /\ pc[p] \in Loaded /\ dash' = dash /\ late' = late
          /\ disk' = disk \/ disk' = mem'[p]
      BY <1>t, <1>6, LoadedIs
         DEF SaveStage, ApplyFirewall, EnableAgent, Validate, Save, Keep, dashVars
    <2>2. mem[p].enrollment = disk.enrollment /\ mem[p].bootstrap = disk.bootstrap
      BY <2>1 DEF LInv, InStep
    <2>3. PICK s \in Step, k \in Key \union {None} :
             mem'[p] = Complete(mem[p], s) \/ mem'[p] = [Complete(mem[p], s) EXCEPT !.key = k]
      BY <1>t, <1>6 DEF SaveStage, ApplyFirewall, EnableAgent, Validate, Save, Keep, Step, Stages
    <2>4. /\ Complete(mem[p], s) \in State
          /\ Complete(mem[p], s).enrollment = mem[p].enrollment
          /\ Complete(mem[p], s).bootstrap = mem[p].bootstrap
      BY <1>t, CompleteType
    <2>5. mem'[p].enrollment = disk.enrollment /\ mem'[p].bootstrap = disk.bootstrap
      BY <2>2, <2>3, <2>4 DEF State
    <2>6. SameOwner
      BY <2>1, <2>5 DEF SameOwner
    <2>7. pc'[p] \in Loaded
      BY <1>t, <1>6, LoadedIs DEF SaveStage, ApplyFirewall, EnableAgent, Validate, AfterStage
    <2> QED BY <2>1, <2>5, <2>6, <2>7, Working
  <1>7. CASE Finalize(p)
    <2>1. pc[p] = "finish" /\ answer[p] # None /\ pc'[p] = "idle" /\ late' = late /\ dash' = dash
      BY <1>t, <1>7 DEF Finalize, dashVars
    <2>2. dash[disk.enrollment] = "completed"
      BY <2>1, LoadedIs DEF IInv, Answered, LInv, InStep
    <2>3. LateAccounted'
      BY <2>1, <2>2 DEF LInv, LateAccounted
    <2>4. InStep'
      BY <2>1, LoadedIs DEF Alone, InStep, Asking
    <2> QED BY <1>7, <2>1, <2>3, <2>4 DEF LInv
  <1>8. CASE Refused(p) \/ RestartAgent(p) \/ InstallUpdate(p) \/ Uninstall(p)
    <2>1. disk' = disk /\ dash' = dash /\ late' = late /\ pc'[p] \in {"idle", "restart"}
      BY <1>t, <1>8 DEF Refused, RestartAgent, InstallUpdate, Uninstall, dashVars, runVars
    <2> QED BY <2>1, Quiet DEF SameOwner
  <1> QED BY <1>1, <1>2, <1>3, <1>4, <1>5, <1>6, <1>7, <1>8 DEF Work

(* A stop forgets the memory and may leave one report under way.           *)
LEMMA StopLInv ==
  ASSUME IInv, LInv, Alone, NEW p \in Proc, Stop(p)
  PROVE  LInv' /\ SameOwner /\ dash' = dash
  <1>1. /\ pc' = [pc EXCEPT ![p] = "idle"] /\ disk' = disk /\ dash' = dash
        /\ late' = late \/ (Waiting(p) /\ late' = late \union {Outstanding(p)})
    BY DEF Stop, Goto, dashVars
  <1>2. pc'[p] = "idle" /\ SameOwner
    BY <1>1 DEF IInv, TypeOK, SameOwner
  <1>3. InStep'
    BY <1>2, LoadedIs DEF Alone, InStep, Asking
  <1>4. CASE late' = late
    BY <1>1, <1>2, <1>4, Quiet
  <1>5. CASE Waiting(p) /\ late' = late \union {Outstanding(p)}
    <2>1. ASSUME Outstanding(p).type = "finish"
          PROVE  /\ Outstanding(p).enrollment = disk.enrollment
                 /\ disk.enrollment \in Enrollment /\ Resumable(disk)
                 /\ dash[disk.enrollment] \in {"approved", "completed"}
      <3>1. pc[p] = "finish" /\ Outstanding(p).enrollment = mem[p].enrollment
        BY <1>5, <2>1 DEF Outstanding, Ask, Waiting
      <3>2. mem[p].enrollment = disk.enrollment /\ mem[p].bootstrap = disk.bootstrap
        BY <3>1, LoadedIs DEF LInv, InStep
      <3>3. mem[p].bootstrap # None
        BY <3>1, Locations DEF IInv, Achieved
      <3>4. /\ disk.enrollment = disk.bootstrap /\ disk.bootstrap # None
            /\ dash[disk.enrollment] \in {"approved", "completed"}
        BY <3>2, <3>3 DEF IInv, Sound, Vouched
      <3> QED BY <3>1, <3>2, <3>4 DEF IInv, TypeOK, State, Resumable
    <2>2. LateAccounted'
      BY <1>1, <1>5, <2>1 DEF LInv, LateAccounted, Resumable
    <2> QED BY <1>1, <1>2, <1>3, <2>2 DEF LInv
  <1> QED BY <1>1, <1>4, <1>5

(* A reply, early or late, completes only the enrollment of the state file *)
(* or one that already is, and offers only a new one.                      *)
LEMMA ServeLInv ==
  ASSUME IInv, LInv, Alone, IInv', ServeLate \/ (\E p \in Proc : ServeLive(p))
  PROVE  /\ LInv' /\ SameOwner
         /\ \/ SameCompletions
            \/ /\ Resumable(disk)
               /\ \A e \in Enrollment :
                    dash'[e] = "completed" <=> (dash[e] = "completed" \/ e = disk.enrollment)
  <1>t. /\ TypeOK /\ pc \in [Proc -> Location] /\ dash \in [Enrollment -> Status]
        /\ answer \in [Proc -> Enrollment \union {None}]
    BY DEF IInv, TypeOK, DashTypeOK
  <1>1. /\ pc' = pc /\ mem' = mem /\ disk' = disk /\ late' \subseteq late
        /\ SameOwner
    BY DEF ServeLive, ServeLate, hostVars, SameOwner
  <1>2. ASSUME NEW r \in Request, NEW e \in Enrollment, Serve(r, e), r.type # "finish"
        PROVE  /\ dash[e] = "free" /\ dash'[e] \in {"approved", "pending"}
               /\ \A d \in Enrollment \ {e} : dash'[d] = dash[d]
               /\ SameCompletions
    BY <1>t, <1>2 DEF Serve, ServeAutomatic, ServeDevice, ServeComplete, SameCompletions
  <1>3. ASSUME NEW r \in Request, NEW e \in Enrollment, Serve(r, e), r.type = "finish"
        PROVE  /\ r.enrollment = e /\ dash[e] \in {"approved", "completed"}
               /\ dash'[e] = "completed"
               /\ \A d \in Enrollment \ {e} : dash'[d] = dash[d]
    BY <1>t, <1>3 DEF Serve, ServeAutomatic, ServeDevice, ServeComplete, Acceptable
  <1>4. ASSUME NEW e \in Enrollment, dash[e] = "free" PROVE ReportOf(e) = {}
    BY <1>4 DEF LInv, LateAccounted, ReportOf
  <1>5. CASE ServeLate
    <2>1. PICK r \in late, e \in Enrollment : Serve(r, e)
      BY <1>5 DEF ServeLate
    <2>2. r \in Request /\ answer' = answer
      BY <1>t, <1>5 DEF TypeOK, ServeLate
    <2>3. CASE r.type # "finish"
      <3>1. LateAccounted'
        BY <1>1, <1>2, <2>1, <2>2, <2>3 DEF LInv, LateAccounted, Resumable
      <3>2. InStep'
        BY <1>t, <1>1, <1>2, <2>1, <2>2, <2>3 DEF LInv, InStep, ReportOf, Resumable
      <3> QED BY <1>1, <1>2, <2>1, <2>2, <2>3, <3>1, <3>2 DEF LInv
    <2>4. CASE r.type = "finish"
      <3>1. /\ r.enrollment = e /\ dash'[e] = "completed"
            /\ \A d \in Enrollment \ {e} : dash'[d] = dash[d]
        BY <1>3, <2>1, <2>2, <2>4
      <3>2. dash[e] = "completed" \/ (Resumable(disk) /\ e = disk.enrollment)
        BY <2>4, <3>1 DEF LInv, LateAccounted
      <3>3. LateAccounted'
        BY <1>1, <3>1 DEF LInv, LateAccounted, Resumable
      <3>4. \A q \in Proc : (pc[q] \in Asking /\ answer[q] # None) => answer[q] # e
        BY <2>4, <3>1 DEF LInv, InStep, ReportOf
      <3>5. InStep'
        BY <1>t, <1>1, <2>2, <3>1, <3>4 DEF LInv, InStep, ReportOf, Resumable
      <3> QED BY <1>1, <3>1, <3>2, <3>3, <3>5 DEF LInv, SameCompletions
    <2> QED BY <2>3, <2>4
  <1>6. ASSUME NEW p \in Proc, ServeLive(p) PROVE
          /\ LInv'
          /\ \/ SameCompletions
             \/ /\ Resumable(disk)
                /\ \A e \in Enrollment :
                     dash'[e] = "completed" <=> (dash[e] = "completed" \/ e = disk.enrollment)
    <2>1. PICK e \in Enrollment : /\ Waiting(p) /\ Serve(Outstanding(p), e)
                                  /\ answer' = [answer EXCEPT ![p] = e]
      BY <1>6 DEF ServeLive
    <2>2. Outstanding(p) \in Request /\ late' = late
      BY <1>t, <1>6, <2>1, OutstandingType DEF ServeLive
    <2>3. CASE pc[p] # "finish"
      <3>1. Outstanding(p).type # "finish"
        BY <2>1, <2>3 DEF Outstanding, Ask, Waiting
      <3>2. /\ dash[e] = "free" /\ dash'[e] \in {"approved", "pending"}
            /\ \A d \in Enrollment \ {e} : dash'[d] = dash[d]
            /\ SameCompletions
        BY <1>2, <2>1, <2>2, <3>1
      <3>3. LateAccounted'
        BY <1>1, <2>2, <3>2 DEF LInv, LateAccounted, Resumable
      <3>4. ReportOf(e)' = {} /\ answer'[p] = e
        BY <1>t, <1>4, <2>1, <2>2, <3>2 DEF ReportOf
      <3>5. InStep'
        BY <1>1, <3>2, <3>4 DEF Alone, LInv, InStep, Resumable
      <3> QED BY <3>2, <3>3, <3>5 DEF LInv
    <2>4. CASE pc[p] = "finish"
      <3>1. Outstanding(p).type = "finish" /\ Outstanding(p).enrollment = mem[p].enrollment
        BY <2>4 DEF Outstanding
      <3>2. /\ e = mem[p].enrollment /\ dash'[e] = "completed"
            /\ \A d \in Enrollment \ {e} : dash'[d] = dash[d]
        BY <1>3, <2>1, <2>2, <3>1
      <3>3. e = disk.enrollment /\ mem[p].bootstrap = disk.bootstrap
        BY <2>4, <3>2, LoadedIs DEF LInv, InStep
      <3>4. mem[p].bootstrap # None
        BY <2>4, Locations DEF IInv, Achieved
      <3>5. Resumable(disk)
        BY <3>3, <3>4, NoneAssumption DEF Resumable
      <3>6. LateAccounted'
        BY <1>1, <2>2, <3>2 DEF LInv, LateAccounted, Resumable
      <3>7. InStep'
        BY <1>1, <2>4 DEF Alone, LInv, InStep, Asking
      <3> QED BY <3>2, <3>3, <3>5, <3>6, <3>7 DEF LInv
    <2> QED BY <2>3, <2>4
  <1> QED BY <1>1, <1>5, <1>6

-----------------------------------------------------------------------------
(* The refinement                                                          *)

(* What neither changes the identity on disk nor completes an enrollment   *)
(* is a stutter of NodeLifecycle.                                          *)
LEMMA StutterStep ==
  ASSUME SameOwner, SameCompletions
  PROVE  UNCHANGED Lifecycle!lifeVars
  BY DEF SameOwner, SameCompletions, Lifecycle!lifeVars, Phase, Acknowledged, Resumable

(* The initial states are initial states of NodeLifecycle.                 *)
LEMMA LifecycleInit == Init => Lifecycle!LifeInit
  <1> SUFFICES ASSUME Init PROVE Lifecycle!LifeInit
    OBVIOUS
  <1>1. disk.enrollment = None
    BY DEF Init, NewState
  <1>2. Acknowledged = {}
    <2>1. \A e \in Enrollment : dash[e] # "completed"
      BY DEF Init, DashInit
    <2> QED BY <2>1 DEF Acknowledged
  <1>3. Phase = "unclaimed"
    <2>1. ~Resumable(disk)
      BY <1>1 DEF Resumable
    <2> HIDE DEF Init
    <2> QED BY <1>1, <2>1 DEF Phase
  <1> QED BY <1>1, <1>2, <1>3 DEF Lifecycle!LifeInit

(* Every step is a step of NodeLifecycle or a stutter: Record claims,      *)
(* an accepted report acknowledges, Finalize finalizes.                    *)
LEMMA LifecycleStep ==
  ASSUME IInv, LInv, Alone, IInv', [Next]_vars
  PROVE  LInv' /\ [Lifecycle!LifeNext]_(Lifecycle!lifeVars)
  <1>t. TypeOK
    BY DEF IInv
  <1>1. ASSUME dash' = dash PROVE SameCompletions
    BY <1>1 DEF SameCompletions
  <1>2. ASSUME NEW p \in Proc, Work(p) \/ InstallUpdate(p) \/ Uninstall(p)
        PROVE  LInv' /\ [Lifecycle!LifeNext]_(Lifecycle!lifeVars)
    <2>1. LInv' /\ dash' = dash /\ (~Record(p) /\ ~Finalize(p) => SameOwner)
      BY <1>2, WorkLInv
    <2>2. CASE Record(p)
      <3>1. pc[p] = "record" /\ answer[p] \in Enrollment
        BY <1>t, <2>2 DEF Record, Move, At, IInv, Answered, TypeOK
      <3>2. ~Resumable(disk) /\ dash[answer[p]] # "completed"
        BY <3>1, NoneAssumption DEF LInv, InStep, Asking
      <3> DEFINE c == [mem[p] EXCEPT !.enrollment = answer[p], !.node = answer[p],
                                     !.digest = answer[p], !.bootstrap = answer[p]]
      <3>3. c \in State /\ c.enrollment = answer[p] /\ c.bootstrap = answer[p]
        BY <1>t DEF State, TypeOK
      <3>4. disk' = Complete(c, "waiting_for_claim")
        BY <2>2 DEF Record, Save
      <3> HIDE DEF c
      <3>5. disk'.enrollment = answer[p] /\ disk'.bootstrap = answer[p]
        BY <3>3, <3>4, CompleteType DEF Step, Stages
      <3>6. Phase # "claimed" /\ Phase' = "claimed"
        BY <3>1, <3>2, <3>5, NoneAssumption DEF Phase, Resumable
      <3>7. answer[p] \notin Acknowledged /\ Acknowledged' = Acknowledged
        BY <2>1, <3>2 DEF Acknowledged
      <3>8. Lifecycle!Claim(answer[p])
        BY <3>5, <3>6, <3>7 DEF Lifecycle!Claim
      <3> QED BY <2>1, <3>1, <3>8 DEF Lifecycle!LifeNext
    <2>3. CASE Finalize(p)
      <3>1. mem[p] \in State /\ pc[p] = "finish" /\ answer[p] # None
        BY <1>t, <2>3 DEF Finalize, Move, At, TypeOK
      <3>2. /\ mem[p].enrollment = disk.enrollment /\ mem[p].bootstrap = disk.bootstrap
            /\ mem[p].bootstrap # None /\ dash[mem[p].enrollment] = "completed"
        BY <3>1, LoadedIs, Locations DEF LInv, InStep, IInv, Achieved, Answered
      <3>3. disk.enrollment \in Enrollment /\ disk.enrollment # None /\ Resumable(disk)
        BY <1>t, <3>2 DEF IInv, Sound, TypeOK, State, Resumable
      <3> DEFINE c == [mem[p] EXCEPT !.bootstrap = None, !.digest = None, !.key = None]
      <3>4. c \in State /\ c.enrollment = mem[p].enrollment /\ c.bootstrap = None
        BY <3>1 DEF State
      <3>5. disk' = Complete(c, "complete")
        BY <2>3 DEF Finalize
      <3> HIDE DEF c
      <3>6. disk'.enrollment = disk.enrollment /\ disk'.bootstrap = None
        BY <3>2, <3>4, <3>5, CompleteType DEF Step, Stages
      <3>7. Phase = "claimed" /\ Phase' = "finalized"
        BY <3>3, <3>6 DEF Phase, Resumable
      <3>8. disk.enrollment \in Acknowledged /\ Acknowledged' = Acknowledged
        BY <2>1, <3>2, <3>3 DEF Acknowledged
      <3>9. Lifecycle!Finalize
        BY <3>6, <3>7, <3>8 DEF Lifecycle!Finalize
      <3> QED BY <2>1, <3>9 DEF Lifecycle!LifeNext
    <2> QED BY <1>1, <2>1, <2>2, <2>3, StutterStep
  <1>3. ASSUME NEW p \in Proc, Stop(p)
        PROVE  LInv' /\ [Lifecycle!LifeNext]_(Lifecycle!lifeVars)
    BY <1>1, <1>3, StopLInv, StutterStep
  <1>4. ASSUME ServeLate \/ (\E p \in Proc : ServeLive(p))
        PROVE  LInv' /\ [Lifecycle!LifeNext]_(Lifecycle!lifeVars)
    <2>1. CASE SameCompletions
      BY <1>4, <2>1, ServeLInv, StutterStep
    <2>2. CASE /\ Resumable(disk)
               /\ \A e \in Enrollment :
                    dash'[e] = "completed" <=> (dash[e] = "completed" \/ e = disk.enrollment)
      <3>1. LInv' /\ SameOwner
        BY <1>4, ServeLInv
      <3>2. disk.enrollment \in Enrollment /\ Phase = "claimed" /\ Phase' = Phase
        BY <1>t, <2>2, <3>1 DEF Resumable, Phase, SameOwner, TypeOK, State
      <3>3. Acknowledged' = Acknowledged \union {disk.enrollment}
        BY <2>2, <3>2 DEF Acknowledged
      <3>4. Lifecycle!Acknowledge
        BY <3>1, <3>2, <3>3 DEF Lifecycle!Acknowledge, SameOwner
      <3> QED BY <3>1, <3>4 DEF Lifecycle!LifeNext
    <2> QED BY <1>4, <2>1, <2>2, ServeLInv
  <1>5. ASSUME UNCHANGED <<pc, mem, answer, disk, late>>,
               dash' = dash \/ (\E e \in Enrollment : OperatorAnswers(e))
        PROVE  LInv' /\ [Lifecycle!LifeNext]_(Lifecycle!lifeVars)
    <2>1. /\ \A e \in Enrollment : dash[e] \in {"approved", "completed"} => dash'[e] = dash[e]
          /\ SameCompletions /\ SameOwner
      BY <1>t, <1>5 DEF OperatorAnswers, TypeOK, DashTypeOK, SameCompletions, SameOwner
    <2>2. LateAccounted'
      BY <1>5, <2>1 DEF LInv, LateAccounted, Resumable
    <2>3. InStep'
      BY <1>t, <1>5, <2>1 DEF LInv, InStep, ReportOf, Resumable, SameCompletions, TypeOK
    <2> QED BY <2>1, <2>2, <2>3, StutterStep DEF LInv
  <1>6. ASSUME NEW e \in Enrollment, DashboardAlone(e)
        PROVE  LInv' /\ [Lifecycle!LifeNext]_(Lifecycle!lifeVars)
    BY <1>5, <1>6 DEF DashboardAlone, OperatorAnswers, BootstrapExpires, runVars
  <1>7. CASE AgentRestarts \/ UNCHANGED vars
    BY <1>5, <1>7 DEF AgentRestarts, vars, runVars, dashVars
  <1> QED BY <1>2, <1>3, <1>4, <1>6, <1>7 DEF Next, Smooth

(* When at most one run is alive at a time, whatever crashes, late replies *)
(* and operators do, the state file keeps the promise of NodeLifecycle.    *)
THEOREM LifecycleRefinement == Alone /\ Spec => LifecycleSpec
  <1> SUFFICES ASSUME Alone PROVE Spec => LifecycleSpec
    OBVIOUS
  <1>1. Init => LInv /\ Lifecycle!LifeInit
    BY InitLInv, LifecycleInit
  <1>2. IInv /\ IInv' /\ LInv /\ [Next]_vars =>
          LInv' /\ [Lifecycle!LifeNext]_(Lifecycle!lifeVars)
    BY LifecycleStep
  <1> QED BY <1>1, <1>2, Invariance, PTL DEF Spec, LifecycleSpec, Lifecycle!LifeSpec
-----------------------------------------------------------------------------
(* The stages                                                              *)

Recorded(m) == m.completed \intersect Stages

(* A run that is alive has in memory the stages the state file records.    *)
Synced == \A p \in Proc : pc[p] \notin {"idle", "restart"} => Recorded(mem[p]) = Recorded(disk)

LedgerStep == [Ledger!LedgerNext]_(Ledger!ledgerVars)

(* No run is alive at first, and no stage is recorded or in force.         *)
LEMMA InitSynced == Init => Synced /\ Ledger!LedgerInit
  BY StageAssumption DEF Init, NewState, Synced, Ledger!LedgerInit

(* The stage a run finds next is the next one of the ledger.               *)
LEMMA NextOfLedger ==
  ASSUME Synced, NEW p \in Proc, pc[p] \notin {"idle", "restart"},
         NEW s \in Stages, IsNext(mem[p], s)
  PROVE  s \in Stage /\ Ledger!IsNext(s)
  <1>1. Before[s] \subseteq Stages
    BY DEF Before, Stages
  <1>2. s \notin Recorded(disk) /\ Before[s] \subseteq Recorded(disk)
    BY <1>1 DEF Synced, IsNext, HasCompleted, Recorded
  <1> QED BY <1>2, StageAssumption DEF Ledger!IsNext, Recorded

(* A step that changes neither the state file nor the host is a stutter.   *)
LEMMA LedgerStutter ==
  ASSUME disk' = disk, done' = done
  PROVE  LedgerStep
  BY DEF LedgerStep, Ledger!ledgerVars

(* Loading, enrolling and ending do nothing for a stage.                   *)
LEMMA EnrollingLedger ==
  ASSUME IInv, Synced, Alone, NEW p \in Proc,
         \/ Launch(p) \/ Preflight(p) \/ Record(p) \/ Finalize(p)
         \/ SendAutomatic(p) \/ SendCreate(p) \/ ReceiveAutomatic(p) \/ ReceiveDevice(p)
         \/ PollApproved(p) \/ Refused(p) \/ Stop(p)
         \/ RestartAgent(p) \/ InstallUpdate(p) \/ Uninstall(p)
  PROVE  Synced' /\ LedgerStep
  <1> USE DEF Move, Goto, At
  <1>t. /\ pc \in [Proc -> Location] /\ mem \in [Proc -> State]
        /\ mem[p] \in State /\ disk \in State
    BY DEF IInv, TypeOK
  <1>1. CASE Launch(p)
    <2>1. PICK n \in Size : mem' = [mem EXCEPT ![p] = [disk EXCEPT !.size = n]]
      BY <1>1 DEF Launch, Keep
    <2>2. Recorded(mem'[p]) = Recorded(disk)
      BY <1>t, <2>1 DEF Recorded, State
    <2>3. disk' = disk /\ done' = done
      BY <1>1 DEF Launch, hostVars
    <2> QED BY <2>2, <2>3, LedgerStutter DEF Alone, Synced
  <1>2. ASSUME NEW m \in State, NEW s \in Step \ Stages,
               mem' = [mem EXCEPT ![p] = Complete(m, s)], disk' = Complete(m, s),
               done' = done, m.completed = mem[p].completed, pc[p] \notin {"idle", "restart"}
        PROVE  Synced' /\ LedgerStep
    <2>1. Recorded(Complete(m, s)) = Recorded(disk)
      BY <1>2, CompleteType DEF Recorded, Synced
    <2>2. Synced'
      BY <1>t, <1>2 DEF Alone, Synced
    <2> QED BY <1>2, <2>1, <2>2 DEF LedgerStep, Ledger!ledgerVars, Recorded
  <1>3. "preflight" \in Step \ Stages /\ "waiting_for_claim" \in Step \ Stages
    BY DEF Step, Stages
  <1>4. CASE Preflight(p)
    BY <1>t, <1>2, <1>3, <1>4 DEF Preflight, Save, Keep, hostVars
  <1>5. CASE Record(p)
    <2> DEFINE c == [mem[p] EXCEPT !.enrollment = answer[p], !.node = answer[p],
                                   !.digest = answer[p], !.bootstrap = answer[p]]
    <2>1. answer[p] \in Enrollment \union {None} /\ pc[p] = "record"
      BY <1>5 DEF Record, IInv, TypeOK
    <2>2. c \in State /\ c.completed = mem[p].completed
      BY <1>t, <2>1 DEF State
    <2>3. /\ mem' = [mem EXCEPT ![p] = Complete(c, "waiting_for_claim")]
          /\ disk' = Complete(c, "waiting_for_claim") /\ done' = done
      BY <1>5 DEF Record, Save, Keep, hostVars
    <2> HIDE DEF c
    <2> QED BY <1>2, <1>3, <2>1, <2>2, <2>3
  <1>6. CASE Finalize(p)
    <2> DEFINE c == [mem[p] EXCEPT !.bootstrap = None, !.digest = None, !.key = None]
    <2>1. c \in State /\ c.completed = mem[p].completed /\ "complete" \in Step \ Stages
      BY <1>t DEF State, Step, Stages
    <2>2. disk' = Complete(c, "complete") /\ done' = done /\ pc' = [pc EXCEPT ![p] = "idle"]
          /\ pc[p] = "finish"
      BY <1>6 DEF Finalize, hostVars
    <2> HIDE DEF c
    <2>3. Recorded(disk') = Recorded(disk)
      BY <2>1, <2>2, CompleteType DEF Recorded, Synced
    <2>4. Synced'
      BY <1>t, <2>2 DEF Alone, Synced
    <2> QED BY <2>2, <2>3, <2>4 DEF LedgerStep, Ledger!ledgerVars, Recorded
  <1>7. CASE \/ SendAutomatic(p) \/ SendCreate(p) \/ ReceiveAutomatic(p)
             \/ ReceiveDevice(p) \/ PollApproved(p)
    <2>1. mem' = mem /\ disk' = disk /\ done' = done /\ pc[p] \notin {"idle", "restart"}
      BY <1>7 DEF SendAutomatic, SendCreate, ReceiveAutomatic, ReceiveDevice,
                  PollApproved, hostVars
    <2> QED BY <2>1, LedgerStutter DEF Alone, Synced
  <1>8. CASE Refused(p) \/ Stop(p) \/ RestartAgent(p) \/ InstallUpdate(p) \/ Uninstall(p)
    <2>1. disk' = disk /\ done' = done /\ pc'[p] \in {"idle", "restart"}
      BY <1>t, <1>8 DEF Refused, Stop, RestartAgent, InstallUpdate, Uninstall, hostVars,
                        runVars
    <2> QED BY <2>1, LedgerStutter DEF Alone, Synced
  <1> QED BY <1>1, <1>4, <1>5, <1>6, <1>7, <1>8

(* The stages are performed and recorded as the ledger says; the Agent's   *)
(* steps are completed without touching one.                               *)
LEMMA StageLedgerStep ==
  ASSUME IInv, Synced, Alone, NEW p \in Proc,
         \/ ReportProgress(p) \/ RunStage(p) \/ WriteRoute(p) \/ StartTraefik(p)
         \/ SaveStage(p) \/ InstallRelease(p) \/ WriteDigest(p) \/ WriteConfig(p)
         \/ ApplyFirewall(p) \/ EnableAgent(p) \/ Validate(p)
  PROVE  Synced' /\ LedgerStep
  <1> USE DEF Move, Goto, At
  <1>t. /\ pc \in [Proc -> Location] /\ mem \in [Proc -> State]
        /\ mem[p] \in State /\ disk \in State
    BY DEF IInv, TypeOK
  <1>1. CASE RunStage(p) \/ StartTraefik(p)
    <2>1. mem' = mem /\ disk' = disk /\ pc[p] \notin {"idle", "restart"}
      BY <1>1 DEF RunStage, StartTraefik
    <2>2. PICK s \in Stages : IsNext(mem[p], s) /\ done' = done \union {s}
      BY <1>1 DEF RunStage, StartTraefik, Stages, IInv, Achieved
    <2>3. Ledger!Perform(s) /\ s \in Stage
      BY <2>1, <2>2, NextOfLedger DEF Ledger!Perform
    <2>4. Synced'
      BY <2>1 DEF Alone, Synced
    <2> QED BY <2>3, <2>4 DEF LedgerStep, Ledger!LedgerNext
  <1>2. CASE SaveStage(p)
    <2>1. PICK s \in Stages : /\ IsNext(mem[p], s) /\ pc[p] = "stage_save"
                              /\ mem' = [mem EXCEPT ![p] = Complete(mem[p], s)]
                              /\ disk' = Complete(mem[p], s)
      BY <1>2 DEF SaveStage, Save, Keep
    <2>2. s \in done /\ done' = done
      BY <1>2, <2>1 DEF SaveStage, IInv, Achieved, hostVars
    <2>3. Recorded(Complete(mem[p], s)) = Recorded(disk) \union {s}
      BY <1>t, <2>1, CompleteType DEF Step, Recorded, Synced
    <2>4. Ledger!Record(s) /\ s \in Stage
      BY <2>1, <2>2, <2>3, NextOfLedger DEF Ledger!Record, Recorded
    <2>5. Synced'
      BY <1>t, <2>1 DEF Alone, Synced
    <2> QED BY <2>4, <2>5 DEF LedgerStep, Ledger!LedgerNext
  <1>3. CASE \/ ReportProgress(p) \/ WriteRoute(p) \/ InstallRelease(p)
             \/ WriteDigest(p) \/ WriteConfig(p)
    <2>1. mem' = mem /\ disk' = disk /\ done' = done /\ pc[p] \notin {"idle", "restart"}
      BY <1>3 DEF ReportProgress, WriteRoute, InstallRelease, WriteDigest, WriteConfig,
                  hostVars
    <2> QED BY <2>1, LedgerStutter DEF Alone, Synced
  <1>4. CASE ApplyFirewall(p) \/ EnableAgent(p) \/ Validate(p)
    <2>1. PICK s \in Step \ Stages, k \in Key \union {None} :
            mem'[p] = Complete(mem[p], s) \/ mem'[p] = [Complete(mem[p], s) EXCEPT !.key = k]
      BY <1>t, <1>4 DEF ApplyFirewall, EnableAgent, Validate, Save, Keep, Step, Stages
    <2>2. Complete(mem[p], s) \in State /\ Complete(mem[p], s).completed
                                             = mem[p].completed \union {s}
      BY <1>t, CompleteType
    <2>3. Recorded(mem'[p]) = Recorded(mem[p])
      BY <2>1, <2>2 DEF Recorded, State
    <2>4. disk' = disk \/ disk' = mem'[p]
      BY <1>t, <1>4 DEF ApplyFirewall, EnableAgent, Validate, Save, Keep
    <2>5. done' = done /\ pc[p] \notin {"idle", "restart"}
      BY <1>4 DEF ApplyFirewall, EnableAgent, Validate, hostVars
    <2>6. Recorded(disk') = Recorded(disk) /\ Recorded(mem'[p]) = Recorded(disk)
      BY <2>3, <2>4, <2>5 DEF Synced
    <2>7. Synced'
      BY <2>6 DEF Alone, Synced
    <2> QED BY <2>5, <2>6, <2>7 DEF LedgerStep, Ledger!ledgerVars, Recorded
  <1> QED BY <1>1, <1>2, <1>3, <1>4

(* Every step is a step of StageLedger or a stutter: a stage that succeeds *)
(* is performed, a save records it.                                        *)
LEMMA StepLedger ==
  ASSUME IInv, Synced, Alone, [Next]_vars
  PROVE  Synced' /\ LedgerStep
  <1>1. ASSUME NEW p \in Proc, Work(p) \/ InstallUpdate(p) \/ Uninstall(p) \/ Stop(p)
        PROVE  Synced' /\ LedgerStep
    BY <1>1, EnrollingLedger, StageLedgerStep DEF Work
  <1>2. ASSUME UNCHANGED <<pc, mem, disk, done>>
        PROVE  Synced' /\ LedgerStep
    BY <1>2, LedgerStutter DEF Synced
  <1>3. CASE \/ ServeLate \/ (\E p \in Proc : ServeLive(p))
             \/ (\E e \in Enrollment : DashboardAlone(e))
             \/ AgentRestarts \/ UNCHANGED vars
    BY <1>2, <1>3 DEF ServeLive, ServeLate, DashboardAlone, AgentRestarts, vars, runVars,
                      hostVars
  <1> QED BY <1>1, <1>3 DEF Next, Smooth

(* When at most one run is alive at a time, provision (installer.go:182)   *)
(* performs and records the stages one by one, in order, whatever crashes  *)
(* and however often it is repeated; with overlapping runs a stale run may *)
(* write back an older record.                                             *)
THEOREM ProvisionKeepsLedger == Alone /\ Spec => LedgerSpec
  <1> SUFFICES ASSUME Alone PROVE Spec => LedgerSpec
    OBVIOUS
  <1>1. Init => Synced /\ Ledger!LedgerInit
    BY InitSynced
  <1>2. IInv /\ Synced /\ [Next]_vars => Synced' /\ [Ledger!LedgerNext]_(Ledger!ledgerVars)
    BY StepLedger DEF LedgerStep
  <1> QED BY <1>1, <1>2, Invariance, PTL DEF Spec, LedgerSpec, Ledger!LedgerSpec
=============================================================================
