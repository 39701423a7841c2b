------------------------------- MODULE Stages -------------------------------
(***************************************************************************)
(* What the stages of provision (internal/cli/installer.go:175) do to the  *)
(* host, call by call: packages, Docker, PostgreSQL and Traefik, and the   *)
(* probe of the final validation.  Installer takes a stage for one step    *)
(* that succeeds or does not; here a run may stop between any two calls,   *)
(* and between the truncation and the end of a file written in place.      *)
(*                                                                         *)
(* The files the stages write in place (os.WriteFile) are                  *)
(*   pgdg      sources.list.d/pgdg.list                                    *)
(*   settings  conf.d/centralcloud.conf                                    *)
(*   hba       pg_hba.conf, and backup, its copy                           *)
(*   password  secrets/postgres_password                                   *)
(*   route     the Traefik file provider's agent.yml                       *)
(***************************************************************************)
EXTENDS Naturals

CONSTANTS
  Password,  \* passwords ensurePassword may draw
  MaxStops,  \* bound on the runs that stop early
  None

ASSUME MaxStopsAssumption == MaxStops \in Nat
ASSUME PasswordAssumption ==
  /\ Password # {}
  /\ None \notin Password
  /\ Password \intersect {"absent", "empty", "cut", "whole", "original",
                          "managed", "trimmed", "bare"} = {}

VARIABLES
  pc, writing,        \* next call; its file is truncated and not yet written
  changed, data,      \* locals: daemon.json changed, pg_hba.conf as read
  recorded,           \* stages state.json records, as a prefix of Order
  validated,          \* a run got past the final validation
  stops,              \* runs stopped so far
  file,               \* the files written in place
  daemon, dockerd,    \* daemon.json; the one the live daemon started with
  postgres, role,     \* configuration the server loaded; provisioner's password
  network, container, \* Traefik's network and container
  probe,              \* temporary objects that exist
  dpkg                \* whether an installation broke off half-way

runVars == <<pc, writing, changed, data>>
hostVars == <<file, daemon, dockerd, postgres, role, network, container, probe,
              dpkg>>
vars == <<runVars, recorded, validated, stops, hostVars>>

File == {"pgdg", "settings", "hba", "backup", "password", "route"}

(* "cut" is a write that ended part way: for pg_hba.conf behind the marker *)
(* of the managed block and before a rule that lets postgres in, for the   *)
(* password before the 32nd byte.  "trimmed" is pg_hba.conf cut behind     *)
(* that rule, "bare" a managed block without the distribution's rules.     *)
Content == {"absent", "empty", "cut", "whole", "original", "managed",
            "trimmed", "bare"} \union Password

(* "default" is a file without log-driver, "foreign" one with another      *)
(* driver, "tcp" one with a TCP host.                                      *)
Daemon == {"absent", "default", "rotating", "foreign", "tcp"}

Server == [settings : Content, hba : Content]
Container == [compatible : BOOLEAN, up : BOOLEAN]

ASSUME NoneAssumption == None \notin Server \union Container

Location == {"idle", "refresh", "pg_install", "docker_install", "daemon",
             "docker_enable", "docker_restart", "access", "secret",
             "pg_restart", "role", "probe_clear", "probe_create",
             "probe_remove", "network", "inspect", "run", "start", "save",
             "validate", "net_clear", "net_create", "net_remove"} \union File

TypeOK ==
  /\ pc \in Location /\ writing \in BOOLEAN
  /\ changed \in BOOLEAN /\ data \in Content
  /\ recorded \in 0..4 /\ validated \in BOOLEAN /\ stops \in 0..MaxStops
  /\ file \in [File -> Content]
  /\ daemon \in Daemon /\ dockerd \in Daemon \union {"down"}
  /\ postgres \in Server \union {None} /\ role \in Password \union {None}
  /\ network \in BOOLEAN /\ container \in Container \union {None}
  /\ probe \in SUBSET {"database", "network"}
  /\ dpkg \in {"ready", "interrupted"}

(* A fresh host, or one with a Docker or a PostgreSQL of its own, perhaps  *)
(* with the Traefik container of an earlier installer.                     *)
Init ==
  /\ pc = "idle" /\ writing = FALSE /\ changed = FALSE /\ data = "absent"
  /\ recorded = 0 /\ validated = FALSE /\ stops = 0
  /\ \E rules \in {"absent", "original"} :
       /\ file = [f \in File |-> IF f = "hba" THEN rules ELSE "absent"]
       /\ postgres = IF rules = "absent" THEN None
                     ELSE [settings |-> "absent", hba |-> rules]
  /\ daemon \in Daemon \ {"rotating"}
  /\ dockerd \in {"down", daemon}
  /\ container \in {None} \union [compatible : {FALSE}, up : BOOLEAN]
  /\ network = (container # None)
  /\ dockerd = "down" => container = None
  /\ role = None /\ probe = {} /\ dpkg = "ready"

-----------------------------------------------------------------------------
(* Helpers                                                                 *)

At(from) == pc = from
Goto(to) == pc' = to
Move(from, to) == At(from) /\ Goto(to)

(* The first call of each stage, and what follows the last one.            *)
Order == <<"refresh", "docker_install", "settings", "route", "validate">>

(* The call that follows the writing of a file.                            *)
After == [f \in File |->
            CASE f = "pgdg"     -> "pg_install"
              [] f = "settings" -> "access"
              [] f = "backup"   -> "hba"
              [] f = "hba"      -> "secret"
              [] f = "password" -> "pg_restart"
              [] f = "route"    -> "network"]

Marked(rules) == rules \in {"managed", "trimmed", "bare", "cut"}
Prepended(rules) == IF rules = "original" THEN "managed" ELSE "bare"

(* What may be written to a file; the password is drawn.                   *)
Text(f) ==
  CASE f = "hba"      -> {Prepended(data)}
    [] f = "backup"   -> {data}
    [] f = "password" -> Password
    [] OTHER          -> {"whole"}

(* What a write that ends part way may leave.  A password cut behind its   *)
(* 32nd byte is taken for a password.                                      *)
Torn(f) ==
  {"cut"} \union
    CASE f = "hba" /\ data = "original" -> {"trimmed"}
      [] f = "password"                 -> Password
      [] OTHER                          -> {}

(* The distribution's rules let the postgres user in through the socket.   *)
AdmitsLocal(rules) == rules \in {"original", "managed", "trimmed"}
Connects == postgres # None /\ AdmitsLocal(postgres.hba)

(* PostgreSQL does not start on broken settings or without a rule.         *)
Loadable == file["hba"] \notin {"absent", "empty"} /\ file["settings"] # "cut"
Loaded == IF Loadable THEN [settings |-> file["settings"], hba |-> file["hba"]]
          ELSE None

(* configureDaemonAt: the settings merged, and whether that changes them.  *)
Merged == IF daemon \in {"absent", "default"} THEN "rotating" ELSE daemon

-----------------------------------------------------------------------------
(* Plausible bugs.  None is part of the specification: each replaces the   *)
(* operator of the code it is a faulty version of, and a property fails.   *)

(* The new settings are left to the next restart of the daemon.            *)
EnableDockerWithoutRestart ==
  /\ Move("docker_enable", "save")
  /\ dockerd' = IF dockerd = "down" THEN daemon ELSE dockerd
  /\ UNCHANGED <<writing, changed, data, recorded, validated, stops, file,
                 daemon, postgres, role, network, container, probe, dpkg>>

(* A password file of any length is taken for a password.                  *)
ReadPasswordOfAnyLength ==
  /\ Move("secret",
          IF file["password"] = "absent" THEN "password" ELSE "pg_restart")
  /\ UNCHANGED <<writing, changed, data, recorded, validated, stops, hostVars>>

(* A backup is taken for a sign that the rules are managed already.        *)
ReadRulesTrustingBackup ==
  /\ file["hba"] # "absent"
  /\ Move("access", IF file["backup"] = "absent" THEN "backup" ELSE "secret")
  /\ data' = file["hba"]
  /\ UNCHANGED <<writing, changed, recorded, validated, stops, hostVars>>

(* The rules are written without a backup.                                 *)
ReadRulesWithoutBackup ==
  /\ file["hba"] # "absent"
  /\ Move("access", IF Marked(file["hba"]) THEN "secret" ELSE "hba")
  /\ data' = file["hba"]
  /\ UNCHANGED <<writing, changed, recorded, validated, stops, hostVars>>

(* A command that creates or removes a temporary object.                   *)
Probe(from, to, objects) ==
  /\ Move(from, to)
  /\ probe' = objects
  /\ UNCHANGED <<writing, changed, data, recorded, stops, file, daemon,
                 dockerd, postgres, role, network, container, dpkg>>

(* The temporary database is not removed first, or not removed after.      *)
ProbeDatabaseOnce ==
  /\ \/ Probe("probe_clear", "probe_create", probe)
     \/ /\ "database" \notin probe
        /\ Probe("probe_create", "probe_remove", probe \union {"database"})
     \/ Probe("probe_remove", "save", probe \ {"database"})
  /\ UNCHANGED validated

ProbeDatabaseKept ==
  /\ \/ Probe("probe_clear", "probe_create", probe \ {"database"})
     \/ /\ "database" \notin probe
        /\ Probe("probe_create", "probe_remove", probe \union {"database"})
     \/ Probe("probe_remove", "save", probe)
  /\ UNCHANGED validated

(* A container of any image is started.                                    *)
InspectAnyContainer ==
  /\ dockerd # "down"
  /\ Move("inspect", IF container = None THEN "run" ELSE "start")
  /\ UNCHANGED <<writing, changed, data, recorded, validated, stops, hostVars>>

-----------------------------------------------------------------------------
(* A run                                                                   *)

Launch ==
  /\ ~validated
  /\ Move("idle", Order[recorded + 1])
  /\ UNCHANGED <<writing, changed, data, recorded, validated, stops, hostVars>>

(* os.WriteFile truncates the file ...                                     *)
Open(f) ==
  /\ At(f) /\ ~writing
  /\ writing' = TRUE
  /\ file' = [file EXCEPT ![f] = "empty"]
  /\ UNCHANGED <<pc, changed, data, recorded, validated, stops, daemon,
                 dockerd, postgres, role, network, container, probe, dpkg>>

(* ... and then writes it.                                                 *)
Fill(f) ==
  /\ writing
  /\ Move(f, After[f])
  /\ writing' = FALSE
  /\ \E text \in Text(f) : file' = [file EXCEPT ![f] = text]
  /\ UNCHANGED <<changed, data, recorded, validated, stops, daemon, dockerd,
                 postgres, role, network, container, probe, dpkg>>

(* packages: apt reads the sources, so a source cut short is an error, and *)
(* no installation goes on from one that broke off.                        *)
Refresh ==
  /\ file["pgdg"] # "cut" /\ dpkg = "ready"
  /\ Move("refresh", "pgdg")
  /\ UNCHANGED <<writing, changed, data, recorded, validated, stops, hostVars>>

(* Installing PostgreSQL creates and starts its cluster.                   *)
InstallPostgres ==
  /\ dpkg = "ready"
  /\ Move("pg_install", "save")
  /\ IF file["hba"] = "absent"
     THEN /\ file' = [file EXCEPT !["hba"] = "original"]
          /\ postgres' = [settings |-> file["settings"], hba |-> "original"]
     ELSE UNCHANGED <<file, postgres>>
  /\ UNCHANGED <<writing, changed, data, recorded, validated, stops, daemon,
                 dockerd, role, network, container, probe, dpkg>>

(* Installing Docker starts the daemon; upgrading may restart it.          *)
InstallDocker ==
  /\ dpkg = "ready"
  /\ Move("docker_install", "daemon")
  /\ dockerd' \in IF dockerd = "down" THEN {daemon} ELSE {dockerd, daemon}
  /\ UNCHANGED <<writing, changed, data, recorded, validated, stops, file,
                 daemon, postgres, role, network, container, probe, dpkg>>

(* The merged daemon.json replaces the old one as a whole.                 *)
ConfigureDaemon ==
  /\ daemon # "tcp"
  /\ Move("daemon", "docker_enable")
  /\ daemon' = Merged
  /\ changed' = (Merged # daemon)
  /\ UNCHANGED <<writing, data, recorded, validated, stops, file, dockerd,
                 postgres, role, network, container, probe, dpkg>>

(* systemctl enable --now leaves a live daemon alone.                      *)
EnableDocker ==
  /\ Move("docker_enable", IF changed THEN "docker_restart" ELSE "save")
  /\ dockerd' = IF dockerd = "down" THEN daemon ELSE dockerd
  /\ UNCHANGED <<writing, changed, data, recorded, validated, stops, file,
                 daemon, postgres, role, network, container, probe, dpkg>>

RestartDocker ==
  /\ Move("docker_restart", "save")
  /\ dockerd' = daemon
  /\ UNCHANGED <<writing, changed, data, recorded, validated, stops, file,
                 daemon, postgres, role, network, container, probe, dpkg>>

(* configureAccess: rules with the marker are taken for managed ones, and  *)
(* an existing backup is kept.                                             *)
ReadRules ==
  /\ file["hba"] # "absent"
  /\ Move("access", IF Marked(file["hba"]) THEN "secret"
                    ELSE IF file["backup"] = "absent" THEN "backup" ELSE "hba")
  /\ data' = file["hba"]
  /\ UNCHANGED <<writing, changed, recorded, validated, stops, hostVars>>

(* ensurePassword: a short password is an error, none is drawn.            *)
ReadPassword ==
  /\ file["password"] \notin {"empty", "cut"}
  /\ Move("secret",
          IF file["password"] = "absent" THEN "password" ELSE "pg_restart")
  /\ UNCHANGED <<writing, changed, data, recorded, validated, stops, hostVars>>

RestartPostgres ==
  /\ Move("pg_restart", "role")
  /\ postgres' = Loaded
  /\ UNCHANGED <<writing, changed, data, recorded, validated, stops, file,
                 daemon, dockerd, role, network, container, probe, dpkg>>

(* psql creates the role or alters its password.                           *)
AlterRole ==
  /\ Connects
  /\ Move("role", "probe_clear")
  /\ role' = file["password"]
  /\ UNCHANGED <<writing, changed, data, recorded, validated, stops, file,
                 daemon, dockerd, postgres, network, container, probe, dpkg>>

(* The temporary database: dropdb --if-exists, createdb, dropdb.           *)
ProbeDatabase ==
  /\ \/ Probe("probe_clear", "probe_create", probe \ {"database"})
     \/ /\ "database" \notin probe
        /\ Probe("probe_create", "probe_remove", probe \union {"database"})
     \/ Probe("probe_remove", "save", probe \ {"database"})
  /\ UNCHANGED validated

CreateNetwork ==
  /\ dockerd # "down"
  /\ Move("network", "inspect")
  /\ network' = TRUE
  /\ UNCHANGED <<writing, changed, data, recorded, validated, stops, file,
                 daemon, dockerd, postgres, role, container, probe, dpkg>>

(* An existing container must have the pinned image and the bearer label.  *)
InspectContainer ==
  /\ dockerd # "down"
  /\ container # None => container.compatible
  /\ Move("inspect", IF container = None THEN "run" ELSE "start")
  /\ UNCHANGED <<writing, changed, data, recorded, validated, stops, hostVars>>

(* docker run creates the container and then starts it.                    *)
CreateContainer ==
  /\ container = None
  /\ Move("run", "start")
  /\ container' = [compatible |-> TRUE, up |-> FALSE]
  /\ UNCHANGED <<writing, changed, data, recorded, validated, stops, file,
                 daemon, dockerd, postgres, role, network, probe, dpkg>>

StartContainer ==
  /\ container # None
  /\ Move("start", "save")
  /\ container' = [container EXCEPT !.up = TRUE]
  /\ UNCHANGED <<writing, changed, data, recorded, validated, stops, file,
                 daemon, dockerd, postgres, role, network, probe, dpkg>>

(* Record the stage in state.json and go on to the next one.               *)
SaveStage ==
  /\ Move("save", Order[recorded + 2])
  /\ recorded' = recorded + 1
  /\ UNCHANGED <<writing, changed, data, validated, stops, hostVars>>

(* The final validation looks at Docker, the container and PostgreSQL ...  *)
Validate ==
  /\ dockerd # "down" /\ container # None /\ postgres # None
  /\ Move("validate", "net_clear")
  /\ UNCHANGED <<writing, changed, data, recorded, validated, stops, hostVars>>

(* ... and probes the creation of a network.                               *)
ProbeNetwork ==
  \/ /\ \/ Probe("net_clear", "net_create", probe \ {"network"})
        \/ /\ "network" \notin probe
           /\ Probe("net_create", "net_remove", probe \union {"network"})
     /\ UNCHANGED validated
  \/ Probe("net_remove", "idle", probe \ {"network"}) /\ validated' = TRUE

Call ==
  \/ \E f \in File : Open(f) \/ Fill(f)
  \/ Refresh \/ InstallPostgres
  \/ InstallDocker \/ ConfigureDaemon \/ EnableDocker \/ RestartDocker
  \/ ReadRules \/ ReadPassword \/ RestartPostgres \/ AlterRole \/ ProbeDatabase
  \/ CreateNetwork \/ InspectContainer \/ CreateContainer \/ StartContainer
  \/ SaveStage \/ Validate \/ ProbeNetwork

-----------------------------------------------------------------------------
(* How a run ends early, and what happens between two runs                 *)

Installing == pc \in {"refresh", "pg_install", "docker_install"}

(* A call that cannot succeed is an error, whatever the number of tries.   *)
Refused ==
  /\ \/ At("refresh") /\ file["pgdg"] = "cut"
     \/ Installing /\ dpkg = "interrupted"
     \/ At("daemon") /\ daemon = "tcp"
     \/ At("secret") /\ file["password"] \in {"empty", "cut"}
     \/ At("role") /\ ~Connects
     \/ At("probe_create") /\ "database" \in probe
     \/ At("inspect") /\ container # None /\ ~container.compatible
     \/ At("validate") /\ postgres = None
  /\ Goto("idle")
  /\ UNCHANGED <<writing, changed, data, recorded, validated, stops, hostVars>>

(* A failed command, the deadline, a kill: the run ends where it is, a     *)
(* write leaving what it wrote.  An installation that breaks off leaves    *)
(* its packages half configured; what is on the host of them counts from   *)
(* the installation that completes them.                                   *)
Stop ==
  /\ stops < MaxStops
  /\ ~At("idle") /\ Goto("idle")
  /\ stops' = stops + 1
  /\ writing' = FALSE
  /\ \/ UNCHANGED file
     \/ \E f \in File : \E text \in Torn(f) :
          writing /\ At(f) /\ file' = [file EXCEPT ![f] = text]
  /\ dpkg' \in {dpkg} \union (IF Installing THEN {"interrupted"} ELSE {})
  /\ UNCHANGED <<changed, data, recorded, validated, daemon, dockerd,
                 postgres, role, network, container, probe>>

(* The services come back with what their files hold now.                  *)
Reboot ==
  /\ At("idle")
  /\ dockerd' = IF dockerd = "down" THEN dockerd ELSE daemon
  /\ postgres' = Loaded
  /\ UNCHANGED <<runVars, recorded, validated, stops, file, daemon, role,
                 network, container, probe, dpkg>>

(* docs/operations.md:46: an incompatible container is put aside under a   *)
(* backup name; daemon.json loses its TCP host.                            *)
PutAside ==
  /\ At("idle") /\ container # None /\ ~container.compatible
  /\ container' = None
  /\ UNCHANGED <<runVars, recorded, validated, stops, file, daemon, dockerd,
                 postgres, role, network, probe, dpkg>>

DropTCP ==
  /\ At("idle") /\ daemon = "tcp"
  /\ daemon' = "default"
  /\ UNCHANGED <<runVars, recorded, validated, stops, file, dockerd, postgres,
                 role, network, container, probe, dpkg>>

(* dpkg --configure -a, as apt-get asks for.                               *)
ConfigurePackages ==
  /\ At("idle") /\ dpkg = "interrupted"
  /\ dpkg' = "ready"
  /\ UNCHANGED <<runVars, recorded, validated, stops, file, daemon, dockerd,
                 postgres, role, network, container, probe>>

Next ==
  \/ Launch \/ Call \/ Refused \/ Stop \/ Reboot
  \/ PutAside \/ DropTCP \/ ConfigurePackages

Spec == Init /\ [][Next]_vars

(* A run goes on, the operator runs repair again and corrects what it      *)
(* reports.                                                                *)
Fairness ==
  /\ WF_vars(Launch \/ Call \/ Refused)
  /\ SF_vars(PutAside) /\ SF_vars(DropTCP) /\ SF_vars(ConfigurePackages)

FairSpec == Spec /\ Fairness

-----------------------------------------------------------------------------
(* What the n-th stage writes, starts and creates is on the host.  The     *)
(* rules of pg_hba.conf are managed, loaded and let postgres in, which is  *)
(* all the stage makes sure of: those behind a cut may be lost             *)
(* (postgresql.go:106).  All else is whole.                                *)
InForce(n) ==
  CASE n = 1 -> file["pgdg"] = "whole" /\ file["hba"] # "absent"
    [] n = 2 -> daemon \in {"rotating", "foreign"} /\ dockerd # "down"
    [] n = 3 -> /\ postgres = [settings |-> "whole", hba |-> file["hba"]]
                /\ file["settings"] = "whole"
                /\ file["hba"] \in {"managed", "trimmed"}
                /\ role \in Password /\ role = file["password"]
    [] n = 4 -> /\ file["route"] = "whole" /\ network
                /\ container = [compatible |-> TRUE, up |-> TRUE]

(* A stage recorded in state.json is one repair may skip: it is in force,  *)
(* whatever number of runs stopped in it.                                  *)
RecordedStagesInForce == \A n \in 1..recorded : InForce(n)

(* provision keeps the promise of StageLedger at every call: it works on   *)
(* the host for the first stage that is not recorded, a reboot included,   *)
(* and never disturbs the ones before or after it.                         *)
Ledger == INSTANCE StageLedger
            WITH Stage <- 1..4, Before <- [n \in 1..4 |-> 1..(n - 1)],
                 inForce <- {n \in 1..4 : InForce(n)}, recorded <- 1..recorded

LedgerSpec == Ledger!LedgerSpec

(* docs/operations.md:9: the temporary database and network are removed,   *)
(* leftovers of stopped runs included.                                     *)
ProbesRemoved ==
  /\ recorded >= 3 => "database" \notin probe
  /\ validated => "network" \notin probe

(* The distribution's access rules are in pg_hba.conf, in its backup or in *)
(* the memory of the run that rewrites it, wherever a single run stopped.  *)
OneStopKeepsRules ==
  (stops <= 1 /\ file["hba"] # "absent") =>
    \/ file["hba"] \in {"original", "managed"} \/ file["backup"] = "original"
    \/ At("hba") /\ writing /\ data = "original"

(* docs/operations.md:43: the installer never replaces an existing Traefik *)
(* container, it only starts one that is compatible.                       *)
ContainerNeverReplaced ==
  [][(~At("idle") /\ container # None) =>
       container.compatible /\ container' = [container EXCEPT !.up = TRUE]]_container

(* What no repair gets past: it reports the error and leaves it.           *)
DeadEnd ==
  \/ file["pgdg"] = "cut"
  \/ file["password"] \in {"empty", "cut"}
  \/ file["hba"] \in {"empty", "cut", "bare"}

(* The only errors a repeated run can meet are the ones above, a TCP host  *)
(* in daemon.json, a Traefik container the operator has to put aside and   *)
(* an installation that broke off: leftovers of its own probes, or a       *)
(* server that would not let it in, are none.                              *)
OnlyNamedRefusals ==
  [][Refused => \/ DeadEnd
                \/ daemon = "tcp"
                \/ container # None /\ ~container.compatible
                \/ dpkg = "interrupted"]_vars

(* However many runs stopped, repair gets through the stages and the       *)
(* validation, unless a stop left a file in place that it cannot get past. *)
StagesComplete == <>validated \/ <>[]DeadEnd

(* docs/operations.md:35: "the default `json-file` driver receives bounded *)
(* rotation": once the stage is recorded, the live daemon rotates.         *)
RotationInForce ==
  (recorded >= 2 /\ daemon = "rotating") => dockerd = "rotating"

(* What is left of it: a stop between the new settings and the restart is  *)
(* the only way to lose the restart.  A daemon that ran before, an upgrade *)
(* and the correction of a refused TCP host are none.                      *)
UninterruptedRotation == stops = 0 => RotationInForce
=============================================================================
