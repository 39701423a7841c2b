---------------------------- MODULE StagesProofs ----------------------------
(***************************************************************************)
(* What state.json records of the stages is true of the host, for any      *)
(* number of runs that stop anywhere, any passwords and any reboots; the   *)
(* stages implement StageLedger; a run never waits, is turned away only by *)
(* what Refused names, and ends.                                           *)
(***************************************************************************)
EXTENDS Stages, TLAPS

Probing == {"probe_clear", "probe_create", "probe_remove"}
ServerUp == {"role"} \union Probing
HasPassword == {"pg_restart"} \union ServerUp
RulesWritten == {"secret", "password"} \union HasPassword
SettingsWritten == {"access", "backup", "hba"} \union RulesWritten

(* The n-th stage has succeeded: it is recorded, or about to be.           *)
Beyond(n) == recorded >= n \/ (pc = "save" /\ recorded = n - 1)

(* The calls of a stage are made while the stages before it are recorded.  *)
Place ==
  /\ pc \in {"refresh", "pgdg", "pg_install"} => recorded = 0
  /\ pc \in {"docker_install", "daemon", "docker_enable", "docker_restart"} =>
       recorded = 1
  /\ pc \in {"settings"} \union SettingsWritten => recorded = 2
  /\ pc \in {"route", "network", "inspect", "run", "start"} => recorded = 3
  /\ pc \in {"validate", "net_clear", "net_create", "net_remove"} => recorded = 4
  /\ pc = "save" => recorded <= 3
  /\ writing => pc \in File

(* How far each stage has brought the host at each of its calls.           *)
Packages ==
  /\ pc = "pg_install" \/ Beyond(1) => file["pgdg"] = "whole"
  /\ Beyond(1) => file["hba"] # "absent"

Docker ==
  /\ pc \in {"docker_enable", "docker_restart"} \/ Beyond(2) =>
       daemon \in {"rotating", "foreign"}
  /\ pc = "docker_restart" \/ Beyond(2) => dockerd # "down"

PostgreSQL ==
  /\ pc \in SettingsWritten \/ Beyond(3) => file["settings"] = "whole"
  /\ pc \in RulesWritten => Marked(file["hba"])
  /\ file["password"] \in {"absent", "empty", "cut"} \union Password
  /\ pc \in HasPassword \/ Beyond(3) => file["password"] \in Password
  /\ pc \in ServerUp \/ Beyond(3) =>
       postgres = [settings |-> "whole", hba |-> file["hba"]]
  /\ pc \in Probing \/ Beyond(3) =>
       file["hba"] \in {"managed", "trimmed"} /\ role = file["password"]
  /\ Beyond(3) => "database" \notin probe

Traefik ==
  /\ pc \in {"network", "inspect", "run", "start"} \/ Beyond(4) =>
       file["route"] = "whole"
  /\ pc \in {"inspect", "run", "start"} \/ Beyond(4) => network
  /\ pc = "run" => container = None
  /\ pc = "start" \/ Beyond(4) => container \in Container /\ container.compatible
  /\ Beyond(4) => container = [compatible |-> TRUE, up |-> TRUE]

Validation == validated => pc = "idle" /\ recorded = 4 /\ "network" \notin probe

IInv ==
  TypeOK /\ Place /\ Packages /\ Docker /\ PostgreSQL /\ Traefik /\ Validation

(* Where the distribution's rules are while at most one run has stopped.   *)
Rewriting == At("hba") /\ writing /\ data = "original"

Rules ==
  /\ At("backup") \/ (At("hba") /\ ~writing) =>
       data = file["hba"] /\ ~Marked(data) /\ data # "absent"
  /\ At("backup") => file["backup"] # "original"
  /\ At("hba") /\ writing => file["hba"] = "empty"
  /\ stops = 0 =>
       /\ file["hba"] \in {"absent", "original", "managed"} \/ Rewriting
       /\ file["backup"] \in {"absent", "original"} \/ (At("backup") /\ writing)
       /\ At("backup") => data = "original"
       /\ At("hba") => data = "original" /\ file["backup"] = "original"
  /\ stops = 1 /\ file["hba"] # "absent" =>
       \/ file["hba"] \in {"original", "managed"}
       \/ file["backup"] = "original" \/ Rewriting

-----------------------------------------------------------------------------
(* The values of Content, named one by one.                                *)
LEMMA Contents ==
  /\ {"absent", "empty", "cut", "whole", "original", "managed", "trimmed",
      "bare"} \subseteq Content
  /\ Password \subseteq Content
BY DEF Content

(* What the server loads is a configuration.                               *)
LEMMA LoadedServer == TypeOK => Loaded \in Server \union {None}
BY DEF TypeOK, Loaded, Server, File

(* The call that follows the writing of each file.                         *)
LEMMA AfterValues ==
  /\ After["pgdg"] = "pg_install" /\ After["settings"] = "access"
  /\ After["backup"] = "hba" /\ After["hba"] = "secret"
  /\ After["password"] = "pg_restart" /\ After["route"] = "network"
  /\ \A f \in File : After[f] \in {"pg_install", "access", "hba", "secret",
                                    "pg_restart", "network"}
BY DEF After, File

(* Every step keeps the type invariant.                                    *)
LEMMA StepTypeOK == IInv /\ [Next]_vars => TypeOK'
<1>. SUFFICES ASSUME IInv, [Next]_vars PROVE TypeOK'
  OBVIOUS
<1>. USE PasswordAssumption DEF IInv, At, Goto, Move, hostVars, runVars, vars
<1>1. CASE Launch
  BY <1>1 DEF Launch, Order, TypeOK, Daemon, Container, Location, File
<1>2. ASSUME NEW f \in File, Open(f) PROVE TypeOK'
  <2>1. file' \in [File -> Content]
    BY <1>2, Contents DEF Open, TypeOK
  <2>. QED BY <1>2, <2>1 DEF Open, TypeOK
<1>3. ASSUME NEW f \in File, Fill(f) PROVE TypeOK'
  <2>1. Text(f) \subseteq Content
    BY Contents DEF Text, Prepended, TypeOK
  <2>2. file' \in [File -> Content]
    BY <1>3, <2>1 DEF Fill, TypeOK
  <2>3. After[f] \in Location
    BY DEF After, File, Location
  <2>. QED BY <1>3, <2>2, <2>3 DEF Fill, TypeOK
<1>4. CASE Refresh
  BY <1>4 DEF Refresh, TypeOK, Daemon, Container, Location, File
<1>5. CASE InstallPostgres
  <2>1. file' \in [File -> Content] /\ postgres' \in Server \union {None}
    BY <1>5, Contents DEF InstallPostgres, TypeOK, Server, File
  <2>. QED BY <1>5, <2>1 DEF InstallPostgres, TypeOK, Location
<1>6. CASE InstallDocker
  BY <1>6 DEF InstallDocker, TypeOK, Daemon, Container, Location, File
<1>7. CASE ConfigureDaemon
  BY <1>7 DEF ConfigureDaemon, Merged, TypeOK, Daemon, Container, Location,
     File
<1>8. CASE EnableDocker
  BY <1>8 DEF EnableDocker, TypeOK, Daemon, Container, Location, File
<1>9. CASE RestartDocker
  BY <1>9 DEF RestartDocker, TypeOK, Daemon, Container, Location, File
<1>10. CASE ReadRules
  BY <1>10 DEF ReadRules, Marked, TypeOK, Daemon, Container, Location, File
<1>11. CASE ReadPassword
  BY <1>11 DEF ReadPassword, TypeOK, Daemon, Container, Location, File
<1>12. CASE RestartPostgres
  BY <1>12, LoadedServer DEF RestartPostgres, TypeOK, Location
<1>13. CASE AlterRole
  BY <1>13 DEF AlterRole, TypeOK, Location, PostgreSQL, HasPassword, ServerUp
<1>14. CASE ProbeDatabase
  BY <1>14 DEF ProbeDatabase, Probe, TypeOK, Location
<1>15. CASE CreateNetwork
  BY <1>15 DEF CreateNetwork, TypeOK, Daemon, Container, Location, File
<1>16. CASE InspectContainer
  BY <1>16 DEF InspectContainer, TypeOK, Daemon, Container, Location, File
<1>17. CASE CreateContainer
  BY <1>17 DEF CreateContainer, TypeOK, Daemon, Container, Location, File
<1>18. CASE StartContainer
  <2>1. container' \in Container /\ pc' \in Location
    BY <1>18 DEF StartContainer, TypeOK, Container, Location
  <2>. QED BY <1>18, <2>1 DEF StartContainer, TypeOK
<1>19. CASE SaveStage
  <2>1. recorded \in 0..3 /\ recorded' = recorded + 1
    BY <1>19 DEF SaveStage, Place, TypeOK
  <2>2. recorded' \in 0..4
    BY <2>1
  <2>3. pc' \in Location
    BY <1>19, <2>1 DEF SaveStage, Order, Location, File
  <2>. QED BY <1>19, <2>2, <2>3 DEF SaveStage, TypeOK
<1>20. CASE Validate
  BY <1>20 DEF Validate, TypeOK, Daemon, Container, Location, File
<1>21. CASE ProbeNetwork
  BY <1>21 DEF ProbeNetwork, Probe, TypeOK, Location
<1>22. CASE Refused
  BY <1>22 DEF Refused, Installing, TypeOK, Daemon, Container, Location, File
<1>23. CASE Stop
  <2>1. file' \in [File -> Content]
    BY <1>23, Contents DEF Stop, Torn, TypeOK
  <2>2. stops' \in 0..MaxStops
    BY <1>23, MaxStopsAssumption DEF Stop, TypeOK
  <2>. QED BY <1>23, <2>1, <2>2 DEF Stop, TypeOK, Location
<1>24. CASE Reboot
  BY <1>24, LoadedServer DEF Reboot, TypeOK
<1>25. CASE PutAside
  BY <1>25 DEF PutAside, TypeOK, Daemon, Container, Location, File
<1>26. CASE DropTCP
  BY <1>26 DEF DropTCP, TypeOK, Daemon, Container, Location, File
<1>27. CASE ConfigurePackages
  BY <1>27 DEF ConfigurePackages, TypeOK, Daemon, Container, Location, File
<1>28. CASE UNCHANGED vars
  BY <1>28 DEF TypeOK, Daemon, Container, Location, File, Marked
<1>. QED BY <1>1, <1>2, <1>3, <1>4, <1>5, <1>6, <1>7, <1>8, <1>9, <1>10,
           <1>11, <1>12, <1>13, <1>14, <1>15, <1>16, <1>17, <1>18, <1>19,
           <1>20, <1>21, <1>22, <1>23, <1>24, <1>25, <1>26, <1>27, <1>28 DEF Next,
           Call

(* Every step keeps the calls of a stage where they belong.                *)
LEMMA StepPlace == IInv /\ [Next]_vars => Place'
<1>. SUFFICES ASSUME IInv, [Next]_vars PROVE Place'
  OBVIOUS
<1>. USE PasswordAssumption DEF IInv, At, Goto, Move, hostVars, runVars, vars
<1>1. CASE Launch
  BY <1>1 DEF Launch, Order, TypeOK, Place, SettingsWritten, RulesWritten,
     HasPassword, ServerUp, Probing, File
<1>2. ASSUME NEW f \in File, Open(f) PROVE Place'
  BY <1>2 DEF Open, File, TypeOK, Place, SettingsWritten, RulesWritten,
     HasPassword, ServerUp, Probing
<1>3. ASSUME NEW f \in File, Fill(f) PROVE Place'
  BY <1>3, AfterValues DEF Fill, Text, File, Prepended, Marked, TypeOK,
     Place, SettingsWritten, RulesWritten, HasPassword, ServerUp, Probing
<1>4. CASE Refresh
  BY <1>4 DEF Refresh, TypeOK, Place, SettingsWritten, RulesWritten,
     HasPassword, ServerUp, Probing, File
<1>5. CASE InstallPostgres
  BY <1>5 DEF InstallPostgres, TypeOK, Place, SettingsWritten, RulesWritten,
     HasPassword, ServerUp, Probing, File
<1>6. CASE InstallDocker
  BY <1>6 DEF InstallDocker, TypeOK, Place, SettingsWritten, RulesWritten,
     HasPassword, ServerUp, Probing, File
<1>7. CASE ConfigureDaemon
  BY <1>7 DEF ConfigureDaemon, Merged, TypeOK, Place, SettingsWritten,
     RulesWritten, HasPassword, ServerUp, Probing, File
<1>8. CASE EnableDocker
  BY <1>8 DEF EnableDocker, TypeOK, Place, SettingsWritten, RulesWritten,
     HasPassword, ServerUp, Probing, File
<1>9. CASE RestartDocker
  BY <1>9 DEF RestartDocker, TypeOK, Place, SettingsWritten, RulesWritten,
     HasPassword, ServerUp, Probing, File
<1>10. CASE ReadRules
  BY <1>10 DEF ReadRules, Marked, TypeOK, Place, SettingsWritten,
     RulesWritten, HasPassword, ServerUp, Probing, File
<1>11. CASE ReadPassword
  BY <1>11 DEF ReadPassword, TypeOK, Place, SettingsWritten, RulesWritten,
     HasPassword, ServerUp, Probing, File
<1>12. CASE RestartPostgres
  BY <1>12 DEF RestartPostgres, Loaded, Loadable, TypeOK, Place,
     SettingsWritten, RulesWritten, HasPassword, ServerUp, Probing, File
<1>13. CASE AlterRole
  BY <1>13 DEF AlterRole, Connects, AdmitsLocal, TypeOK, Place,
     SettingsWritten, RulesWritten, HasPassword, ServerUp, Probing, File
<1>14. CASE ProbeDatabase
  BY <1>14 DEF ProbeDatabase, Probe, SettingsWritten, RulesWritten,
     HasPassword, ServerUp, Probing, TypeOK, Place, File
<1>15. CASE CreateNetwork
  BY <1>15 DEF CreateNetwork, TypeOK, Place, SettingsWritten, RulesWritten,
     HasPassword, ServerUp, Probing, File
<1>16. CASE InspectContainer
  BY <1>16 DEF InspectContainer, TypeOK, Place, SettingsWritten,
     RulesWritten, HasPassword, ServerUp, Probing, File
<1>17. CASE CreateContainer
  BY <1>17 DEF CreateContainer, TypeOK, Place, SettingsWritten,
     RulesWritten, HasPassword, ServerUp, Probing, File
<1>18. CASE StartContainer
  BY <1>18 DEF StartContainer, TypeOK, Place, SettingsWritten, RulesWritten,
     HasPassword, ServerUp, Probing, File
<1>19. CASE SaveStage
  BY <1>19 DEF SaveStage, Order, TypeOK, Place, SettingsWritten,
     RulesWritten, HasPassword, ServerUp, Probing, File
<1>20. CASE Validate
  BY <1>20 DEF Validate, TypeOK, Place, SettingsWritten, RulesWritten,
     HasPassword, ServerUp, Probing, File
<1>21. CASE ProbeNetwork
  BY <1>21 DEF ProbeNetwork, Probe, TypeOK, Place, SettingsWritten,
     RulesWritten, HasPassword, ServerUp, Probing, File
<1>22. CASE Refused
  BY <1>22 DEF Refused, Installing, TypeOK, Place, SettingsWritten,
     RulesWritten, HasPassword, ServerUp, Probing, File
<1>23. CASE Stop
  BY <1>23 DEF Stop, Torn, Installing, File, TypeOK, Place, SettingsWritten,
     RulesWritten, HasPassword, ServerUp, Probing
<1>24. CASE Reboot
  BY <1>24 DEF Reboot, Loaded, Loadable, TypeOK, Place, SettingsWritten,
     RulesWritten, HasPassword, ServerUp, Probing, File
<1>25. CASE PutAside
  BY <1>25 DEF PutAside, TypeOK, Place, SettingsWritten, RulesWritten,
     HasPassword, ServerUp, Probing, File
<1>26. CASE DropTCP
  BY <1>26 DEF DropTCP, TypeOK, Place, SettingsWritten, RulesWritten,
     HasPassword, ServerUp, Probing, File
<1>27. CASE ConfigurePackages
  BY <1>27 DEF ConfigurePackages, TypeOK, Place, SettingsWritten, RulesWritten,
     HasPassword, ServerUp, Probing, File
<1>28. CASE UNCHANGED vars
  BY <1>28 DEF TypeOK, Place, SettingsWritten, RulesWritten, HasPassword,
     ServerUp, Probing, File, Marked
<1>. QED BY <1>1, <1>2, <1>3, <1>4, <1>5, <1>6, <1>7, <1>8, <1>9, <1>10,
           <1>11, <1>12, <1>13, <1>14, <1>15, <1>16, <1>17, <1>18, <1>19,
           <1>20, <1>21, <1>22, <1>23, <1>24, <1>25, <1>26, <1>27, <1>28 DEF Next,
           Call

(* Every step keeps what the packages stage has brought about.             *)
LEMMA StepPackages == IInv /\ [Next]_vars => Packages'
<1>. SUFFICES ASSUME IInv, [Next]_vars PROVE Packages'
  OBVIOUS
<1>. USE PasswordAssumption DEF IInv, At, Goto, Move, hostVars, runVars, vars
<1>1. CASE Launch
  BY <1>1 DEF Launch, Order, TypeOK, Place, Packages, Beyond,
     SettingsWritten, RulesWritten, HasPassword, ServerUp, Probing, Marked,
     File
<1>2. ASSUME NEW f \in File, Open(f) PROVE Packages'
  BY <1>2 DEF Open, File, TypeOK, Place, Packages, Beyond, SettingsWritten,
     RulesWritten, HasPassword, ServerUp, Probing, Marked
<1>3. ASSUME NEW f \in File, Fill(f) PROVE Packages'
  BY <1>3, AfterValues DEF Fill, Text, File, Prepended, Marked, TypeOK,
     Place, Packages, Beyond, SettingsWritten, RulesWritten, HasPassword,
     ServerUp, Probing
<1>4. CASE Refresh
  BY <1>4 DEF Refresh, TypeOK, Place, Packages, Beyond, SettingsWritten,
     RulesWritten, HasPassword, ServerUp, Probing, Marked, File
<1>5. CASE InstallPostgres
  BY <1>5 DEF InstallPostgres, TypeOK, Place, Packages, Beyond,
     SettingsWritten, RulesWritten, HasPassword, ServerUp, Probing, Marked,
     File
<1>6. CASE InstallDocker
  BY <1>6 DEF InstallDocker, TypeOK, Place, Packages, Beyond,
     SettingsWritten, RulesWritten, HasPassword, ServerUp, Probing, Marked,
     File
<1>7. CASE ConfigureDaemon
  BY <1>7 DEF ConfigureDaemon, Merged, TypeOK, Place, Packages, Beyond,
     SettingsWritten, RulesWritten, HasPassword, ServerUp, Probing, Marked,
     File
<1>8. CASE EnableDocker
  BY <1>8 DEF EnableDocker, TypeOK, Place, Packages, Beyond,
     SettingsWritten, RulesWritten, HasPassword, ServerUp, Probing, Marked,
     File
<1>9. CASE RestartDocker
  BY <1>9 DEF RestartDocker, TypeOK, Place, Packages, Beyond,
     SettingsWritten, RulesWritten, HasPassword, ServerUp, Probing, Marked,
     File
<1>10. CASE ReadRules
  BY <1>10 DEF ReadRules, Marked, TypeOK, Place, Packages, Beyond,
     SettingsWritten, RulesWritten, HasPassword, ServerUp, Probing, File
<1>11. CASE ReadPassword
  BY <1>11 DEF ReadPassword, TypeOK, Place, Packages, Beyond,
     SettingsWritten, RulesWritten, HasPassword, ServerUp, Probing, Marked,
     File
<1>12. CASE RestartPostgres
  BY <1>12 DEF RestartPostgres, Loaded, Loadable, TypeOK, Place, Packages,
     Beyond, SettingsWritten, RulesWritten, HasPassword, ServerUp, Probing,
     Marked, File
<1>13. CASE AlterRole
  BY <1>13 DEF AlterRole, Connects, AdmitsLocal, TypeOK, Place, Packages,
     Beyond, SettingsWritten, RulesWritten, HasPassword, ServerUp, Probing,
     Marked, File
<1>14. CASE ProbeDatabase
  BY <1>14 DEF ProbeDatabase, Probe, SettingsWritten, RulesWritten,
     HasPassword, ServerUp, Probing, TypeOK, Place, Packages, Beyond,
     Marked, File
<1>15. CASE CreateNetwork
  BY <1>15 DEF CreateNetwork, TypeOK, Place, Packages, Beyond,
     SettingsWritten, RulesWritten, HasPassword, ServerUp, Probing, Marked,
     File
<1>16. CASE InspectContainer
  BY <1>16 DEF InspectContainer, TypeOK, Place, Packages, Beyond,
     SettingsWritten, RulesWritten, HasPassword, ServerUp, Probing, Marked,
     File
<1>17. CASE CreateContainer
  BY <1>17 DEF CreateContainer, TypeOK, Place, Packages, Beyond,
     SettingsWritten, RulesWritten, HasPassword, ServerUp, Probing, Marked,
     File
<1>18. CASE StartContainer
  BY <1>18 DEF StartContainer, TypeOK, Place, Packages, Beyond,
     SettingsWritten, RulesWritten, HasPassword, ServerUp, Probing, Marked,
     File
<1>19. CASE SaveStage
  BY <1>19 DEF SaveStage, Order, TypeOK, Place, Packages, Beyond,
     SettingsWritten, RulesWritten, HasPassword, ServerUp, Probing, Marked,
     File
<1>20. CASE Validate
  BY <1>20 DEF Validate, TypeOK, Place, Packages, Beyond, SettingsWritten,
     RulesWritten, HasPassword, ServerUp, Probing, Marked, File
<1>21. CASE ProbeNetwork
  BY <1>21 DEF ProbeNetwork, Probe, TypeOK, Place, Packages, Beyond,
     SettingsWritten, RulesWritten, HasPassword, ServerUp, Probing, Marked,
     File
<1>22. CASE Refused
  BY <1>22 DEF Refused, Installing, TypeOK, Place, Packages, Beyond,
     SettingsWritten, RulesWritten, HasPassword, ServerUp, Probing, Marked,
     File
<1>23. CASE Stop
  BY <1>23 DEF Stop, Torn, Installing, File, TypeOK, Place, Packages, Beyond,
     SettingsWritten, RulesWritten, HasPassword, ServerUp, Probing, Marked
<1>24. CASE Reboot
  BY <1>24 DEF Reboot, Loaded, Loadable, TypeOK, Place, Packages, Beyond,
     SettingsWritten, RulesWritten, HasPassword, ServerUp, Probing, Marked,
     File
<1>25. CASE PutAside
  BY <1>25 DEF PutAside, TypeOK, Place, Packages, Beyond, SettingsWritten,
     RulesWritten, HasPassword, ServerUp, Probing, Marked, File
<1>26. CASE DropTCP
  BY <1>26 DEF DropTCP, TypeOK, Place, Packages, Beyond, SettingsWritten,
     RulesWritten, HasPassword, ServerUp, Probing, Marked, File
<1>27. CASE ConfigurePackages
  BY <1>27 DEF ConfigurePackages, TypeOK, Place, Packages, Beyond, SettingsWritten,
     RulesWritten, HasPassword, ServerUp, Probing, Marked, File
<1>28. CASE UNCHANGED vars
  BY <1>28 DEF TypeOK, Place, Packages, Beyond, SettingsWritten,
     RulesWritten, HasPassword, ServerUp, Probing, Marked, File, Marked
<1>. QED BY <1>1, <1>2, <1>3, <1>4, <1>5, <1>6, <1>7, <1>8, <1>9, <1>10,
           <1>11, <1>12, <1>13, <1>14, <1>15, <1>16, <1>17, <1>18, <1>19,
           <1>20, <1>21, <1>22, <1>23, <1>24, <1>25, <1>26, <1>27, <1>28 DEF Next,
           Call

(* Every step keeps what the Docker stage has brought about.               *)
LEMMA StepDocker == IInv /\ [Next]_vars => Docker'
<1>. SUFFICES ASSUME IInv, [Next]_vars PROVE Docker'
  OBVIOUS
<1>. USE PasswordAssumption DEF IInv, At, Goto, Move, hostVars, runVars, vars
<1>1. CASE Launch
  BY <1>1 DEF Launch, Order, TypeOK, Place, Docker, Beyond, Daemon, File
<1>2. ASSUME NEW f \in File, Open(f) PROVE Docker'
  BY <1>2 DEF Open, File, TypeOK, Place, Docker, Beyond, Daemon
<1>3. ASSUME NEW f \in File, Fill(f) PROVE Docker'
  BY <1>3, AfterValues DEF Fill, Text, File, Prepended, Marked, TypeOK,
     Place, Docker, Beyond, Daemon
<1>4. CASE Refresh
  BY <1>4 DEF Refresh, TypeOK, Place, Docker, Beyond, Daemon, File
<1>5. CASE InstallPostgres
  BY <1>5 DEF InstallPostgres, TypeOK, Place, Docker, Beyond, Daemon, File
<1>6. CASE InstallDocker
  BY <1>6 DEF InstallDocker, TypeOK, Place, Docker, Beyond, Daemon, File
<1>7. CASE ConfigureDaemon
  BY <1>7 DEF ConfigureDaemon, Merged, TypeOK, Place, Docker, Beyond,
     Daemon, File
<1>8. CASE EnableDocker
  BY <1>8 DEF EnableDocker, TypeOK, Place, Docker, Beyond, Daemon, File
<1>9. CASE RestartDocker
  BY <1>9 DEF RestartDocker, TypeOK, Place, Docker, Beyond, Daemon, File
<1>10. CASE ReadRules
  BY <1>10 DEF ReadRules, Marked, TypeOK, Place, Docker, Beyond, Daemon, File
<1>11. CASE ReadPassword
  BY <1>11 DEF ReadPassword, TypeOK, Place, Docker, Beyond, Daemon, File
<1>12. CASE RestartPostgres
  BY <1>12 DEF RestartPostgres, Loaded, Loadable, TypeOK, Place, Docker,
     Beyond, Daemon, File
<1>13. CASE AlterRole
  BY <1>13 DEF AlterRole, Connects, AdmitsLocal, TypeOK, Place, Docker,
     Beyond, Daemon, File
<1>14. CASE ProbeDatabase
  BY <1>14 DEF ProbeDatabase, Probe, SettingsWritten, RulesWritten,
     HasPassword, ServerUp, Probing, TypeOK, Place, Docker, Beyond, Daemon,
     File
<1>15. CASE CreateNetwork
  BY <1>15 DEF CreateNetwork, TypeOK, Place, Docker, Beyond, Daemon, File
<1>16. CASE InspectContainer
  BY <1>16 DEF InspectContainer, TypeOK, Place, Docker, Beyond, Daemon, File
<1>17. CASE CreateContainer
  BY <1>17 DEF CreateContainer, TypeOK, Place, Docker, Beyond, Daemon, File
<1>18. CASE StartContainer
  BY <1>18 DEF StartContainer, TypeOK, Place, Docker, Beyond, Daemon, File
<1>19. CASE SaveStage
  BY <1>19 DEF SaveStage, Order, TypeOK, Place, Docker, Beyond, Daemon, File
<1>20. CASE Validate
  BY <1>20 DEF Validate, TypeOK, Place, Docker, Beyond, Daemon, File
<1>21. CASE ProbeNetwork
  BY <1>21 DEF ProbeNetwork, Probe, TypeOK, Place, Docker, Beyond, Daemon, File
<1>22. CASE Refused
  BY <1>22 DEF Refused, Installing, TypeOK, Place, Docker, Beyond, Daemon, File
<1>23. CASE Stop
  BY <1>23 DEF Stop, Torn, Installing, File, TypeOK, Place, Docker, Beyond,
     Daemon
<1>24. CASE Reboot
  BY <1>24 DEF Reboot, Loaded, Loadable, TypeOK, Place, Docker, Beyond,
     Daemon, File
<1>25. CASE PutAside
  BY <1>25 DEF PutAside, TypeOK, Place, Docker, Beyond, Daemon, File
<1>26. CASE DropTCP
  BY <1>26 DEF DropTCP, TypeOK, Place, Docker, Beyond, Daemon, File
<1>27. CASE ConfigurePackages
  BY <1>27 DEF ConfigurePackages, TypeOK, Place, Docker, Beyond, Daemon, File
<1>28. CASE UNCHANGED vars
  BY <1>28 DEF TypeOK, Place, Docker, Beyond, Daemon, File, Marked
<1>. QED BY <1>1, <1>2, <1>3, <1>4, <1>5, <1>6, <1>7, <1>8, <1>9, <1>10,
           <1>11, <1>12, <1>13, <1>14, <1>15, <1>16, <1>17, <1>18, <1>19,
           <1>20, <1>21, <1>22, <1>23, <1>24, <1>25, <1>26, <1>27, <1>28 DEF Next,
           Call

(* Every step keeps what the PostgreSQL stage has brought about.           *)
LEMMA StepPostgreSQL == IInv /\ [Next]_vars => PostgreSQL'
<1>. SUFFICES ASSUME IInv, [Next]_vars PROVE PostgreSQL'
  OBVIOUS
<1>. USE PasswordAssumption DEF IInv, At, Goto, Move, hostVars, runVars, vars
<1>1. CASE Launch
  BY <1>1 DEF Launch, Order, TypeOK, Place, Packages, PostgreSQL, Beyond,
     SettingsWritten, RulesWritten, HasPassword, ServerUp, Probing, Marked,
     File, Validation
<1>2. ASSUME NEW f \in File, Open(f) PROVE PostgreSQL'
  BY <1>2 DEF Open, File, TypeOK, Place, Packages, PostgreSQL, Beyond,
     SettingsWritten, RulesWritten, HasPassword, ServerUp, Probing, Marked,
     Validation
<1>3. ASSUME NEW f \in File, Fill(f) PROVE PostgreSQL'
  BY <1>3, AfterValues DEF Fill, Text, File, Prepended, Marked, TypeOK,
     Place, Packages, PostgreSQL, Beyond, SettingsWritten, RulesWritten,
     HasPassword, ServerUp, Probing, Validation
<1>4. CASE Refresh
  BY <1>4 DEF Refresh, TypeOK, Place, Packages, PostgreSQL, Beyond,
     SettingsWritten, RulesWritten, HasPassword, ServerUp, Probing, Marked,
     File, Validation
<1>5. CASE InstallPostgres
  BY <1>5 DEF InstallPostgres, TypeOK, Place, Packages, PostgreSQL, Beyond,
     SettingsWritten, RulesWritten, HasPassword, ServerUp, Probing, Marked,
     File, Validation
<1>6. CASE InstallDocker
  BY <1>6 DEF InstallDocker, TypeOK, Place, Packages, PostgreSQL, Beyond,
     SettingsWritten, RulesWritten, HasPassword, ServerUp, Probing, Marked,
     File, Validation
<1>7. CASE ConfigureDaemon
  BY <1>7 DEF ConfigureDaemon, Merged, TypeOK, Place, Packages, PostgreSQL,
     Beyond, SettingsWritten, RulesWritten, HasPassword, ServerUp, Probing,
     Marked, File, Validation
<1>8. CASE EnableDocker
  BY <1>8 DEF EnableDocker, TypeOK, Place, Packages, PostgreSQL, Beyond,
     SettingsWritten, RulesWritten, HasPassword, ServerUp, Probing, Marked,
     File, Validation
<1>9. CASE RestartDocker
  BY <1>9 DEF RestartDocker, TypeOK, Place, Packages, PostgreSQL, Beyond,
     SettingsWritten, RulesWritten, HasPassword, ServerUp, Probing, Marked,
     File, Validation
<1>10. CASE ReadRules
  BY <1>10 DEF ReadRules, Marked, TypeOK, Place, Packages, PostgreSQL,
     Beyond, SettingsWritten, RulesWritten, HasPassword, ServerUp, Probing,
     File, Validation
<1>11. CASE ReadPassword
  BY <1>11 DEF ReadPassword, TypeOK, Place, Packages, PostgreSQL, Beyond,
     SettingsWritten, RulesWritten, HasPassword, ServerUp, Probing, Marked,
     File, Validation
<1>12. CASE RestartPostgres
  BY <1>12 DEF RestartPostgres, Loaded, Loadable, TypeOK, Place, Packages,
     PostgreSQL, Beyond, SettingsWritten, RulesWritten, HasPassword,
     ServerUp, Probing, Marked, File, Validation
<1>13. CASE AlterRole
  BY <1>13 DEF AlterRole, Connects, AdmitsLocal, TypeOK, Place, Packages,
     PostgreSQL, Beyond, SettingsWritten, RulesWritten, HasPassword,
     ServerUp, Probing, Marked, File, Validation
<1>14. CASE ProbeDatabase
  BY <1>14 DEF ProbeDatabase, Probe, SettingsWritten, RulesWritten,
     HasPassword, ServerUp, Probing, TypeOK, Place, Packages, PostgreSQL,
     Beyond, Marked, File, Validation
<1>15. CASE CreateNetwork
  BY <1>15 DEF CreateNetwork, TypeOK, Place, Packages, PostgreSQL, Beyond,
     SettingsWritten, RulesWritten, HasPassword, ServerUp, Probing, Marked,
     File, Validation
<1>16. CASE InspectContainer
  BY <1>16 DEF InspectContainer, TypeOK, Place, Packages, PostgreSQL,
     Beyond, SettingsWritten, RulesWritten, HasPassword, ServerUp, Probing,
     Marked, File, Validation
<1>17. CASE CreateContainer
  BY <1>17 DEF CreateContainer, TypeOK, Place, Packages, PostgreSQL, Beyond,
     SettingsWritten, RulesWritten, HasPassword, ServerUp, Probing, Marked,
     File, Validation
<1>18. CASE StartContainer
  BY <1>18 DEF StartContainer, TypeOK, Place, Packages, PostgreSQL, Beyond,
     SettingsWritten, RulesWritten, HasPassword, ServerUp, Probing, Marked,
     File, Validation
<1>19. CASE SaveStage
  BY <1>19 DEF SaveStage, Order, TypeOK, Place, Packages, PostgreSQL,
     Beyond, SettingsWritten, RulesWritten, HasPassword, ServerUp, Probing,
     Marked, File, Validation
<1>20. CASE Validate
  BY <1>20 DEF Validate, TypeOK, Place, Packages, PostgreSQL, Beyond,
     SettingsWritten, RulesWritten, HasPassword, ServerUp, Probing, Marked,
     File, Validation
<1>21. CASE ProbeNetwork
  BY <1>21 DEF ProbeNetwork, Probe, TypeOK, Place, Packages, PostgreSQL,
     Beyond, SettingsWritten, RulesWritten, HasPassword, ServerUp, Probing,
     Marked, File, Validation
<1>22. CASE Refused
  BY <1>22 DEF Refused, Installing, TypeOK, Place, Packages, PostgreSQL,
     Beyond, SettingsWritten, RulesWritten, HasPassword, ServerUp, Probing,
     Marked, File, Validation
<1>23. CASE Stop
  BY <1>23 DEF Stop, Torn, Installing, File, TypeOK, Place, Packages,
     PostgreSQL, Beyond, SettingsWritten, RulesWritten, HasPassword, ServerUp,
     Probing, Marked, Validation
<1>24. CASE Reboot
  BY <1>24 DEF Reboot, Loaded, Loadable, TypeOK, Place, Packages,
     PostgreSQL, Beyond, SettingsWritten, RulesWritten, HasPassword,
     ServerUp, Probing, Marked, File, Validation
<1>25. CASE PutAside
  BY <1>25 DEF PutAside, TypeOK, Place, Packages, PostgreSQL, Beyond,
     SettingsWritten, RulesWritten, HasPassword, ServerUp, Probing, Marked,
     File, Validation
<1>26. CASE DropTCP
  BY <1>26 DEF DropTCP, TypeOK, Place, Packages, PostgreSQL, Beyond,
     SettingsWritten, RulesWritten, HasPassword, ServerUp, Probing, Marked,
     File, Validation
<1>27. CASE ConfigurePackages
  BY <1>27 DEF ConfigurePackages, TypeOK, Place, Packages, PostgreSQL, Beyond,
     SettingsWritten, RulesWritten, HasPassword, ServerUp, Probing, Marked,
     File, Validation
<1>28. CASE UNCHANGED vars
  BY <1>28 DEF TypeOK, Place, Packages, PostgreSQL, Beyond, SettingsWritten,
     RulesWritten, HasPassword, ServerUp, Probing, Marked, File, Validation,
     Marked
<1>. QED BY <1>1, <1>2, <1>3, <1>4, <1>5, <1>6, <1>7, <1>8, <1>9, <1>10,
           <1>11, <1>12, <1>13, <1>14, <1>15, <1>16, <1>17, <1>18, <1>19,
           <1>20, <1>21, <1>22, <1>23, <1>24, <1>25, <1>26, <1>27, <1>28 DEF Next,
           Call

(* Every step keeps what the Traefik stage has brought about.              *)
LEMMA StepTraefik == IInv /\ [Next]_vars => Traefik'
<1>. SUFFICES ASSUME IInv, [Next]_vars PROVE Traefik'
  OBVIOUS
<1>. USE PasswordAssumption DEF IInv, At, Goto, Move, hostVars, runVars, vars
<1>1. CASE Launch
  BY <1>1 DEF Launch, Order, TypeOK, Place, Traefik, Beyond, Container, File
<1>2. ASSUME NEW f \in File, Open(f) PROVE Traefik'
  BY <1>2 DEF Open, File, TypeOK, Place, Traefik, Beyond, Container
<1>3. ASSUME NEW f \in File, Fill(f) PROVE Traefik'
  BY <1>3, AfterValues DEF Fill, Text, File, Prepended, Marked, TypeOK,
     Place, Traefik, Beyond, Container
<1>4. CASE Refresh
  BY <1>4 DEF Refresh, TypeOK, Place, Traefik, Beyond, Container, File
<1>5. CASE InstallPostgres
  BY <1>5 DEF InstallPostgres, TypeOK, Place, Traefik, Beyond, Container, File
<1>6. CASE InstallDocker
  BY <1>6 DEF InstallDocker, TypeOK, Place, Traefik, Beyond, Container, File
<1>7. CASE ConfigureDaemon
  BY <1>7 DEF ConfigureDaemon, Merged, TypeOK, Place, Traefik, Beyond,
     Container, File
<1>8. CASE EnableDocker
  BY <1>8 DEF EnableDocker, TypeOK, Place, Traefik, Beyond, Container, File
<1>9. CASE RestartDocker
  BY <1>9 DEF RestartDocker, TypeOK, Place, Traefik, Beyond, Container, File
<1>10. CASE ReadRules
  BY <1>10 DEF ReadRules, Marked, TypeOK, Place, Traefik, Beyond, Container,
     File
<1>11. CASE ReadPassword
  BY <1>11 DEF ReadPassword, TypeOK, Place, Traefik, Beyond, Container, File
<1>12. CASE RestartPostgres
  BY <1>12 DEF RestartPostgres, Loaded, Loadable, TypeOK, Place, Traefik,
     Beyond, Container, File
<1>13. CASE AlterRole
  BY <1>13 DEF AlterRole, Connects, AdmitsLocal, TypeOK, Place, Traefik,
     Beyond, Container, File
<1>14. CASE ProbeDatabase
  BY <1>14 DEF ProbeDatabase, Probe, SettingsWritten, RulesWritten,
     HasPassword, ServerUp, Probing, TypeOK, Place, Traefik, Beyond,
     Container, File
<1>15. CASE CreateNetwork
  BY <1>15 DEF CreateNetwork, TypeOK, Place, Traefik, Beyond, Container, File
<1>16. CASE InspectContainer
  BY <1>16 DEF InspectContainer, TypeOK, Place, Traefik, Beyond, Container,
     File
<1>17. CASE CreateContainer
  BY <1>17 DEF CreateContainer, TypeOK, Place, Traefik, Beyond, Container, File
<1>18. CASE StartContainer
  BY <1>18 DEF StartContainer, TypeOK, Place, Traefik, Beyond, Container, File
<1>19. CASE SaveStage
  BY <1>19 DEF SaveStage, Order, TypeOK, Place, Traefik, Beyond, Container,
     File
<1>20. CASE Validate
  BY <1>20 DEF Validate, TypeOK, Place, Traefik, Beyond, Container, File
<1>21. CASE ProbeNetwork
  BY <1>21 DEF ProbeNetwork, Probe, TypeOK, Place, Traefik, Beyond,
     Container, File
<1>22. CASE Refused
  BY <1>22 DEF Refused, Installing, TypeOK, Place, Traefik, Beyond, Container,
     File
<1>23. CASE Stop
  BY <1>23 DEF Stop, Torn, Installing, File, TypeOK, Place, Traefik, Beyond,
     Container
<1>24. CASE Reboot
  BY <1>24 DEF Reboot, Loaded, Loadable, TypeOK, Place, Traefik, Beyond,
     Container, File
<1>25. CASE PutAside
  BY <1>25 DEF PutAside, TypeOK, Place, Traefik, Beyond, Container, File
<1>26. CASE DropTCP
  BY <1>26 DEF DropTCP, TypeOK, Place, Traefik, Beyond, Container, File
<1>27. CASE ConfigurePackages
  BY <1>27 DEF ConfigurePackages, TypeOK, Place, Traefik, Beyond, Container, File
<1>28. CASE UNCHANGED vars
  BY <1>28 DEF TypeOK, Place, Traefik, Beyond, Container, File, Marked
<1>. QED BY <1>1, <1>2, <1>3, <1>4, <1>5, <1>6, <1>7, <1>8, <1>9, <1>10,
           <1>11, <1>12, <1>13, <1>14, <1>15, <1>16, <1>17, <1>18, <1>19,
           <1>20, <1>21, <1>22, <1>23, <1>24, <1>25, <1>26, <1>27, <1>28 DEF Next,
           Call

(* Every step keeps what the final validation has brought about.           *)
LEMMA StepValidation == IInv /\ [Next]_vars => Validation'
<1>. SUFFICES ASSUME IInv, [Next]_vars PROVE Validation'
  OBVIOUS
<1>. USE PasswordAssumption DEF IInv, At, Goto, Move, hostVars, runVars, vars
<1>1. CASE Launch
  BY <1>1 DEF Launch, Order, TypeOK, Place, Validation
<1>2. ASSUME NEW f \in File, Open(f) PROVE Validation'
  BY <1>2 DEF Open, File, TypeOK, Place, Validation
<1>3. ASSUME NEW f \in File, Fill(f) PROVE Validation'
  BY <1>3, AfterValues DEF Fill, Text, File, Prepended, Marked, TypeOK,
     Place, Validation
<1>4. CASE Refresh
  BY <1>4 DEF Refresh, TypeOK, Place, Validation
<1>5. CASE InstallPostgres
  BY <1>5 DEF InstallPostgres, TypeOK, Place, Validation
<1>6. CASE InstallDocker
  BY <1>6 DEF InstallDocker, TypeOK, Place, Validation
<1>7. CASE ConfigureDaemon
  BY <1>7 DEF ConfigureDaemon, Merged, TypeOK, Place, Validation
<1>8. CASE EnableDocker
  BY <1>8 DEF EnableDocker, TypeOK, Place, Validation
<1>9. CASE RestartDocker
  BY <1>9 DEF RestartDocker, TypeOK, Place, Validation
<1>10. CASE ReadRules
  BY <1>10 DEF ReadRules, Marked, TypeOK, Place, Validation
<1>11. CASE ReadPassword
  BY <1>11 DEF ReadPassword, TypeOK, Place, Validation
<1>12. CASE RestartPostgres
  BY <1>12 DEF RestartPostgres, Loaded, Loadable, TypeOK, Place, Validation
<1>13. CASE AlterRole
  BY <1>13 DEF AlterRole, Connects, AdmitsLocal, TypeOK, Place, Validation
<1>14. CASE ProbeDatabase
  BY <1>14 DEF ProbeDatabase, Probe, SettingsWritten, RulesWritten,
     HasPassword, ServerUp, Probing, TypeOK, Place, Validation
<1>15. CASE CreateNetwork
  BY <1>15 DEF CreateNetwork, TypeOK, Place, Validation
<1>16. CASE InspectContainer
  BY <1>16 DEF InspectContainer, TypeOK, Place, Validation
<1>17. CASE CreateContainer
  BY <1>17 DEF CreateContainer, TypeOK, Place, Validation
<1>18. CASE StartContainer
  BY <1>18 DEF StartContainer, TypeOK, Place, Validation
<1>19. CASE SaveStage
  BY <1>19 DEF SaveStage, Order, TypeOK, Place, Validation
<1>20. CASE Validate
  BY <1>20 DEF Validate, TypeOK, Place, Validation
<1>21. CASE ProbeNetwork
  BY <1>21 DEF ProbeNetwork, Probe, TypeOK, Place, Validation
<1>22. CASE Refused
  BY <1>22 DEF Refused, Installing, TypeOK, Place, Validation
<1>23. CASE Stop
  BY <1>23 DEF Stop, Torn, Installing, File, TypeOK, Place, Validation
<1>24. CASE Reboot
  BY <1>24 DEF Reboot, Loaded, Loadable, TypeOK, Place, Validation
<1>25. CASE PutAside
  BY <1>25 DEF PutAside, TypeOK, Place, Validation
<1>26. CASE DropTCP
  BY <1>26 DEF DropTCP, TypeOK, Place, Validation
<1>27. CASE ConfigurePackages
  BY <1>27 DEF ConfigurePackages, TypeOK, Place, Validation
<1>28. CASE UNCHANGED vars
  BY <1>28 DEF TypeOK, Place, Validation, Marked
<1>. QED BY <1>1, <1>2, <1>3, <1>4, <1>5, <1>6, <1>7, <1>8, <1>9, <1>10,
           <1>11, <1>12, <1>13, <1>14, <1>15, <1>16, <1>17, <1>18, <1>19,
           <1>20, <1>21, <1>22, <1>23, <1>24, <1>25, <1>26, <1>27, <1>28 DEF Next,
           Call

(* Every step keeps the place of the distribution's rules.                 *)
LEMMA StepRules == IInv /\ Rules /\ [Next]_vars => Rules'
<1>. SUFFICES ASSUME IInv, Rules, [Next]_vars PROVE Rules'
  OBVIOUS
<1>. USE DEF At, Goto, Move, hostVars, runVars, vars, Rules, Rewriting,
         AdmitsLocal, Marked, Prepended
<1>1. CASE Launch
  BY <1>1 DEF Launch, Order, IInv, TypeOK
<1>2. ASSUME NEW f \in File, Open(f) PROVE Rules'
  <2>. USE <1>2 DEF Open, IInv, TypeOK
  <2>1. CASE f = "hba"
    BY <2>1 DEF File
  <2>2. CASE f = "backup"
    BY <2>2 DEF File
  <2>3. CASE f \notin {"hba", "backup"}
    BY <2>3 DEF File
  <2>. QED BY <2>1, <2>2, <2>3
<1>3. ASSUME NEW f \in File, Fill(f) PROVE Rules'
  <2>. USE <1>3 DEF Fill, Text, IInv, TypeOK
  <2>1. CASE f = "hba"
    BY <2>1, AfterValues DEF File
  <2>2. CASE f = "backup"
    BY <2>2, AfterValues DEF File
  <2>3. CASE f \notin {"hba", "backup"}
    BY <2>3 DEF File, After
  <2>. QED BY <2>1, <2>2, <2>3
<1>4. CASE Refresh
  BY <1>4 DEF Refresh
<1>5. CASE InstallPostgres
  BY <1>5 DEF InstallPostgres, IInv, TypeOK, File
<1>6. CASE InstallDocker
  BY <1>6 DEF InstallDocker
<1>7. CASE ConfigureDaemon
  BY <1>7 DEF ConfigureDaemon
<1>8. CASE EnableDocker
  BY <1>8 DEF EnableDocker
<1>9. CASE RestartDocker
  BY <1>9 DEF RestartDocker
<1>10. CASE ReadRules
  <2>. USE <1>10 DEF ReadRules, IInv, TypeOK
  <2>1. CASE Marked(file["hba"])
    <3>1. At("access") /\ pc' = "secret" /\ UNCHANGED <<stops, file>>
      BY <2>1
    <3>. QED BY <3>1
  <2>2. CASE ~Marked(file["hba"]) /\ file["backup"] = "absent"
    BY <2>2
  <2>3. CASE ~Marked(file["hba"]) /\ file["backup"] # "absent"
    BY <2>3 DEF Place, File
  <2>. QED BY <2>1, <2>2, <2>3
<1>11. CASE ReadPassword
  BY <1>11 DEF ReadPassword
<1>12. CASE RestartPostgres
  BY <1>12 DEF RestartPostgres
<1>13. CASE AlterRole
  BY <1>13 DEF AlterRole
<1>14. CASE ProbeDatabase
  BY <1>14 DEF ProbeDatabase, Probe
<1>15. CASE CreateNetwork
  BY <1>15 DEF CreateNetwork
<1>16. CASE InspectContainer
  BY <1>16 DEF InspectContainer
<1>17. CASE CreateContainer
  BY <1>17 DEF CreateContainer
<1>18. CASE StartContainer
  BY <1>18 DEF StartContainer
<1>19. CASE SaveStage
  BY <1>19 DEF SaveStage, Order, IInv, TypeOK, Place
<1>20. CASE Validate
  BY <1>20 DEF Validate
<1>21. CASE ProbeNetwork
  BY <1>21 DEF ProbeNetwork, Probe
<1>22. CASE Refused
  BY <1>22 DEF Refused, Installing
<1>23. CASE Stop
  <2>1. /\ pc' = "idle" /\ stops \in Nat /\ stops' = stops + 1
        /\ UNCHANGED data /\ file \in [File -> Content]
    BY <1>23 DEF Stop, IInv, TypeOK <2>2. CASE UNCHANGED file BY <2>1, <2>2 <2>3.
     ASSUME NEW f \in File, NEW text \in Torn(f), writing, At(f), file' = [file
     EXCEPT ![f] = text] PROVE Rules' <3>1. CASE f = "hba" BY <2>1, <2>3, <3>1
     DEF File <3>2. CASE f = "backup" BY <2>1, <2>3, <3>2 DEF File <3>3. CASE f
     \notin {"hba", "backup"} BY <2>1, <2>3, <3>3 DEF File <3>. QED BY <3>1,
     <3>2, <3>3 <2>. QED BY <1>23, <2>2, <2>3 DEF Stop
<1>24. CASE Reboot
  BY <1>24 DEF Reboot
<1>25. CASE PutAside
  BY <1>25 DEF PutAside
<1>26. CASE DropTCP
  BY <1>26 DEF DropTCP
<1>27. CASE ConfigurePackages
  BY <1>27 DEF ConfigurePackages
<1>28. CASE UNCHANGED vars
  BY <1>28
<1>. QED BY <1>1, <1>2, <1>3, <1>4, <1>5, <1>6, <1>7, <1>8, <1>9, <1>10,
           <1>11, <1>12, <1>13, <1>14, <1>15, <1>16, <1>17, <1>18, <1>19,
           <1>20, <1>21, <1>22, <1>23, <1>24, <1>25, <1>26, <1>27, <1>28 DEF Next,
           Call

(* A fresh host satisfies the invariants.                                  *)
LEMMA InitIInv == Init => IInv /\ Rules
<1>. SUFFICES ASSUME Init PROVE IInv /\ Rules
  OBVIOUS
<1>1. TypeOK
  <2>1. file \in [File -> Content] /\ postgres \in Server \union {None}
    BY Contents DEF Init, Server
  <2>2. container \in Container \union {None}
    BY DEF Init, Container
  <2>3. daemon \in Daemon /\ dockerd \in Daemon \union {"down"}
    BY DEF Init, Daemon
  <2>4. stops \in 0..MaxStops /\ data \in Content
    BY Contents, MaxStopsAssumption DEF Init
  <2>5. probe \in SUBSET {"database", "network"} /\ recorded \in 0..4
    BY DEF Init
  <2>6. network \in BOOLEAN /\ role \in Password \union {None}
    BY DEF Init
  <2>7. /\ pc \in Location /\ {writing, changed, validated} \subseteq BOOLEAN
        /\ dpkg \in {"ready", "interrupted"}
    BY DEF Init, Location
  <2>. QED BY <2>1, <2>2, <2>3, <2>4, <2>5, <2>6, <2>7 DEF TypeOK
<1>2. Place /\ Validation
  BY DEF Init, Place, Validation, SettingsWritten, RulesWritten, HasPassword,
         ServerUp, Probing
<1>3. Packages /\ Docker /\ PostgreSQL /\ Traefik
  BY DEF Init, Packages, Docker, PostgreSQL, Traefik, SettingsWritten, File,
         RulesWritten, HasPassword, ServerUp, Probing, Beyond
<1>4. Rules
  BY DEF Init, Rules, Rewriting, AdmitsLocal, At, File
<1>. QED BY <1>1, <1>2, <1>3, <1>4 DEF IInv

(* The invariant is inductive.                                             *)
LEMMA StepIInv == IInv /\ [Next]_vars => IInv'
BY StepTypeOK, StepPlace, StepPackages, StepDocker, StepPostgreSQL,
   StepTraefik, StepValidation DEF IInv

(* At every call of every run, each stage has brought the host as far as   *)
(* its calls before this one say.                                          *)
THEOREM Invariance == Spec => []IInv
BY InitIInv, StepIInv, PTL DEF Spec

(* Every variable keeps its type.                                          *)
THEOREM TypeCorrect == Spec => []TypeOK
BY Invariance, PTL DEF IInv

(* A stage is in force as soon as it is about to be recorded.              *)
LEMMA InForceBeyond ==
  ASSUME IInv, NEW n \in 1..4, Beyond(n)
  PROVE  InForce(n)
<1>1. CASE n = 1
  BY <1>1 DEF IInv, Packages, InForce
<1>2. CASE n = 2
  BY <1>2 DEF IInv, Docker, InForce
<1>3. CASE n = 3
  BY <1>3 DEF IInv, PostgreSQL, InForce
<1>4. CASE n = 4
  BY <1>4 DEF IInv, Traefik, InForce
<1>. QED BY <1>1, <1>2, <1>3, <1>4

(* Repair may skip a stage that state.json records: however many runs      *)
(* stopped in it and wherever, what provision and its stages               *)
(* (internal/cli/installer.go:175) write, start and create is there and in *)
(* force.  Of pg_hba.conf, that means managed, loaded and letting postgres *)
(* in: rules behind a cut may be lost (postgresql.go:106).                 *)
THEOREM StagesRecorded == Spec => []RecordedStagesInForce
<1>1. IInv => RecordedStagesInForce
  BY InForceBeyond DEF IInv, TypeOK, Beyond, RecordedStagesInForce
<1>. QED BY <1>1, Invariance, PTL

(* Once PostgreSQL is recorded its temporary database is gone, and after   *)
(* the final validation the temporary network: those of stopped runs       *)
(* included.                                                               *)
THEOREM NoLeftovers == Spec => []ProbesRemoved
<1>1. IInv => ProbesRemoved
  BY DEF IInv, PostgreSQL, Validation, Beyond, ProbesRemoved
<1>. QED BY <1>1, Invariance, PTL

(* configureAccess (internal/postgresql/postgresql.go:95) never loses the  *)
(* distribution's rules to a single stopped run.                           *)
THEOREM OneStop == Spec => []OneStopKeepsRules
<1>1. IInv /\ Rules => OneStopKeepsRules
  BY DEF IInv, TypeOK, Rules, Rewriting, At, AdmitsLocal, OneStopKeepsRules
<1>2. (IInv /\ Rules) /\ [Next]_vars => (IInv /\ Rules)'
  BY StepIInv, StepRules
<1>. QED BY <1>1, <1>2, InitIInv, PTL DEF Spec

(* No call of the installer replaces or removes a Traefik container that   *)
(* exists, or starts one that is not compatible                            *)
(* (internal/traefik/traefik.go:98).                                       *)
THEOREM ContainerKept == Spec => ContainerNeverReplaced
<1>1. IInv /\ [Next]_vars =>
        [(~At("idle") /\ container # None) =>
           container.compatible
             /\ container' = [container EXCEPT !.up = TRUE]]_container
  <2>. SUFFICES ASSUME IInv, Next, ~At("idle"), container # None,
                       container' # container
                PROVE container.compatible
                        /\ container' = [container EXCEPT !.up = TRUE]
    BY DEF vars, hostVars
  <2>. USE DEF At, Move, Goto, hostVars, runVars
  <2>1. CASE StartContainer
    BY <2>1 DEF StartContainer, IInv, Traefik
  <2>2. CASE CreateContainer
    BY <2>2 DEF CreateContainer
  <2>3. CASE PutAside \/ Launch \/ Stop \/ Refused \/ Reboot \/ DropTCP
             \/ ConfigurePackages
    BY <2>3 DEF PutAside, Launch, Stop, Refused, Reboot, DropTCP,
       ConfigurePackages
  <2>4. ~(\E f \in File : Open(f) \/ Fill(f))
    BY DEF Open, Fill
  <2>5. CASE \/ Refresh \/ InstallPostgres \/ InstallDocker \/ ConfigureDaemon
             \/ EnableDocker \/ RestartDocker \/ ReadRules \/ ReadPassword
    BY <2>5 DEF Refresh, InstallPostgres, InstallDocker, ConfigureDaemon,
                EnableDocker, RestartDocker, ReadRules, ReadPassword
  <2>6. CASE \/ RestartPostgres \/ AlterRole \/ ProbeDatabase \/ CreateNetwork
             \/ InspectContainer \/ SaveStage \/ Validate \/ ProbeNetwork
    BY <2>6 DEF RestartPostgres, AlterRole, ProbeDatabase, Probe,
       CreateNetwork,
                InspectContainer, SaveStage, Validate, ProbeNetwork
  <2>. QED BY <2>1, <2>2, <2>3, <2>4, <2>5, <2>6 DEF Next, Call
<1>. QED BY <1>1, Invariance, PTL DEF Spec, ContainerNeverReplaced

-----------------------------------------------------------------------------
(* The rotation of the logs                                                *)

(* Until a stop, daemon.json gets the rotation from the docker stage       *)
(* alone, which then restarts the daemon.                                  *)
Rotation ==
  stops = 0 =>
    /\ ~Beyond(2) /\ pc \notin {"docker_enable", "docker_restart"} =>
         daemon # "rotating"
    /\ pc = "docker_enable" /\ daemon = "rotating" => changed
    /\ Beyond(2) /\ daemon = "rotating" => dockerd = "rotating"

(* The calls of the docker stage and the reboot apart, no step touches     *)
(* Docker's settings or ends that stage.                                   *)
LEMMA StepRotation == IInv /\ Rotation /\ [Next]_vars => Rotation'
<1>. SUFFICES ASSUME IInv, Rotation, [Next]_vars PROVE Rotation'
  OBVIOUS
<1>. USE DEF At, Goto, Move, hostVars, runVars, Beyond, Rotation
<1>t. TypeOK /\ Place /\ Docker
  BY DEF IInv
<1>1. ASSUME UNCHANGED <<recorded, daemon, dockerd, changed>>,
             stops' = 0 => stops = 0,
             pc \notin {"docker_enable", "docker_restart"} \/ pc' = pc \/ stops' # 0,
             pc' = pc \/ pc' \notin {"docker_enable", "docker_restart"},
             (pc' = "save" \/ pc = "save") => recorded # 1 \/ pc' = pc \/ stops' # 0
      PROVE  Rotation'
  BY <1>1
<1>2. CASE InstallDocker
  BY <1>t, <1>2 DEF InstallDocker, Place
<1>3. CASE ConfigureDaemon
  <2>1. /\ pc = "daemon" /\ recorded = 1 /\ pc' = "docker_enable" /\ recorded' = recorded
        /\ stops' = stops /\ daemon' = Merged /\ (changed' <=> Merged # daemon)
    BY <1>t, <1>3 DEF ConfigureDaemon, Place
  <2>2. stops = 0 => daemon # "rotating"
    BY <2>1
  <2>. QED BY <2>1, <2>2
<1>4. CASE EnableDocker
  BY <1>t, <1>4 DEF EnableDocker, Place
<1>5. CASE RestartDocker
  BY <1>t, <1>5 DEF RestartDocker, Place
<1>6. CASE SaveStage
  <2>1. /\ recorded \in 0..3 /\ recorded' = recorded + 1 /\ pc = "save"
        /\ UNCHANGED <<stops, daemon, dockerd>>
    BY <1>t, <1>6 DEF SaveStage, Place, TypeOK
  <2>2. pc' \notin {"save", "docker_enable", "docker_restart"}
    BY <1>6, <2>1 DEF SaveStage, Order
  <2>3. Beyond(2)' <=> Beyond(2)
    BY <2>1, <2>2
  <2>. QED BY <2>1, <2>2, <2>3
<1>7. CASE Launch
  <2>1. pc' \notin {"save", "docker_enable", "docker_restart"}
    BY <1>t, <1>7 DEF Launch, Order, TypeOK
  <2>. QED BY <1>1, <1>7, <2>1 DEF Launch
<1>8. ASSUME NEW f \in File, Open(f) \/ Fill(f) PROVE Rotation'
  <2>1. /\ pc \in File
        /\ pc' \in {pc, "pg_install", "access", "hba", "secret", "pg_restart", "network"}
        /\ UNCHANGED <<recorded, daemon, dockerd, changed, stops>>
    BY <1>8, AfterValues DEF Open, Fill
  <2>. QED BY <1>1, <1>8, <2>1 DEF Open, Fill, File
<1>9. CASE \/ Refresh \/ ReadRules \/ ReadPassword \/ RestartPostgres \/ AlterRole
           \/ CreateNetwork \/ InspectContainer \/ CreateContainer \/ Validate
  BY <1>1, <1>9 DEF Refresh, ReadRules, ReadPassword, RestartPostgres, AlterRole,
     CreateNetwork, InspectContainer, CreateContainer, Validate
<1>10. CASE InstallPostgres
  BY <1>t, <1>1, <1>10 DEF InstallPostgres, Place
<1>11. CASE StartContainer
  BY <1>t, <1>1, <1>11 DEF StartContainer, Place
<1>12. CASE ProbeDatabase
  BY <1>t, <1>1, <1>12 DEF ProbeDatabase, Probe, Place, SettingsWritten, RulesWritten,
     HasPassword, ServerUp, Probing
<1>13. CASE ProbeNetwork
  BY <1>1, <1>13 DEF ProbeNetwork, Probe
<1>14. CASE Refused
  BY <1>1, <1>14 DEF Refused, Installing
<1>15. CASE Stop
  <2>1. stops' # 0
    BY <1>t, <1>15 DEF Stop, TypeOK
  <2>. QED BY <2>1
<1>16. CASE Reboot
  BY <1>t, <1>16 DEF Reboot, Docker
<1>17. CASE PutAside
  BY <1>17 DEF PutAside
<1>18. CASE DropTCP
  BY <1>18 DEF DropTCP
<1>19. CASE ConfigurePackages
  BY <1>19 DEF ConfigurePackages
<1>20. CASE UNCHANGED vars
  BY <1>20 DEF vars
<1>. QED BY <1>2, <1>3, <1>4, <1>5, <1>6, <1>7, <1>8, <1>9, <1>10, <1>11,
           <1>12, <1>13, <1>14, <1>15, <1>16, <1>17, <1>18, <1>19, <1>20 DEF Next, Call

(* internal/docker/docker.go:44-55: while no run stopped, a daemon.json    *)
(* with bounded rotation is the one the live daemon started with, whatever *)
(* Docker the host came with, was refused or was rebooted.                 *)
THEOREM RotationKept == Spec => []UninterruptedRotation
<1>1. Init => Rotation
  BY DEF Init, Rotation, Beyond
<1>2. IInv /\ Rotation /\ [Next]_vars => Rotation'
  BY StepRotation
<1>3. Rotation => UninterruptedRotation
  BY DEF Rotation, UninterruptedRotation, RotationInForce, Beyond
<1>. QED BY <1>1, <1>2, <1>3, Invariance, PTL DEF Spec

-----------------------------------------------------------------------------
(* The errors a run can meet                                               *)

(* The temporary objects are created after those of earlier runs are gone. *)
ProbesCleared ==
  /\ pc = "probe_create" => "database" \notin probe
  /\ pc = "net_create" => "network" \notin probe

(* Only removing a leftover leads to the creation of a temporary object.   *)
LEMMA StepProbesCleared == IInv /\ ProbesCleared /\ [Next]_vars => ProbesCleared'
<1>. SUFFICES ASSUME IInv, ProbesCleared, [Next]_vars PROVE ProbesCleared'
  OBVIOUS
<1>. USE DEF At, Goto, Move, hostVars, runVars, ProbesCleared
<1>t. TypeOK /\ Place
  BY DEF IInv
<1>1. CASE ProbeDatabase \/ ProbeNetwork
  BY <1>1 DEF ProbeDatabase, ProbeNetwork, Probe
<1>2. ASSUME pc' \notin {"probe_create", "net_create"} PROVE ProbesCleared'
  BY <1>2
<1>3. CASE SaveStage
  <2>1. recorded \in 0..3
    BY <1>t, <1>3 DEF SaveStage, Place, TypeOK
  <2>. QED BY <1>2, <1>3, <2>1 DEF SaveStage, Order
<1>4. CASE Launch
  BY <1>t, <1>2, <1>4 DEF Launch, Order, TypeOK
<1>5. ASSUME NEW f \in File, Open(f) \/ Fill(f) PROVE ProbesCleared'
  BY <1>2, <1>5, AfterValues DEF Open, Fill, File
<1>6. CASE \/ Refresh \/ InstallPostgres \/ InstallDocker \/ ConfigureDaemon
           \/ EnableDocker \/ RestartDocker \/ ReadRules \/ ReadPassword
           \/ RestartPostgres \/ AlterRole
  BY <1>2, <1>6 DEF Refresh, InstallPostgres, InstallDocker, ConfigureDaemon,
     EnableDocker, RestartDocker, ReadRules, ReadPassword, RestartPostgres, AlterRole
<1>7. CASE \/ CreateNetwork \/ InspectContainer \/ CreateContainer
           \/ StartContainer \/ Validate \/ Refused \/ Stop
  BY <1>2, <1>7 DEF CreateNetwork, InspectContainer, CreateContainer,
     StartContainer, Validate, Refused, Stop
<1>8. CASE Reboot \/ PutAside \/ DropTCP \/ ConfigurePackages \/ UNCHANGED vars
  BY <1>8 DEF Reboot, PutAside, DropTCP, ConfigurePackages, vars
<1>. QED BY <1>1, <1>3, <1>4, <1>5, <1>6, <1>7, <1>8 DEF Next, Call

(* What each call of a run needs beside what Refused names: the guards of  *)
(* the calls whose failure would be neither a step nor a named error.      *)
CallsPossible ==
  /\ pc = "access" => file["hba"] # "absent"
  /\ pc \in {"network", "inspect", "validate"} => dockerd # "down"
  /\ pc = "run" => container = None
  /\ pc \in {"start", "validate"} => container # None
  /\ pc = "probe_create" => "database" \notin probe
  /\ pc = "net_create" => "network" \notin probe
  /\ pc = "validate" => postgres # None

(* What is a server is not None.                                           *)
LEMMA ServerRuns ==
  ASSUME IInv, pc \in ServerUp \/ Beyond(3)
  PROVE  postgres # None
<1>1. [settings |-> "whole", hba |-> file["hba"]] \in Server
  BY Contents DEF IInv, TypeOK, File, Server
<1>. QED BY <1>1, NoneAssumption DEF IInv, PostgreSQL

(* A run never waits: at every call it makes, the call succeeds or is one  *)
(* of the errors OnlyNamedRefusals names.                                  *)
THEOREM RunsNeverStuck == Spec => []CallsPossible
<1>1. Init => ProbesCleared
  BY DEF Init, ProbesCleared
<1>2. IInv /\ ProbesCleared /\ [Next]_vars => ProbesCleared'
  BY StepProbesCleared
<1>3. IInv /\ ProbesCleared => CallsPossible
  <2>. SUFFICES ASSUME IInv, ProbesCleared PROVE CallsPossible
    OBVIOUS
  <2>1. pc = "access" => Beyond(1)
    BY DEF IInv, Place, SettingsWritten, Beyond
  <2>2. pc \in {"network", "inspect", "validate"} => Beyond(2)
    BY DEF IInv, Place, Beyond
  <2>3. pc = "validate" => Beyond(3) /\ Beyond(4)
    BY DEF IInv, Place, Beyond
  <2>4. Beyond(3) => postgres # None
    BY ServerRuns
  <2>5. pc = "start" \/ Beyond(4) => container # None
    BY NoneAssumption DEF IInv, Traefik
  <2>. QED BY <2>1, <2>2, <2>3, <2>4, <2>5
           DEF IInv, Packages, Docker, PostgreSQL, Traefik, ProbesCleared,
               CallsPossible
<1>. QED BY <1>1, <1>2, <1>3, Invariance, PTL DEF Spec

(* A repeated run is only refused for what DeadEnd names, for a TCP host   *)
(* in daemon.json (internal/docker/docker.go:89), for an incompatible      *)
(* container (internal/traefik/traefik.go:98-105) or for an installation   *)
(* that broke off.                                                         *)
THEOREM RefusalsNamed == Spec => OnlyNamedRefusals
<1>1. Init => ProbesCleared
  BY DEF Init, ProbesCleared
<1>2. IInv /\ ProbesCleared /\ [Next]_vars => ProbesCleared'
  BY StepProbesCleared
<1>3. IInv /\ ProbesCleared /\ [Next]_vars =>
        [Refused => \/ DeadEnd
                    \/ daemon = "tcp"
                    \/ container # None /\ ~container.compatible
                    \/ dpkg = "interrupted"]_vars
  <2>. SUFFICES ASSUME IInv, ProbesCleared, Refused
                PROVE  \/ DeadEnd
                       \/ daemon = "tcp"
                       \/ container # None /\ ~container.compatible
                       \/ dpkg = "interrupted"
    OBVIOUS
  <2>1. ASSUME pc = "role", ~Connects PROVE DeadEnd
    <3>1. postgres = [settings |-> "whole", hba |-> file["hba"]] /\ Marked(file["hba"])
      BY <2>1 DEF IInv, PostgreSQL, ServerUp, HasPassword, RulesWritten
    <3>2. postgres # None
      BY <2>1, ServerRuns DEF ServerUp
    <3>. QED BY <2>1, <3>1, <3>2 DEF Connects, AdmitsLocal, Marked, DeadEnd
  <2>2. pc = "validate" => postgres # None
    BY ServerRuns DEF IInv, Place, Beyond
  <2>. QED BY <2>1, <2>2 DEF Refused, At, ProbesCleared, DeadEnd
<1>. QED BY <1>1, <1>2, <1>3, Invariance, PTL DEF Spec, OnlyNamedRefusals

-----------------------------------------------------------------------------
(* Stages implements StageLedger                                           *)

(* The settings of PostgreSQL are left alone before its stage.             *)
Untouched == recorded < 2 => file["settings"] = "absent"

(* What a step leaves as it is: every stage but the first unrecorded one.  *)
OthersKept ==
  \A n \in 1..4 : n # recorded + 1 => (InForce(n)' <=> InForce(n))

(* Only the calls of the stages write, each while its stage is next.       *)
LEMMA StepUntouched == IInv /\ Untouched /\ [Next]_vars => Untouched'
<1>. SUFFICES ASSUME IInv, Untouched, [Next]_vars PROVE Untouched'
  OBVIOUS
<1>. USE DEF At, Goto, Move, hostVars, runVars, Untouched
<1>t. TypeOK /\ Place
  BY DEF IInv
<1>1. ASSUME recorded' = recorded, file'["settings"] = file["settings"]
      PROVE  Untouched'
  BY <1>1
<1>2. ASSUME NEW f \in File, pc = f, recorded' = recorded,
             f # "settings" => file'["settings"] = file["settings"]
      PROVE  Untouched'
  BY <1>t, <1>2 DEF Place
<1>3. ASSUME NEW f \in File, Open(f) \/ Fill(f) PROVE Untouched'
  BY <1>t, <1>2, <1>3 DEF Open, Fill, TypeOK, File
<1>4. CASE Stop
  BY <1>t, <1>1, <1>2, <1>4 DEF Stop, TypeOK, File
<1>5. CASE InstallPostgres
  BY <1>t, <1>1, <1>5 DEF InstallPostgres, TypeOK, File
<1>6. CASE SaveStage
  BY <1>t, <1>6 DEF SaveStage, TypeOK
<1>7. CASE \/ Launch \/ Refresh \/ InstallDocker \/ ConfigureDaemon \/ EnableDocker
           \/ RestartDocker \/ ReadRules \/ ReadPassword \/ RestartPostgres
           \/ AlterRole \/ ProbeDatabase
  BY <1>1, <1>7 DEF Launch, Refresh, InstallDocker, ConfigureDaemon, EnableDocker,
     RestartDocker, ReadRules, ReadPassword, RestartPostgres, AlterRole,
     ProbeDatabase, Probe
<1>8. CASE \/ CreateNetwork \/ InspectContainer \/ CreateContainer \/ StartContainer
           \/ Validate \/ ProbeNetwork \/ Refused \/ Reboot \/ PutAside \/ DropTCP
           \/ ConfigurePackages \/ UNCHANGED vars
  BY <1>1, <1>8 DEF CreateNetwork, InspectContainer, CreateContainer,
     StartContainer, Validate, ProbeNetwork, Probe, Refused, Reboot, PutAside,
     DropTCP, ConfigurePackages, vars
<1>. QED BY <1>3, <1>4, <1>5, <1>6, <1>7, <1>8 DEF Next, Call

(* Where a written file belongs to the stage whose call writes it, the     *)
(* other stages are as they were.                                          *)
LEMMA WritingKeepsOthers ==
  ASSUME IInv, NEW f \in File, pc = f,
         \A g \in File \ {f} : file'[g] = file[g],
         f = "hba" => file'[f] # "absent",
         UNCHANGED <<daemon, dockerd, postgres, role, network, container>>
  PROVE  OthersKept
<1>t. TypeOK /\ Place /\ Packages
  BY DEF IInv
<1>1. CASE f = "pgdg"
  <2>1. recorded = 0
    BY <1>t, <1>1 DEF Place
  <2>2. \A n \in 2..4 : InForce(n)' <=> InForce(n)
    BY <1>1 DEF InForce, File
  <2>. QED BY <2>1, <2>2 DEF OthersKept
<1>2. CASE f \in {"settings", "backup", "hba", "password"}
  <2>1. recorded = 2
    BY <1>t, <1>2 DEF Place, SettingsWritten, RulesWritten
  <2>2. file["hba"] # "absent" /\ file'["hba"] # "absent"
    BY <1>t, <1>2, <2>1 DEF Packages, Beyond, File
  <2>3. InForce(1)' <=> InForce(1)
    BY <1>2, <2>2 DEF InForce, File
  <2>4. \A n \in {2, 4} : InForce(n)' <=> InForce(n)
    BY <1>2 DEF InForce, File
  <2>. QED BY <2>1, <2>3, <2>4 DEF OthersKept
<1>3. CASE f = "route"
  <2>1. recorded = 3
    BY <1>t, <1>3 DEF Place
  <2>2. \A n \in 1..3 : InForce(n)' <=> InForce(n)
    BY <1>3 DEF InForce, File
  <2>. QED BY <2>1, <2>2 DEF OthersKept
<1>. QED BY <1>1, <1>2, <1>3 DEF File

(* Every step but the recording of a stage leaves the other stages.        *)
LEMMA StepOthersKept ==
  ASSUME IInv, Untouched, IInv', [Next]_vars
  PROVE  SaveStage \/ (recorded' = recorded /\ OthersKept)
<1>. USE DEF At, Goto, Move, hostVars, runVars
<1>t. TypeOK /\ Place
  BY DEF IInv
<1>0. ASSUME UNCHANGED <<file, daemon, dockerd, postgres, role, network, container>>
      PROVE  OthersKept
  BY <1>0 DEF OthersKept, InForce
<1>1. CASE \/ Launch \/ Refresh \/ ReadRules \/ ReadPassword \/ ProbeDatabase
           \/ InspectContainer \/ Validate \/ ProbeNetwork \/ Refused
           \/ ConfigurePackages \/ UNCHANGED vars
  BY <1>0, <1>1 DEF Launch, Refresh, ReadRules, ReadPassword, ProbeDatabase, Probe,
     InspectContainer, Validate, ProbeNetwork, Refused, ConfigurePackages, vars
<1>2. CASE InstallDocker \/ ConfigureDaemon \/ EnableDocker \/ RestartDocker
  <2>1. /\ recorded = 1 /\ recorded' = recorded
        /\ UNCHANGED <<file, postgres, role, network, container>>
    BY <1>t, <1>2 DEF InstallDocker, ConfigureDaemon, EnableDocker, RestartDocker, Place
  <2>2. \A n \in {1, 3, 4} : InForce(n)' <=> InForce(n)
    BY <2>1 DEF InForce
  <2>. QED BY <2>1, <2>2 DEF OthersKept
<1>3. CASE RestartPostgres \/ AlterRole
  <2>1. /\ recorded = 2 /\ recorded' = recorded
        /\ UNCHANGED <<file, daemon, dockerd, network, container>>
    BY <1>t, <1>3 DEF RestartPostgres, AlterRole, Place, SettingsWritten,
       RulesWritten, HasPassword, ServerUp
  <2>2. \A n \in {1, 2, 4} : InForce(n)' <=> InForce(n)
    BY <2>1 DEF InForce
  <2>. QED BY <2>1, <2>2 DEF OthersKept
<1>4. CASE CreateNetwork \/ CreateContainer \/ StartContainer
  <2>1. /\ recorded = 3 /\ recorded' = recorded
        /\ UNCHANGED <<file, daemon, dockerd, postgres, role>>
    BY <1>t, <1>4 DEF CreateNetwork, CreateContainer, StartContainer, Place
  <2>2. \A n \in {1, 2, 3} : InForce(n)' <=> InForce(n)
    BY <2>1 DEF InForce
  <2>. QED BY <2>1, <2>2 DEF OthersKept
<1>5. CASE InstallPostgres
  <2>1. /\ recorded = 0 /\ recorded' = recorded
        /\ UNCHANGED <<daemon, dockerd, role, network, container>>
        /\ file'["route"] = file["route"] /\ file'["settings"] = file["settings"]
    BY <1>t, <1>5 DEF InstallPostgres, Place, TypeOK, File
  <2>2. \A n \in {2, 4} : InForce(n)' <=> InForce(n)
    BY <2>1 DEF InForce
  <2>3. ~InForce(3) /\ ~InForce(3)'
    BY <2>1 DEF Untouched, InForce
  <2>. QED BY <2>1, <2>2, <2>3 DEF OthersKept
<1>6. ASSUME NEW f \in File, Open(f) \/ Fill(f) PROVE recorded' = recorded /\ OthersKept
  <2>1. /\ pc = f /\ recorded' = recorded
        /\ UNCHANGED <<daemon, dockerd, postgres, role, network, container>>
    BY <1>6 DEF Open, Fill
  <2>2. PICK text \in {"empty"} \union Text(f) : file' = [file EXCEPT ![f] = text]
    BY <1>6 DEF Open, Fill
  <2>3. f = "hba" => text # "absent"
    BY <2>2 DEF Text, Prepended
  <2>4. (f = "hba" => file'[f] # "absent") /\ \A g \in File \ {f} : file'[g] = file[g]
    BY <1>t, <2>2, <2>3 DEF TypeOK
  <2>. QED BY <2>1, <2>4, WritingKeepsOthers
<1>7. CASE Stop
  <2>1. /\ recorded' = recorded
        /\ UNCHANGED <<daemon, dockerd, postgres, role, network, container>>
    BY <1>7 DEF Stop
  <2>2. CASE file' = file
    BY <1>0, <2>1, <2>2
  <2>3. ASSUME NEW f \in File, NEW text \in Torn(f), pc = f,
               file' = [file EXCEPT ![f] = text]
        PROVE  OthersKept
    <3>1. (f = "hba" => file'[f] # "absent") /\ \A g \in File \ {f} : file'[g] = file[g]
      BY <1>t, <2>3 DEF TypeOK, Torn
    <3>. QED BY <2>1, <2>3, <3>1, WritingKeepsOthers
  <2>. QED BY <1>7, <2>1, <2>2, <2>3 DEF Stop
<1>8. CASE Reboot
  <2>1. /\ recorded' = recorded /\ UNCHANGED <<file, daemon, role, network, container>>
        /\ dockerd' = "down" <=> dockerd = "down"
    BY <1>t, <1>8 DEF Reboot, TypeOK, Daemon
  <2>2. \A n \in {1, 2, 4} : InForce(n)' <=> InForce(n)
    BY <2>1 DEF InForce
  <2>3. recorded >= 3 => InForce(3) /\ InForce(3)'
    BY <2>1 DEF IInv, PostgreSQL, Beyond, InForce
  <2>4. recorded < 2 => ~InForce(3) /\ ~InForce(3)'
    BY <2>1 DEF Untouched, InForce
  <2>. QED BY <1>t, <2>1, <2>2, <2>3, <2>4 DEF OthersKept, TypeOK
<1>9. CASE PutAside
  <2>1. /\ recorded' = recorded /\ UNCHANGED <<file, daemon, dockerd, postgres, role, network>>
        /\ ~container.compatible /\ container' = None
    BY <1>9 DEF PutAside
  <2>2. \A n \in {1, 2, 3} : InForce(n)' <=> InForce(n)
    BY <2>1 DEF InForce
  <2>3. None # [compatible |-> TRUE, up |-> TRUE]
    <3>1. [compatible |-> TRUE, up |-> TRUE] \in Container
      BY DEF Container
    <3>. QED BY <3>1, NoneAssumption
  <2>4. ~InForce(4) /\ ~InForce(4)'
    BY <2>1, <2>3 DEF InForce
  <2>. QED BY <2>1, <2>2, <2>4 DEF OthersKept
<1>10. CASE DropTCP
  <2>1. /\ recorded' = recorded /\ daemon = "tcp" /\ daemon' = "default"
        /\ UNCHANGED <<file, dockerd, postgres, role, network, container>>
    BY <1>10 DEF DropTCP
  <2>. QED BY <2>1 DEF OthersKept, InForce
<1>. QED BY <1>1, <1>2, <1>3, <1>4, <1>5, <1>6, <1>7, <1>8, <1>9, <1>10 DEF Next, Call

(* A step that leaves the other stages is a step of the ledger.            *)
LEMMA LedgerPerform ==
  ASSUME TypeOK, recorded' = recorded, OthersKept
  PROVE  [Ledger!LedgerNext]_(Ledger!ledgerVars)
<1>. DEFINE force == {n \in 1..4 : InForce(n)}
            s == recorded + 1
<1>1. recorded \in 0..4
  BY DEF TypeOK
<1>2. CASE recorded = 4
  <2>1. force' = force
    BY <1>2 DEF OthersKept
  <2>. QED BY <2>1 DEF Ledger!ledgerVars
<1>3. CASE recorded # 4
  <2>1. s \in 1..4 /\ s \notin 1..recorded /\ 1..(s - 1) = 1..recorded
    BY <1>1, <1>3
  <2>2. Ledger!IsNext(s)
    BY <2>1 DEF Ledger!IsNext
  <2>3. \A n \in 1..4 : n # s => (n \in force' <=> n \in force)
    BY DEF OthersKept
  <2>4. force' \in {force \union {s}, force \ {s}}
    <3>. HIDE DEF s
    <3>1. CASE s \in force'
      <4>1. \A n : n \in force' <=> n \in force \union {s}
        BY <2>1, <2>3, <3>1
      <4>. QED BY <4>1
    <3>2. CASE s \notin force'
      <4>1. \A n : n \in force' <=> n \in force \ {s}
        BY <2>1, <2>3, <3>2
      <4>. QED BY <4>1
    <3>. QED BY <3>1, <3>2
  <2>5. Ledger!Perform(s)
    BY <2>2, <2>4 DEF Ledger!Perform
  <2>. QED BY <2>1, <2>5 DEF Ledger!LedgerNext
<1>. QED BY <1>2, <1>3

(* SaveStage records the next stage, which is in force.                    *)
LEMMA LedgerRecord ==
  ASSUME IInv, SaveStage
  PROVE  [Ledger!LedgerNext]_(Ledger!ledgerVars)
<1>. DEFINE force == {n \in 1..4 : InForce(n)}
            s == recorded + 1
<1>1. recorded \in 0..3 /\ recorded' = s /\ pc = "save" /\ UNCHANGED hostVars
  BY DEF SaveStage, Move, At, IInv, TypeOK, Place
<1>2. s \in 1..4 /\ s \notin 1..recorded /\ 1..(s - 1) = 1..recorded
      /\ 1..recorded' = (1..recorded) \union {s}
  BY <1>1
<1>3. InForce(s)
  <2>1. Beyond(s)
    BY <1>1 DEF Beyond
  <2>. QED BY <1>2, <2>1, InForceBeyond
<1>4. force' = force
  BY <1>1 DEF hostVars, InForce
<1>5. Ledger!Record(s)
  BY <1>2, <1>3, <1>4 DEF Ledger!Record, Ledger!IsNext
<1>. QED BY <1>2, <1>5 DEF Ledger!LedgerNext

(* provision (internal/cli/installer.go:175-195) implements StageLedger:   *)
(* each of its calls, stops and reboots works for the first unrecorded     *)
(* stage alone, and a stage is recorded when it is in force.               *)
THEOREM LedgerRefinement == Spec => LedgerSpec
<1>1. Init => Untouched /\ Ledger!LedgerInit
  BY DEF Init, Untouched, File, Ledger!LedgerInit
<1>2. IInv /\ IInv' /\ Untouched /\ [Next]_vars =>
        Untouched' /\ [Ledger!LedgerNext]_(Ledger!ledgerVars)
  BY StepUntouched, StepOthersKept, LedgerPerform, LedgerRecord DEF IInv
<1>. QED BY <1>1, <1>2, Invariance, PTL DEF Spec, LedgerSpec, Ledger!LedgerSpec

-----------------------------------------------------------------------------
(* A run is finite                                                         *)

(* How far each call is from the end of its stage, or of the validation.   *)
Left ==
  [idle |-> 0, save |-> 1,
   pg_install |-> 2, pgdg |-> 3, refresh |-> 4,
   docker_restart |-> 2, docker_enable |-> 3, daemon |-> 4, docker_install |-> 5,
   probe_remove |-> 2, probe_create |-> 3, probe_clear |-> 4, role |-> 5,
   pg_restart |-> 6, password |-> 7, secret |-> 8, hba |-> 9, backup |-> 10,
   access |-> 11, settings |-> 12,
   start |-> 2, run |-> 3, inspect |-> 4, network |-> 5, route |-> 6,
   net_remove |-> 1, net_create |-> 2, net_clear |-> 3, validate |-> 4]

(* A bound on the calls a run has left: the stages that are not recorded,  *)
(* the calls of this one, and the second half of a write.                  *)
CallsLeft == 26 * (4 - recorded) + 2 * Left[pc] - (IF writing THEN 1 ELSE 0)

(* Every location has its distance.                                        *)
LEMMA LeftIs ==
  /\ \A l \in Location : Left[l] \in 0..12
  /\ \A l \in File : Left[l] >= 3 /\ Left[After[l]] < Left[l]
<1>1. \A l \in Location : Left[l] \in 0..12
  BY DEF Left, Location, File
<1>2. \A l \in File : Left[l] >= 3
  BY DEF Left, File
<1>3. \A l \in File : Left[After[l]] < Left[l]
  BY AfterValues DEF Left, File
<1>. QED BY <1>1, <1>2, <1>3

(* The bound is a number: only a write in progress takes from it.          *)
LEMMA CallsLeftNat ==
  ASSUME IInv
  PROVE  CallsLeft \in Nat
<1>1. recorded \in 0..4 /\ Left[pc] \in 0..12 /\ (writing => Left[pc] >= 3)
  BY LeftIs DEF IInv, TypeOK, Place
<1>. QED BY <1>1 DEF CallsLeft

(* A call that goes on in its stage.                                       *)
LEMMA Closer ==
  ASSUME IInv, recorded' = recorded, pc' \in Location, Left[pc'] < Left[pc],
         writing' \in BOOLEAN
  PROVE  CallsLeft' < CallsLeft
<1>1. recorded \in 0..4 /\ Left[pc] \in 0..12 /\ Left[pc'] \in 0..12
  BY LeftIs DEF IInv, TypeOK
<1>2. 2 * Left[pc'] <= 2 * Left[pc] - 2
  BY <1>1
<1>. QED BY <1>1, <1>2 DEF CallsLeft

(* Whatever it meets, a run of provision and its validation ends: every    *)
(* call takes it closer to its end, and there is no loop but the clock of  *)
(* the retried commands, which are one call here.                          *)
THEOREM RunsAreFinite ==
  Spec => [](CallsLeft \in Nat) /\ [][Call => CallsLeft' < CallsLeft]_vars
<1>1. IInv /\ IInv' /\ [Next]_vars => [Call => CallsLeft' < CallsLeft]_vars
  <2>. SUFFICES ASSUME IInv, IInv', Call PROVE CallsLeft' < CallsLeft
    OBVIOUS
  <2>. USE DEF Move, At, Goto
  <2>t. TypeOK /\ Place /\ TypeOK' /\ recorded \in 0..4 /\ pc' \in Location
        /\ writing' \in BOOLEAN
    BY DEF IInv, TypeOK
  <2>1. ASSUME NEW f \in File, Open(f) PROVE CallsLeft' < CallsLeft
    <3>1. pc' = pc /\ recorded' = recorded /\ ~writing /\ writing'
      BY <2>1 DEF Open
    <3>2. Left[pc] \in 0..12
      BY <2>t, LeftIs DEF TypeOK
    <3>. QED BY <2>t, <3>1, <3>2 DEF CallsLeft
  <2>2. ASSUME NEW f \in File, Fill(f) PROVE CallsLeft' < CallsLeft
    <3>1. pc = f /\ pc' = After[f] /\ recorded' = recorded /\ writing /\ ~writing'
      BY <2>2 DEF Fill
    <3>2. Left[pc] \in 0..12 /\ Left[pc'] \in 0..12 /\ Left[pc'] < Left[pc]
      BY <2>t, <3>1, LeftIs DEF TypeOK
    <3>3. 2 * Left[pc'] < 2 * Left[pc] - 1
      BY <3>2
    <3>. QED BY <2>t, <3>1, <3>2, <3>3 DEF CallsLeft
  <2>3. CASE SaveStage
    <3>1. /\ recorded \in 0..3 /\ recorded' = recorded + 1 /\ pc = "save"
          /\ pc' \in {"docker_install", "settings", "route", "validate"}
      BY <2>t, <2>3 DEF SaveStage, Place, Order
    <3>2. Left[pc] = 1 /\ Left[pc'] \in 0..12
      BY <2>t, <3>1, LeftIs DEF Left
    <3>3. ~writing /\ ~writing'
      BY <2>t, <2>3, <3>1 DEF SaveStage, Place, File
    <3>. QED BY <3>1, <3>2, <3>3 DEF CallsLeft
  <2>4. CASE \/ Refresh \/ InstallPostgres \/ InstallDocker \/ ConfigureDaemon
             \/ EnableDocker \/ RestartDocker \/ ReadRules \/ ReadPassword
             \/ RestartPostgres \/ AlterRole \/ ProbeDatabase
    <3>1. recorded' = recorded
      BY <2>4 DEF Refresh, InstallPostgres, InstallDocker, ConfigureDaemon,
         EnableDocker, RestartDocker, ReadRules, ReadPassword, RestartPostgres,
         AlterRole, ProbeDatabase, Probe
    <3>2. Left[pc'] < Left[pc]
      BY <2>4 DEF Refresh, InstallPostgres, InstallDocker, ConfigureDaemon,
         EnableDocker, RestartDocker, ReadRules, ReadPassword, RestartPostgres,
         AlterRole, ProbeDatabase, Probe, Left
    <3>. QED BY <2>t, <3>1, <3>2, Closer
  <2>5. CASE \/ CreateNetwork \/ InspectContainer \/ CreateContainer
             \/ StartContainer \/ Validate \/ ProbeNetwork
    <3>1. recorded' = recorded
      BY <2>5 DEF CreateNetwork, InspectContainer, CreateContainer,
         StartContainer, Validate, ProbeNetwork, Probe
    <3>2. Left[pc'] < Left[pc]
      BY <2>5 DEF CreateNetwork, InspectContainer, CreateContainer,
         StartContainer, Validate, ProbeNetwork, Probe, Left
    <3>. QED BY <2>t, <3>1, <3>2, Closer
  <2>. QED BY <2>1, <2>2, <2>3, <2>4, <2>5 DEF Call
<1>. QED BY <1>1, CallsLeftNat, Invariance, PTL DEF Spec
=============================================================================
