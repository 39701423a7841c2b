------------------------------ MODULE Firewall ------------------------------
(***************************************************************************)
(* The firewall stage (internal/firewall): a plan that keeps SSH and the   *)
(* web ports open and closes the Agent and PostgreSQL ports to everyone    *)
(* but the reverse proxy, applied through ufw or nftables with a snapshot  *)
(* of the rule files to go back to.  Runs follow each other; each may fail *)
(* or be killed at any call, and the host may reboot.                      *)
(*                                                                         *)
(* What ufw, nft and systemd do is external.  ufw replaces a rule for the  *)
(* same port and source in place and appends any other; the first rule     *)
(* that matches decides, and an enabled firewall refuses the rest.  nft -f *)
(* is atomic; flushing a table keeps the elements of its sets.             *)
(***************************************************************************)
EXTENDS Naturals, Sequences

CONSTANTS
  CIDR,         \* subnets the Traefik network may have
  AdminRules,   \* ufw rules a host may have before the first run
  None

ASSUME NoneAssumption == None \notin CIDR /\ \A S \in SUBSET CIDR : S # None
ASSUME SourceAssumption == {"any", "public"} \intersect CIDR = {}

VARIABLES
  pc,
  backend,      \* what DetectBackend finds
  proxy,        \* subnet of the Traefik network now
  plan,         \* subnet the plan was built for
  step,         \* ufw command that is next
  snapshot,     \* the rule files as they were
  rules,        \* ufw: user.rules
  live,         \* ufw: the rules in the kernel
  enabled,      \* ufw: on, now and at boot
  nftFile,      \* nftables: subnet in centralcloud-installer.nft, or None
  included,     \* nftables: nftables.conf includes it
  service,      \* nftables: loaded at boot
  table,        \* nftables: subnets the table in the kernel lets through, or None
  outcome,      \* history: how the last run ended
  secured       \* history: some run has succeeded

ufwVars == <<rules, live, enabled>>
nftVars == <<nftFile, included, service, table>>
history == <<outcome, secured>>
vars == <<pc, backend, proxy, plan, step, snapshot, ufwVars, nftVars, history>>

Port == {"ssh", "web", "agent", "postgres"}
Rule == [port : Port, from : CIDR \union {"any"}, action : {"allow", "deny"}]

ASSUME AdminAssumption == AdminRules \subseteq Seq(Rule)

Allow(port, from) == [port |-> port, from |-> from, action |-> "allow"]
Deny(port) == [port |-> port, from |-> "any", action |-> "deny"]

(* What an enabled ufw lets through from a source, "public" or a subnet.   *)
Decides(rs, i, port, source) ==
  rs[i].port = port /\ rs[i].from \in {"any", source}

Accepts(rs, port, source) ==
  \E i \in DOMAIN rs :
    /\ Decides(rs, i, port, source)
    /\ rs[i].action = "allow"
    /\ \A j \in 1 .. i - 1 :
         ~(Decides(rs, j, port, source) /\ rs[j].action = "deny")

SameMatch(r, s) == r.port = s.port /\ r.from = s.from

PutRule(rs, r) ==
  IF \E i \in DOMAIN rs : SameMatch(rs[i], r)
  THEN [i \in DOMAIN rs |-> IF SameMatch(rs[i], r) THEN r ELSE rs[i]]
  ELSE Append(rs, r)

(* The rules of a ufw plan, in the order of the commands.                  *)
Build(cidr) ==
  <<Allow("ssh", "any"), Allow("web", "any"), Allow("agent", cidr),
    Deny("agent"), Deny("postgres")>>

TypeOK ==
  /\ pc \in {"idle", "dryrun", "rule", "enable", "rollback", "write", "include",
             "check", "persist", "load"}
  /\ backend \in {"ufw", "nftables"}
  /\ proxy \in CIDR
  /\ plan \in CIDR
  /\ step \in 0 .. Len(Build(plan))
  /\ rules \in Seq(Rule)
  /\ live \in Seq(Rule)
  /\ enabled \in BOOLEAN
  /\ nftFile \in CIDR \union {None}
  /\ included \in BOOLEAN
  /\ service \in BOOLEAN
  /\ table \in (SUBSET CIDR) \union {None}
  /\ snapshot \in [rules : Seq(Rule), nftFile : CIDR \union {None},
                   included : BOOLEAN]
  /\ outcome \in {"none", "ok", "failed"}
  /\ secured \in BOOLEAN

RuleFiles == [rules |-> rules, nftFile |-> nftFile, included |-> included]

(* An operator who works over SSH on an enabled ufw is let in by it.       *)
Init ==
  /\ pc = "idle"
  /\ backend \in {"ufw", "nftables"}
  /\ proxy \in CIDR
  /\ plan = proxy
  /\ step = 0
  /\ rules \in AdminRules
  /\ enabled \in {FALSE, Accepts(rules, "ssh", "public")}
  /\ live = IF enabled THEN rules ELSE <<>>
  /\ nftFile = None
  /\ included \in BOOLEAN
  /\ service \in BOOLEAN
  /\ table = None
  /\ snapshot = RuleFiles
  /\ outcome = "none"
  /\ secured = FALSE

Move(from, to) == pc = from /\ pc' = to

Finish(result) ==
  /\ pc' = "idle"
  /\ outcome' = result
  /\ secured' = (secured \/ result = "ok")

-----------------------------------------------------------------------------
(* Apply                                                                   *)

Begin ==
  /\ Move("idle", IF backend = "ufw" THEN "dryrun" ELSE "write")
  /\ plan' = proxy
  /\ step' = 0
  /\ UNCHANGED <<backend, proxy, snapshot, ufwVars, nftVars, history>>

(* Every command passes --dry-run, then the rule files are read.           *)
DryRun ==
  /\ Move("dryrun", "rule")
  /\ snapshot' = RuleFiles
  /\ step' = 1
  /\ UNCHANGED <<backend, proxy, plan, ufwVars, nftVars, history>>

(* A plausible bug: the loop goes one command too far.                     *)
AddRuleOffByOne ==
  /\ pc = "rule"
  /\ rules' = PutRule(rules, Build(plan)[step])
  /\ live' = IF enabled THEN rules' ELSE live
  /\ IF step <= Len(Build(plan))
     THEN step' = step + 1 /\ UNCHANGED pc
     ELSE pc' = "enable" /\ UNCHANGED step
  /\ UNCHANGED <<backend, proxy, plan, snapshot, enabled, nftVars, history>>

AddRule ==
  /\ pc = "rule"
  /\ rules' = PutRule(rules, Build(plan)[step])
  /\ live' = IF enabled THEN rules' ELSE live
  /\ IF step < Len(Build(plan))
     THEN step' = step + 1 /\ UNCHANGED pc
     ELSE pc' = "enable" /\ UNCHANGED step
  /\ UNCHANGED <<backend, proxy, plan, snapshot, enabled, nftVars, history>>

Enable ==
  /\ pc = "enable"
  /\ Finish("ok")
  /\ enabled' = TRUE
  /\ live' = rules
  /\ UNCHANGED <<backend, proxy, plan, step, snapshot, rules, nftVars>>

(* A command fails, a rule having reached its file or not, and with an     *)
(* enabled ufw the kernel too; ufw takes back an enable that fails.        *)
CommandFails ==
  /\ pc \in {"rule", "enable"}
  /\ pc' = "rollback"
  /\ rules' \in {rules} \union
       (IF pc = "rule" THEN {PutRule(rules, Build(plan)[step])} ELSE {})
  /\ live' \in {live, IF enabled THEN rules' ELSE live}
  /\ UNCHANGED <<backend, proxy, plan, step, snapshot, enabled, nftVars, history>>

(* A plausible bug: the rules are reset instead of being restored.         *)
RollbackToNothing ==
  /\ pc = "rollback"
  /\ Finish("failed")
  /\ rules' = <<>>
  /\ live' \in {live, IF enabled THEN rules' ELSE live}
  /\ UNCHANGED <<backend, proxy, plan, step, snapshot, enabled, nftVars>>

(* The files are restored, then ufw is told to reload; either may fail.    *)
Rollback ==
  /\ pc = "rollback"
  /\ Finish("failed")
  /\ rules' \in {rules, snapshot.rules}
  /\ live' \in {live, IF enabled THEN rules' ELSE live}
  /\ UNCHANGED <<backend, proxy, plan, step, snapshot, enabled, nftVars>>

WriteRules ==
  /\ Move("write", "include")
  /\ snapshot' = RuleFiles
  /\ nftFile' = plan
  /\ UNCHANGED <<backend, proxy, plan, step, ufwVars, included, service, table, history>>

EnsureInclude ==
  /\ Move("include", "check")
  /\ included' = TRUE
  /\ UNCHANGED <<backend, proxy, plan, step, snapshot, ufwVars, nftFile, service, table,
                 history>>

(* nft -c accepts the transaction, then the whole configuration.           *)
Check ==
  /\ Move("check", "persist")
  /\ UNCHANGED <<backend, proxy, plan, step, snapshot, ufwVars, nftVars, history>>

(* A plausible bug: the error of systemctl enable is dropped.              *)
PersistIgnoringError ==
  /\ Move("persist", "load")
  /\ service' \in {service, TRUE}
  /\ UNCHANGED <<backend, proxy, plan, step, snapshot, ufwVars, nftFile, included, table,
                 history>>

Persist ==
  /\ Move("persist", "load")
  /\ service' = TRUE
  /\ UNCHANGED <<backend, proxy, plan, step, snapshot, ufwVars, nftFile, included, table,
                 history>>

Load ==
  /\ pc = "load"
  /\ Finish("ok")
  /\ table' = (IF table = None THEN {} ELSE table) \union {plan}
  /\ UNCHANGED <<backend, proxy, plan, step, snapshot, ufwVars, nftFile, included, service>>

(* A plausible bug: the rollback removes the rule file, as if it had not   *)
(* existed before.                                                         *)
NftFailsRemovingFile ==
  /\ pc \in {"include", "check", "persist", "load"}
  /\ Finish("failed")
  /\ nftFile' = None
  /\ included' = snapshot.included
  /\ UNCHANGED <<backend, proxy, plan, step, snapshot, ufwVars, service, table>>

(* A call fails: the rule file is restored and then nftables.conf, the     *)
(* first restore that fails ending the rollback.                           *)
NftFails ==
  /\ pc \in {"include", "check", "persist", "load"}
  /\ Finish("failed")
  /\ \/ UNCHANGED <<nftFile, included>>
     \/ nftFile' = snapshot.nftFile /\ included' \in {included, snapshot.included}
  /\ UNCHANGED <<backend, proxy, plan, step, snapshot, ufwVars, service, table>>

(* A call fails before anything was changed, or the run is killed.         *)
Abandon ==
  /\ pc # "idle"
  /\ Finish("failed")
  /\ UNCHANGED <<backend, proxy, plan, step, snapshot, ufwVars, nftVars>>

-----------------------------------------------------------------------------
(* The host                                                                *)

BootTable == IF service /\ included /\ nftFile # None THEN {nftFile} ELSE None

(* The services load what their files hold; a run does not survive.        *)
Reboot ==
  /\ pc = "idle"
  /\ live' = IF enabled THEN rules ELSE live
  /\ table' = BootTable
  /\ UNCHANGED <<pc, backend, proxy, plan, step, snapshot, rules, enabled, nftFile,
                 included, service, history>>

(* The Traefik network is removed and created again.                       *)
NetworkRecreated ==
  /\ proxy' \in CIDR \ {proxy}
  /\ UNCHANGED <<pc, backend, plan, step, snapshot, ufwVars, nftVars, history>>

Apply ==
  \/ Begin \/ DryRun \/ AddRule \/ Enable \/ CommandFails \/ Rollback
  \/ WriteRules \/ EnsureInclude \/ Check \/ Persist \/ Load \/ NftFails
  \/ Abandon

Next == Apply \/ Reboot \/ NetworkRecreated

Spec == Init /\ [][Next]_vars

-----------------------------------------------------------------------------
(* Properties                                                              *)

(* SSH stays reachable at every moment of every run, failed rollbacks,     *)
(* kills and reboots included.                                             *)
SSHKept ==
  enabled => /\ Accepts(live, "ssh", "public")
             /\ Accepts(rules, "ssh", "public")

(* What the kernel, and the next boot, let in from public networks.        *)
Exposed(port) ==
  IF backend = "ufw"
  THEN ~enabled \/ Accepts(live, port, "public") \/ Accepts(rules, port, "public")
  ELSE table = None \/ BootTable = None

(* Once a run has succeeded, the Agent and PostgreSQL ports stay closed to *)
(* public networks: no later run that fails, is killed or is followed by a *)
(* reboot opens them again.                                                *)
PortsStayClosed == secured => ~Exposed("agent") /\ ~Exposed("postgres")

(* A run that succeeds has changed the boot-time firewall as it changed    *)
(* the live one.                                                           *)
SuccessSurvivesReboot ==
  (outcome = "ok" /\ pc = "idle") =>
    IF backend = "ufw" THEN live = rules ELSE BootTable # None /\ BootTable \subseteq table

(* README.md:32: "Traefik publishes the Agent on normal HTTPS 443": after  *)
(* a successful run its network reaches the Agent port.                    *)
ProxyReachesAgent ==
  (outcome = "ok" /\ pc = "idle") =>
    IF backend = "ufw" THEN Accepts(live, "agent", plan) ELSE plan \in table
=============================================================================
