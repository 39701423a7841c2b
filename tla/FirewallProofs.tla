--------------------------- MODULE FirewallProofs ---------------------------
(***************************************************************************)
(* The firewall stage never shuts SSH out and never opens again what it    *)
(* closed, whatever fails, for any subnets and any earlier ufw rules; and  *)
(* where it lets Traefik reach the Agent, as README.md:32 promises.        *)
(***************************************************************************)
EXTENDS Firewall, TLAPS

Open(rs) == Accepts(rs, "ssh", "public")

(* No rule lets public networks in, and one keeps them out by name.        *)
Shut(rs, port) ==
  \A i \in DOMAIN rs : Decides(rs, i, port, "public") => rs[i].action = "deny"

Closed(rs) == Shut(rs, "agent") /\ Shut(rs, "postgres")

-----------------------------------------------------------------------------
(* The rules                                                               *)

(* The plan is well typed.                                                 *)
LEMMA BuildType ==
  ASSUME NEW cidr \in CIDR
  PROVE  /\ Build(cidr) \in Seq(Rule)
         /\ Len(Build(cidr)) = 5
         /\ \A i \in 1 .. 5 : Build(cidr)[i] \in Rule
  BY DEF Build, Allow, Deny, Rule, Port

(* A rule is for any source or for a subnet, never for "public".           *)
LEMMA RuleSource ==
  ASSUME NEW rs \in Seq(Rule), NEW i \in DOMAIN rs
  PROVE  rs[i] \in Rule /\ rs[i].from # "public"
  <1>1. rs[i] \in Rule
    OBVIOUS
  <1>2. rs[i].from \in CIDR \union {"any"}
    BY <1>1 DEF Rule
  <1> QED BY <1>1, <1>2, SourceAssumption

(* Putting a rule yields rules.                                            *)
LEMMA PutType ==
  ASSUME NEW rs \in Seq(Rule), NEW r \in Rule
  PROVE  /\ PutRule(rs, r) \in Seq(Rule)
         /\ DOMAIN rs \subseteq DOMAIN PutRule(rs, r)
  BY DEF PutRule

(* What a rule of PutRule is: an old one for another match, or the new one. *)
LEMMA PutEntry ==
  ASSUME NEW rs \in Seq(Rule), NEW r \in Rule, NEW i \in DOMAIN PutRule(rs, r)
  PROVE  \/ i \in DOMAIN rs /\ ~SameMatch(rs[i], r) /\ PutRule(rs, r)[i] = rs[i]
         \/ PutRule(rs, r)[i] = r
  <1>1. CASE \E j \in DOMAIN rs : SameMatch(rs[j], r)
    BY <1>1 DEF PutRule
  <1>2. CASE ~\E j \in DOMAIN rs : SameMatch(rs[j], r)
    <2>1. PutRule(rs, r) = Append(rs, r)
      BY <1>2 DEF PutRule
    <2> QED BY <1>2, <2>1
  <1> QED BY <1>1, <1>2

(* A rule that replaces nothing it disagrees with keeps SSH open.          *)
LEMMA PutKeepsOpen ==
  ASSUME NEW rs \in Seq(Rule), NEW r \in Rule, Open(rs),
         r.port # "ssh" \/ r.action = "allow"
  PROVE  Open(PutRule(rs, r))
  <1> DEFINE new == PutRule(rs, r)
  <1>1. PICK i \in DOMAIN rs :
          /\ Decides(rs, i, "ssh", "public")
          /\ rs[i].action = "allow"
          /\ \A j \in 1 .. i - 1 :
               ~(Decides(rs, j, "ssh", "public") /\ rs[j].action = "deny")
    BY DEF Open, Accepts
  <1>2. i \in DOMAIN new
    BY PutType
  <1>3. \A j \in DOMAIN rs : new[j] = rs[j] \/ (SameMatch(rs[j], r) /\ new[j] = r)
    BY DEF PutRule
  <1>4. Decides(new, i, "ssh", "public") /\ new[i].action = "allow"
    BY <1>1, <1>3 DEF Decides, SameMatch
  <1>5. \A j \in 1 .. i - 1 :
          ~(Decides(new, j, "ssh", "public") /\ new[j].action = "deny")
    <2> SUFFICES ASSUME NEW j \in 1 .. i - 1
                 PROVE  ~(Decides(new, j, "ssh", "public") /\ new[j].action = "deny")
      OBVIOUS
    <2>1. j \in DOMAIN rs
      OBVIOUS
    <2> QED BY <1>1, <1>3, <2>1 DEF Decides, SameMatch
  <1> HIDE DEF new
  <1> QED BY <1>2, <1>4, <1>5 DEF Open, Accepts, new

(* Allowing SSH from anywhere opens it, whatever the rules were.           *)
LEMMA PutOpens ==
  ASSUME NEW rs \in Seq(Rule)
  PROVE  Open(PutRule(rs, Allow("ssh", "any")))
  <1> DEFINE r == Allow("ssh", "any")
             new == PutRule(rs, r)
  <1>1. r \in Rule /\ r.port = "ssh" /\ r.from = "any" /\ r.action = "allow"
    BY DEF Allow, Rule, Port
  <1>2. PICK i \in DOMAIN new : new[i] = r
    <2>1. CASE \E j \in DOMAIN rs : SameMatch(rs[j], r)
      BY <2>1 DEF PutRule
    <2>2. CASE ~\E j \in DOMAIN rs : SameMatch(rs[j], r)
      <3>1. new = Append(rs, r)
        BY <2>2 DEF PutRule
      <3>2. Len(rs) + 1 \in DOMAIN new /\ new[Len(rs) + 1] = r
        BY <1>1, <3>1
      <3> QED BY <3>2
    <2> QED BY <2>1, <2>2
  <1>3. \A j \in DOMAIN new :
          ~(Decides(new, j, "ssh", "public") /\ new[j].action = "deny")
    <2> SUFFICES ASSUME NEW j \in DOMAIN new, Decides(new, j, "ssh", "public")
                 PROVE  new[j].action # "deny"
      OBVIOUS
    <2>1. CASE new[j] = r
      BY <1>1, <2>1
    <2>2. CASE j \in DOMAIN rs /\ ~SameMatch(rs[j], r) /\ new[j] = rs[j]
      <3>1. rs[j].from # "public"
        BY <2>2, RuleSource
      <3> QED BY <1>1, <2>2, <3>1 DEF Decides, SameMatch
    <2> HIDE DEF r
    <2> QED BY <1>1, <2>1, <2>2, PutEntry
  <1>4. \A j \in 1 .. i - 1 : j \in DOMAIN new
    <2>1. new \in Seq(Rule)
      BY <1>1, PutType
    <2> HIDE DEF new
    <2> QED BY <2>1
  <1> HIDE DEF new
  <1>5. Decides(new, i, "ssh", "public") /\ new[i].action = "allow"
    BY <1>1, <1>2 DEF Decides
  <1>6. Open(new)
    BY <1>2, <1>3, <1>4, <1>5 DEF Open, Accepts
  <1> QED BY <1>6 DEF new

(* A rule that does not let the public in keeps a port shut.               *)
LEMMA PutKeepsShut ==
  ASSUME NEW rs \in Seq(Rule), NEW r \in Rule, NEW port \in Port, Shut(rs, port),
         r.port # port \/ r.from \in CIDR \/ r.action = "deny"
  PROVE  Shut(PutRule(rs, r), port)
  <1> SUFFICES ASSUME NEW i \in DOMAIN PutRule(rs, r),
                      Decides(PutRule(rs, r), i, port, "public")
               PROVE  PutRule(rs, r)[i].action = "deny"
    BY DEF Shut
  <1>1. CASE i \in DOMAIN rs /\ PutRule(rs, r)[i] = rs[i]
    BY <1>1 DEF Shut, Decides
  <1>2. CASE PutRule(rs, r)[i] = r
    BY <1>2, SourceAssumption DEF Decides
  <1> QED BY <1>1, <1>2, PutEntry

(* Denying a port shuts it, whatever the rules were.                       *)
LEMMA PutShuts ==
  ASSUME NEW rs \in Seq(Rule), NEW port \in Port
  PROVE  Shut(PutRule(rs, Deny(port)), port)
  <1> DEFINE r == Deny(port)
  <1>1. r \in Rule /\ r.port = port /\ r.from = "any" /\ r.action = "deny"
    BY DEF Deny, Rule
  <1> SUFFICES ASSUME NEW i \in DOMAIN PutRule(rs, r),
                      Decides(PutRule(rs, r), i, port, "public")
               PROVE  PutRule(rs, r)[i].action = "deny"
    BY DEF Shut
  <1>2. CASE PutRule(rs, r)[i] = r
    BY <1>1, <1>2
  <1>3. CASE i \in DOMAIN rs /\ ~SameMatch(rs[i], r) /\ PutRule(rs, r)[i] = rs[i]
    <2>1. rs[i].from # "public"
      BY <1>3, RuleSource
    <2> QED BY <1>1, <1>3, <2>1 DEF Decides, SameMatch
  <1> HIDE DEF r
  <1> QED BY <1>1, <1>2, <1>3, PutEntry

(* A shut port is refused to the public.                                   *)
LEMMA ShutRefuses ==
  ASSUME NEW rs, NEW port, Shut(rs, port)
  PROVE  ~Accepts(rs, port, "public")
  BY DEF Shut, Accepts

(* Of the plan's rules only the first is about SSH, none lets the public   *)
(* into the Agent or PostgreSQL ports, and the last two shut them.         *)
LEMMA BuildRules ==
  ASSUME NEW cidr \in CIDR
  PROVE  /\ Build(cidr)[1] = Allow("ssh", "any")
         /\ Build(cidr)[4] = Deny("agent")
         /\ Build(cidr)[5] = Deny("postgres")
         /\ \A i \in 1 .. 5 :
              LET r == Build(cidr)[i]
              IN  /\ r.port # "ssh" \/ r.action = "allow"
                  /\ \A port \in {"agent", "postgres"} :
                       r.port # port \/ r.from \in CIDR \/ r.action = "deny"
  BY DEF Build, Allow, Deny

-----------------------------------------------------------------------------
(* The inductive invariant                                                 *)

UfwStages == {"dryrun", "rule", "enable", "rollback"}
Restorable == {"rule", "enable", "rollback"}
NftUndoable == {"include", "check", "persist", "load"}

(* A run is at a stage of the backend it detected.                         *)
Staged ==
  /\ pc \in UfwStages => backend = "ufw"
  /\ pc \in {"write"} \union NftUndoable => backend = "nftables"
  /\ pc = "rule" => step \in 1 .. 5

(* SSH is open in all a rollback may leave, and in the rules from the      *)
(* first command on.                                                       *)
SSHOpen ==
  /\ enabled => Open(live) /\ Open(rules)
  /\ enabled /\ pc \in Restorable => Open(snapshot.rules)
  /\ (pc = "rule" /\ step > 1) \/ pc = "enable" => Open(rules)

(* Once secured, the ports are shut in the rules, in the kernel and in     *)
(* what a rollback restores; in the rules also at the end of a first run.  *)
UfwClosed ==
  backend = "ufw" =>
    /\ secured => enabled /\ Closed(rules) /\ Closed(live)
    /\ secured /\ pc \in Restorable => Closed(snapshot.rules)
    /\ pc = "rule" /\ step > 4 => Shut(rules, "agent")
    /\ pc = "enable" => Closed(rules)

(* The same for nftables: the table is loaded now and at boot.             *)
NftClosed ==
  backend = "nftables" =>
    /\ secured => nftFile # None /\ included /\ service /\ table # None
    /\ secured /\ pc \in NftUndoable => snapshot.nftFile # None /\ snapshot.included
    /\ pc \in NftUndoable => nftFile = plan
    /\ pc \in {"check", "persist", "load"} => included
    /\ pc = "load" => service

IInv ==
  /\ TypeOK /\ Staged /\ SSHOpen /\ UfwClosed /\ NftClosed
  /\ SuccessSurvivesReboot

(* The invariant holds when the stage has never run.                       *)
LEMMA InitIInv == Init => IInv
  <1> SUFFICES ASSUME Init PROVE IInv
    OBVIOUS
  <1> USE AdminAssumption DEF Init
  <1>1. TypeOK
    <2>1. rules \in Seq(Rule) /\ live \in Seq(Rule)
      OBVIOUS
    <2>2. enabled \in BOOLEAN
      BY DEF Accepts
    <2>3. step \in 0 .. Len(Build(plan))
      BY BuildType
    <2>4. snapshot \in [rules : Seq(Rule), nftFile : CIDR \union {None}, included : BOOLEAN]
      BY <2>1 DEF RuleFiles
    <2>5. /\ pc = "idle" /\ backend \in {"ufw", "nftables"} /\ proxy \in CIDR
          /\ plan \in CIDR /\ included \in BOOLEAN /\ service \in BOOLEAN
          /\ outcome = "none" /\ secured \in BOOLEAN
          /\ nftFile \in CIDR \union {None} /\ table \in (SUBSET CIDR) \union {None}
      OBVIOUS
    <2> HIDE DEF Init
    <2> QED BY <2>1, <2>2, <2>3, <2>4, <2>5 DEF TypeOK
  <1>2. Staged
    BY DEF Staged, UfwStages, NftUndoable
  <1>3. SSHOpen
    BY DEF SSHOpen, Open, Restorable
  <1>4. UfwClosed /\ NftClosed /\ SuccessSurvivesReboot
    BY DEF UfwClosed, NftClosed, SuccessSurvivesReboot, NftUndoable
  <1> QED BY <1>1, <1>2, <1>3, <1>4 DEF IInv

(* A command of the plan keeps SSH open and shut ports shut.               *)
LEMMA CommandRule ==
  ASSUME NEW rs \in Seq(Rule), NEW cidr \in CIDR, NEW i \in 1 .. 5
  PROVE  LET new == PutRule(rs, Build(cidr)[i])
         IN  /\ new \in Seq(Rule)
             /\ Open(rs) \/ i = 1 => Open(new)
             /\ Closed(rs) => Closed(new)
             /\ Shut(rs, "agent") \/ i = 4 => Shut(new, "agent")
             /\ i = 5 => Shut(new, "postgres")
  <1> DEFINE r == Build(cidr)[i]
             new == PutRule(rs, r)
  <1>1. r \in Rule
    BY BuildType
  <1>2. /\ r.port # "ssh" \/ r.action = "allow"
        /\ \A port \in {"agent", "postgres"} :
             r.port # port \/ r.from \in CIDR \/ r.action = "deny"
    BY BuildRules
  <1>3. /\ i = 1 => r = Allow("ssh", "any")
        /\ i = 4 => r = Deny("agent")
        /\ i = 5 => r = Deny("postgres")
    BY BuildRules
  <1> HIDE DEF r
  <1>4. new \in Seq(Rule)
    BY <1>1, PutType
  <1>5. Open(rs) \/ i = 1 => Open(new)
    BY <1>1, <1>2, <1>3, PutKeepsOpen, PutOpens
  <1>6. \A port \in {"agent", "postgres"} : Shut(rs, port) => Shut(new, port)
    <2> SUFFICES ASSUME NEW port \in {"agent", "postgres"}, Shut(rs, port)
                 PROVE  Shut(new, port)
      OBVIOUS
    <2>1. port \in Port
      BY DEF Port
    <2> HIDE DEF new
    <2> QED BY <1>1, <1>2, <2>1, PutKeepsShut DEF new
  <1>7. (i = 4 => Shut(new, "agent")) /\ (i = 5 => Shut(new, "postgres"))
    BY <1>3, PutShuts DEF Port
  <1> HIDE DEF new
  <1> QED BY <1>4, <1>5, <1>6, <1>7 DEF Closed, new, r

(* A step that changes nothing keeps the invariant.                        *)
LEMMA IInvUnchanged == IInv /\ UNCHANGED vars => IInv'
  BY DEF IInv, TypeOK, Staged, SSHOpen, UfwClosed, NftClosed, SuccessSurvivesReboot,
         BootTable, vars, ufwVars, nftVars, history, Closed, Shut, Open, Accepts, Decides

(* Every step keeps the invariant.                                         *)
LEMMA NextIInv == IInv /\ [Next]_vars => IInv'
  <1> SUFFICES ASSUME IInv, [Next]_vars PROVE IInv'
    OBVIOUS
  <1> DEFINE new == PutRule(rules, Build(plan)[step])
  <1> USE DEF vars, ufwVars, nftVars, history, Move, Finish, RuleFiles, Restorable,
          UfwStages, NftUndoable
  <1>a. /\ TypeOK /\ Staged /\ SSHOpen /\ UfwClosed /\ NftClosed
        /\ SuccessSurvivesReboot
    BY DEF IInv
  <1>b. Len(Build(plan)) = 5 /\ (\A cidr \in CIDR : Len(Build(cidr)) = 5)
    BY <1>a, BuildType DEF TypeOK
  <1>c. pc = "rule" =>
          /\ new \in Seq(Rule)
          /\ Open(rules) \/ step = 1 => Open(new)
          /\ Closed(rules) => Closed(new)
          /\ Shut(rules, "agent") \/ step = 4 => Shut(new, "agent")
          /\ step = 5 => Shut(new, "postgres")
    BY <1>a, CommandRule DEF TypeOK, Staged
  <1> HIDE DEF new
  <1>1. CASE Begin
    <2>1. TypeOK'
      <3>1. step' \in 0 .. Len(Build(plan)')
        BY <1>a, <1>b, <1>1 DEF TypeOK, Staged, Begin
      <3>2. rules' \in Seq(Rule) /\ live' \in Seq(Rule)
        BY <1>a, <1>1 DEF TypeOK, Begin
      <3>3. snapshot' \in [rules : Seq(Rule), nftFile : CIDR \union {None}, included : BOOLEAN]
        BY <1>a, <1>1 DEF TypeOK, Begin
      <3>4. table' \in (SUBSET CIDR) \union {None}
        BY <1>a, <1>1 DEF TypeOK, Begin, BootTable
      <3> QED BY <1>a, <1>1, <3>1, <3>2, <3>3, <3>4 DEF TypeOK, Begin
    <2>2. Staged'
      BY <1>a, <1>b, <1>1 DEF TypeOK, Staged, Begin
    <2>3. SSHOpen'
      BY <1>a, <1>b, <1>1 DEF TypeOK, Staged, SSHOpen, Begin
    <2>4. UfwClosed'
      BY <1>a, <1>b, <1>1 DEF TypeOK, Staged, UfwClosed, Closed, Begin
    <2>5. NftClosed'
      BY <1>a, <1>1, NoneAssumption DEF TypeOK, Staged, NftClosed, BootTable, Begin
    <2>6. SuccessSurvivesReboot'
      BY <1>a, <1>1, NoneAssumption
      DEF TypeOK, Staged, NftClosed, SuccessSurvivesReboot, BootTable, Begin
    <2> QED BY <2>1, <2>2, <2>3, <2>4, <2>5, <2>6 DEF IInv
  <1>2. CASE DryRun
    <2>1. TypeOK'
      <3>1. step' \in 0 .. Len(Build(plan)')
        <4>1. plan' \in CIDR
          BY <1>a, <1>2 DEF TypeOK, DryRun
        <4>2. Len(Build(plan)') = 5
          BY <4>1, <1>b
        <4>3. step' \in 0 .. 5
          BY <1>a, <1>b, <1>2 DEF TypeOK, Staged, DryRun
        <4> QED BY <4>2, <4>3
      <3>2. rules' \in Seq(Rule) /\ live' \in Seq(Rule)
        BY <1>a, <1>2 DEF TypeOK, DryRun
      <3>3. snapshot' \in [rules : Seq(Rule), nftFile : CIDR \union {None}, included : BOOLEAN]
        BY <1>a, <1>2 DEF TypeOK, DryRun
      <3>4. table' \in (SUBSET CIDR) \union {None}
        BY <1>a, <1>2 DEF TypeOK, DryRun, BootTable
      <3> QED BY <1>a, <1>2, <3>1, <3>2, <3>3, <3>4 DEF TypeOK, DryRun
    <2>2. Staged'
      BY <1>a, <1>b, <1>2 DEF TypeOK, Staged, DryRun
    <2>3. SSHOpen'
      BY <1>a, <1>b, <1>2 DEF TypeOK, Staged, SSHOpen, DryRun
    <2>4. UfwClosed'
      BY <1>a, <1>b, <1>2 DEF TypeOK, Staged, UfwClosed, Closed, DryRun
    <2>5. NftClosed'
      BY <1>a, <1>2, NoneAssumption DEF TypeOK, Staged, NftClosed, BootTable, DryRun
    <2>6. SuccessSurvivesReboot'
      BY <1>a, <1>2, NoneAssumption
      DEF TypeOK, Staged, NftClosed, SuccessSurvivesReboot, BootTable, DryRun
    <2> QED BY <2>1, <2>2, <2>3, <2>4, <2>5, <2>6 DEF IInv
  <1>3. CASE AddRule
    <2>1. TypeOK'
      <3>1. step' \in 0 .. Len(Build(plan)')
        <4>1. plan' \in CIDR
          BY <1>a, <1>3 DEF TypeOK, AddRule
        <4>2. Len(Build(plan)') = 5
          BY <4>1, <1>b
        <4>3. step' \in 0 .. 5
          BY <1>a, <1>b, <1>3 DEF TypeOK, Staged, AddRule
        <4> QED BY <4>2, <4>3
      <3>2. rules' \in Seq(Rule) /\ live' \in Seq(Rule)
        BY <1>a, <1>c, <1>3 DEF TypeOK, AddRule, new
      <3>3. snapshot' \in [rules : Seq(Rule), nftFile : CIDR \union {None}, included : BOOLEAN]
        BY <1>a, <1>3 DEF TypeOK, AddRule
      <3>4. table' \in (SUBSET CIDR) \union {None}
        BY <1>a, <1>3 DEF TypeOK, AddRule, BootTable
      <3> QED BY <1>a, <1>3, <3>1, <3>2, <3>3, <3>4 DEF TypeOK, AddRule
    <2>2. Staged'
      BY <1>a, <1>b, <1>c, <1>3 DEF TypeOK, Staged, AddRule
    <2>3. SSHOpen'
      BY <1>a, <1>b, <1>c, <1>3 DEF TypeOK, Staged, SSHOpen, AddRule, new
    <2>4. UfwClosed'
      BY <1>a, <1>b, <1>c, <1>3 DEF TypeOK, Staged, UfwClosed, Closed, AddRule, new
    <2>5. NftClosed'
      BY <1>a, <1>3, NoneAssumption DEF TypeOK, Staged, NftClosed, BootTable, AddRule
    <2>6. SuccessSurvivesReboot'
      BY <1>a, <1>3, NoneAssumption
      DEF TypeOK, Staged, NftClosed, SuccessSurvivesReboot, BootTable, AddRule
    <2> QED BY <2>1, <2>2, <2>3, <2>4, <2>5, <2>6 DEF IInv
  <1>4. CASE Enable
    <2>1. TypeOK'
      BY <1>a, <1>b, <1>4, NoneAssumption DEF TypeOK, Enable
    <2>2. Staged'
      BY <1>a, <1>b, <1>4 DEF TypeOK, Staged, Enable
    <2>3. SSHOpen'
      BY <1>a, <1>b, <1>4 DEF TypeOK, Staged, SSHOpen, Enable
    <2>4. UfwClosed'
      BY <1>a, <1>b, <1>4 DEF TypeOK, Staged, UfwClosed, Closed, Enable
    <2>5. NftClosed'
      BY <1>a, <1>4, NoneAssumption DEF TypeOK, Staged, NftClosed, BootTable, Enable
    <2>6. SuccessSurvivesReboot'
      BY <1>a, <1>4, NoneAssumption
      DEF TypeOK, Staged, NftClosed, SuccessSurvivesReboot, BootTable, Enable
    <2> QED BY <2>1, <2>2, <2>3, <2>4, <2>5, <2>6 DEF IInv
  <1>5. CASE CommandFails
    <2>1. TypeOK'
      <3>1. step' \in 0 .. Len(Build(plan)')
        BY <1>a, <1>b, <1>5 DEF TypeOK, Staged, CommandFails
      <3>2. rules' \in Seq(Rule) /\ live' \in Seq(Rule)
        BY <1>a, <1>c, <1>5 DEF TypeOK, CommandFails, new
      <3>3. snapshot' \in [rules : Seq(Rule), nftFile : CIDR \union {None}, included : BOOLEAN]
        BY <1>a, <1>5 DEF TypeOK, CommandFails
      <3>4. table' \in (SUBSET CIDR) \union {None}
        BY <1>a, <1>5 DEF TypeOK, CommandFails, BootTable
      <3> QED BY <1>a, <1>5, <3>1, <3>2, <3>3, <3>4 DEF TypeOK, CommandFails
    <2>2. Staged'
      BY <1>a, <1>b, <1>c, <1>5 DEF TypeOK, Staged, CommandFails
    <2>3. SSHOpen'
      BY <1>a, <1>b, <1>c, <1>5 DEF TypeOK, Staged, SSHOpen, CommandFails, new
    <2>4. UfwClosed'
      BY <1>a, <1>b, <1>c, <1>5 DEF TypeOK, Staged, UfwClosed, Closed, CommandFails, new
    <2>5. NftClosed'
      BY <1>a, <1>5, NoneAssumption DEF TypeOK, Staged, NftClosed, BootTable, CommandFails
    <2>6. SuccessSurvivesReboot'
      BY <1>a, <1>5, NoneAssumption
      DEF TypeOK, Staged, NftClosed, SuccessSurvivesReboot, BootTable, CommandFails
    <2> QED BY <2>1, <2>2, <2>3, <2>4, <2>5, <2>6 DEF IInv
  <1>6. CASE Rollback
    <2>1. TypeOK'
      <3>1. step' \in 0 .. Len(Build(plan)')
        BY <1>a, <1>b, <1>6 DEF TypeOK, Staged, Rollback
      <3>2. rules' \in Seq(Rule) /\ live' \in Seq(Rule)
        BY <1>a, <1>6 DEF TypeOK, Rollback
      <3>3. snapshot' \in [rules : Seq(Rule), nftFile : CIDR \union {None}, included : BOOLEAN]
        BY <1>a, <1>6 DEF TypeOK, Rollback
      <3>4. table' \in (SUBSET CIDR) \union {None}
        BY <1>a, <1>6 DEF TypeOK, Rollback, BootTable
      <3> QED BY <1>a, <1>6, <3>1, <3>2, <3>3, <3>4 DEF TypeOK, Rollback
    <2>2. Staged'
      BY <1>a, <1>b, <1>6 DEF TypeOK, Staged, Rollback
    <2>3. SSHOpen'
      BY <1>a, <1>b, <1>6 DEF TypeOK, Staged, SSHOpen, Rollback
    <2>4. UfwClosed'
      BY <1>a, <1>b, <1>6 DEF TypeOK, Staged, UfwClosed, Closed, Rollback
    <2>5. NftClosed'
      BY <1>a, <1>6, NoneAssumption DEF TypeOK, Staged, NftClosed, BootTable, Rollback
    <2>6. SuccessSurvivesReboot'
      BY <1>a, <1>6, NoneAssumption
      DEF TypeOK, Staged, NftClosed, SuccessSurvivesReboot, BootTable, Rollback
    <2> QED BY <2>1, <2>2, <2>3, <2>4, <2>5, <2>6 DEF IInv
  <1>7. CASE WriteRules
    <2>1. TypeOK'
      BY <1>a, <1>b, <1>7, NoneAssumption DEF TypeOK, WriteRules
    <2>2. Staged'
      BY <1>a, <1>b, <1>7 DEF TypeOK, Staged, WriteRules
    <2>3. SSHOpen'
      BY <1>a, <1>b, <1>7 DEF TypeOK, Staged, SSHOpen, WriteRules
    <2>4. UfwClosed'
      BY <1>a, <1>b, <1>7 DEF TypeOK, Staged, UfwClosed, Closed, WriteRules
    <2>5. NftClosed'
      BY <1>a, <1>7, NoneAssumption DEF TypeOK, Staged, NftClosed, BootTable, WriteRules
    <2>6. SuccessSurvivesReboot'
      BY <1>a, <1>7, NoneAssumption
      DEF TypeOK, Staged, NftClosed, SuccessSurvivesReboot, BootTable, WriteRules
    <2> QED BY <2>1, <2>2, <2>3, <2>4, <2>5, <2>6 DEF IInv
  <1>8. CASE EnsureInclude
    <2>1. TypeOK'
      BY <1>a, <1>b, <1>8, NoneAssumption DEF TypeOK, EnsureInclude
    <2>2. Staged'
      BY <1>a, <1>b, <1>8 DEF TypeOK, Staged, EnsureInclude
    <2>3. SSHOpen'
      BY <1>a, <1>b, <1>8 DEF TypeOK, Staged, SSHOpen, EnsureInclude
    <2>4. UfwClosed'
      BY <1>a, <1>b, <1>8 DEF TypeOK, Staged, UfwClosed, Closed, EnsureInclude
    <2>5. NftClosed'
      BY <1>a, <1>8, NoneAssumption DEF TypeOK, Staged, NftClosed, BootTable, EnsureInclude
    <2>6. SuccessSurvivesReboot'
      BY <1>a, <1>8, NoneAssumption
      DEF TypeOK, Staged, NftClosed, SuccessSurvivesReboot, BootTable, EnsureInclude
    <2> QED BY <2>1, <2>2, <2>3, <2>4, <2>5, <2>6 DEF IInv
  <1>9. CASE Check
    <2>1. TypeOK'
      BY <1>a, <1>b, <1>9, NoneAssumption DEF TypeOK, Check
    <2>2. Staged'
      BY <1>a, <1>b, <1>9 DEF TypeOK, Staged, Check
    <2>3. SSHOpen'
      BY <1>a, <1>b, <1>9 DEF TypeOK, Staged, SSHOpen, Check
    <2>4. UfwClosed'
      BY <1>a, <1>b, <1>9 DEF TypeOK, Staged, UfwClosed, Closed, Check
    <2>5. NftClosed'
      BY <1>a, <1>9, NoneAssumption DEF TypeOK, Staged, NftClosed, BootTable, Check
    <2>6. SuccessSurvivesReboot'
      BY <1>a, <1>9, NoneAssumption
      DEF TypeOK, Staged, NftClosed, SuccessSurvivesReboot, BootTable, Check
    <2> QED BY <2>1, <2>2, <2>3, <2>4, <2>5, <2>6 DEF IInv
  <1>10. CASE Persist
    <2>1. TypeOK'
      BY <1>a, <1>b, <1>10, NoneAssumption DEF TypeOK, Persist
    <2>2. Staged'
      BY <1>a, <1>b, <1>10 DEF TypeOK, Staged, Persist
    <2>3. SSHOpen'
      BY <1>a, <1>b, <1>10 DEF TypeOK, Staged, SSHOpen, Persist
    <2>4. UfwClosed'
      BY <1>a, <1>b, <1>10 DEF TypeOK, Staged, UfwClosed, Closed, Persist
    <2>5. NftClosed'
      BY <1>a, <1>10, NoneAssumption DEF TypeOK, Staged, NftClosed, BootTable, Persist
    <2>6. SuccessSurvivesReboot'
      BY <1>a, <1>10, NoneAssumption
      DEF TypeOK, Staged, NftClosed, SuccessSurvivesReboot, BootTable, Persist
    <2> QED BY <2>1, <2>2, <2>3, <2>4, <2>5, <2>6 DEF IInv
  <1>11. CASE Load
    <2>1. TypeOK'
      BY <1>a, <1>b, <1>11, NoneAssumption DEF TypeOK, Load
    <2>2. Staged'
      BY <1>a, <1>b, <1>11 DEF TypeOK, Staged, Load
    <2>3. SSHOpen'
      BY <1>a, <1>b, <1>11 DEF TypeOK, Staged, SSHOpen, Load
    <2>4. UfwClosed'
      BY <1>a, <1>b, <1>11 DEF TypeOK, Staged, UfwClosed, Closed, Load
    <2>5. NftClosed'
      BY <1>a, <1>11, NoneAssumption DEF TypeOK, Staged, NftClosed, BootTable, Load
    <2>6. SuccessSurvivesReboot'
      BY <1>a, <1>11, NoneAssumption
      DEF TypeOK, Staged, NftClosed, SuccessSurvivesReboot, BootTable, Load
    <2> QED BY <2>1, <2>2, <2>3, <2>4, <2>5, <2>6 DEF IInv
  <1>12. CASE NftFails
    <2>1. TypeOK'
      BY <1>a, <1>b, <1>12, NoneAssumption DEF TypeOK, NftFails
    <2>2. Staged'
      BY <1>a, <1>b, <1>12 DEF TypeOK, Staged, NftFails
    <2>3. SSHOpen'
      BY <1>a, <1>b, <1>12 DEF TypeOK, Staged, SSHOpen, NftFails
    <2>4. UfwClosed'
      BY <1>a, <1>b, <1>12 DEF TypeOK, Staged, UfwClosed, Closed, NftFails
    <2>5. NftClosed'
      BY <1>a, <1>12, NoneAssumption DEF TypeOK, Staged, NftClosed, BootTable, NftFails
    <2>6. SuccessSurvivesReboot'
      BY <1>a, <1>12, NoneAssumption
      DEF TypeOK, Staged, NftClosed, SuccessSurvivesReboot, BootTable, NftFails
    <2> QED BY <2>1, <2>2, <2>3, <2>4, <2>5, <2>6 DEF IInv
  <1>13. CASE Abandon
    <2>1. TypeOK'
      BY <1>a, <1>b, <1>13, NoneAssumption DEF TypeOK, Abandon
    <2>2. Staged'
      BY <1>a, <1>b, <1>13 DEF TypeOK, Staged, Abandon
    <2>3. SSHOpen'
      BY <1>a, <1>b, <1>13 DEF TypeOK, Staged, SSHOpen, Abandon
    <2>4. UfwClosed'
      BY <1>a, <1>b, <1>13 DEF TypeOK, Staged, UfwClosed, Closed, Abandon
    <2>5. NftClosed'
      BY <1>a, <1>13, NoneAssumption DEF TypeOK, Staged, NftClosed, BootTable, Abandon
    <2>6. SuccessSurvivesReboot'
      BY <1>a, <1>13, NoneAssumption
      DEF TypeOK, Staged, NftClosed, SuccessSurvivesReboot, BootTable, Abandon
    <2> QED BY <2>1, <2>2, <2>3, <2>4, <2>5, <2>6 DEF IInv
  <1>14. CASE Reboot
    <2>1. TypeOK'
      <3>1. step' \in 0 .. Len(Build(plan)')
        BY <1>a, <1>b, <1>14 DEF TypeOK, Staged, Reboot
      <3>2. rules' \in Seq(Rule) /\ live' \in Seq(Rule)
        BY <1>a, <1>14 DEF TypeOK, Reboot
      <3>3. snapshot' \in [rules : Seq(Rule), nftFile : CIDR \union {None}, included : BOOLEAN]
        BY <1>a, <1>14 DEF TypeOK, Reboot
      <3>4. table' \in (SUBSET CIDR) \union {None}
        BY <1>a, <1>14 DEF TypeOK, Reboot, BootTable
      <3> QED BY <1>a, <1>14, <3>1, <3>2, <3>3, <3>4 DEF TypeOK, Reboot
    <2>2. Staged'
      BY <1>a, <1>b, <1>14 DEF TypeOK, Staged, Reboot
    <2>3. SSHOpen'
      BY <1>a, <1>b, <1>14 DEF TypeOK, Staged, SSHOpen, Reboot
    <2>4. UfwClosed'
      BY <1>a, <1>b, <1>14 DEF TypeOK, Staged, UfwClosed, Closed, Reboot
    <2>5. NftClosed'
      BY <1>a, <1>14, NoneAssumption DEF TypeOK, Staged, NftClosed, BootTable, Reboot
    <2>6. SuccessSurvivesReboot'
      BY <1>a, <1>14, NoneAssumption
      DEF TypeOK, Staged, NftClosed, SuccessSurvivesReboot, BootTable, Reboot
    <2> QED BY <2>1, <2>2, <2>3, <2>4, <2>5, <2>6 DEF IInv
  <1>15. CASE NetworkRecreated
    <2>1. TypeOK'
      <3>1. step' \in 0 .. Len(Build(plan)')
        BY <1>a, <1>b, <1>15 DEF TypeOK, Staged, NetworkRecreated
      <3>2. rules' \in Seq(Rule) /\ live' \in Seq(Rule)
        BY <1>a, <1>15 DEF TypeOK, NetworkRecreated
      <3>3. snapshot' \in [rules : Seq(Rule), nftFile : CIDR \union {None}, included : BOOLEAN]
        BY <1>a, <1>15 DEF TypeOK, NetworkRecreated
      <3>4. table' \in (SUBSET CIDR) \union {None}
        BY <1>a, <1>15 DEF TypeOK, NetworkRecreated, BootTable
      <3> QED BY <1>a, <1>15, <3>1, <3>2, <3>3, <3>4 DEF TypeOK, NetworkRecreated
    <2>2. Staged'
      BY <1>a, <1>b, <1>15 DEF TypeOK, Staged, NetworkRecreated
    <2>3. SSHOpen'
      BY <1>a, <1>b, <1>15 DEF TypeOK, Staged, SSHOpen, NetworkRecreated
    <2>4. UfwClosed'
      BY <1>a, <1>b, <1>15 DEF TypeOK, Staged, UfwClosed, Closed, NetworkRecreated
    <2>5. NftClosed'
      BY <1>a, <1>15, NoneAssumption DEF TypeOK, Staged, NftClosed, BootTable, NetworkRecreated
    <2>6. SuccessSurvivesReboot'
      BY <1>a, <1>15, NoneAssumption
      DEF TypeOK, Staged, NftClosed, SuccessSurvivesReboot, BootTable, NetworkRecreated
    <2> QED BY <2>1, <2>2, <2>3, <2>4, <2>5, <2>6 DEF IInv
  <1>16. CASE UNCHANGED vars
    BY <1>16, IInvUnchanged
  <1> QED BY <1>1, <1>2, <1>3, <1>4, <1>5, <1>6, <1>7, <1>8, <1>9, <1>10, <1>11, <1>12, <1>13, <1>14, <1>15, <1>16 DEF Next, Apply

-----------------------------------------------------------------------------
(* The theorems                                                            *)

(* The inductive invariant holds in every state of every behaviour.        *)
THEOREM Invariance == Spec => []IInv
  <1>1. Init => IInv
    BY InitIInv
  <1>2. IInv /\ [Next]_vars => IInv'
    BY NextIInv
  <1> QED BY <1>1, <1>2, PTL DEF Spec

(* Every variable keeps its type, the rule list and its position included. *)
THEOREM TypeCorrect == Spec => []TypeOK
  <1>1. IInv => TypeOK
    BY DEF IInv
  <1> QED BY <1>1, Invariance, PTL

(* Firewall.Apply (firewall.go:148): SSH is let in by an enabled ufw at    *)
(* every moment, whatever fails.                                           *)
THEOREM SSHReachable == Spec => []SSHKept
  <1>1. IInv => SSHKept
    BY DEF IInv, SSHOpen, SSHKept, Open
  <1> QED BY <1>1, Invariance, PTL

(* Firewall.Apply (firewall.go:148): after a first success the Agent and   *)
(* PostgreSQL ports stay closed to public networks.                        *)
THEOREM PortsClosed == Spec => []PortsStayClosed
  <1>1. IInv => PortsStayClosed
    <2> SUFFICES ASSUME IInv, secured PROVE ~Exposed("agent") /\ ~Exposed("postgres")
      BY DEF PortsStayClosed
    <2>1. CASE backend = "ufw"
      BY <2>1, ShutRefuses DEF IInv, UfwClosed, Closed, Exposed
    <2>2. CASE backend = "nftables"
      BY <2>2, NoneAssumption DEF IInv, TypeOK, NftClosed, Exposed, BootTable
    <2> QED BY <2>1, <2>2 DEF IInv, TypeOK
  <1> QED BY <1>1, Invariance, PTL

(* Firewall.Apply (firewall.go:148): what a successful run loads is what   *)
(* the next boot loads.                                                    *)
THEOREM BootAgrees == Spec => []SuccessSurvivesReboot
  <1>1. IInv => SuccessSurvivesReboot
    BY DEF IInv
  <1> QED BY <1>1, Invariance, PTL
-----------------------------------------------------------------------------
(* When Traefik reaches the Agent                                          *)

(* The rule that lets the Traefik network in is there, and no rule before  *)
(* it refuses that network.                                                *)
Leads(rs, cidr) ==
  \E k \in DOMAIN rs :
    /\ rs[k] = Allow("agent", cidr)
    /\ \A j \in 1 .. k - 1 :
         ~(Decides(rs, j, "agent", cidr) /\ rs[j].action = "deny")

(* The rules that a plan does not lead astray: none lets everyone in,      *)
(* which the plan would turn into a refusal at its place, and the refusal  *)
(* of everyone comes after the rule for the Traefik network.               *)
Guided(rs, cidr) ==
  /\ \A i \in DOMAIN rs : rs[i] # Allow("agent", "any")
  /\ (\A i \in DOMAIN rs : rs[i] # Deny("agent")) \/ Leads(rs, cidr)

(* What decides first lets the Traefik network in.                         *)
LEMMA LeadsAccepts ==
  ASSUME NEW rs, NEW cidr, Leads(rs, cidr)
  PROVE  Accepts(rs, "agent", cidr)
  BY DEF Leads, Accepts, Decides, Allow

(* Letting the Traefik network in puts its rule first, unless everyone is  *)
(* already refused.                                                        *)
LEMMA PutLeads ==
  ASSUME NEW rs \in Seq(Rule), NEW cidr \in CIDR,
         \A i \in DOMAIN rs : rs[i] # Deny("agent")
  PROVE  Leads(PutRule(rs, Allow("agent", cidr)), cidr)
  <1> DEFINE r == Allow("agent", cidr)
             new == PutRule(rs, r)
  <1>1. r \in Rule /\ r.port = "agent" /\ r.from = cidr /\ r.action = "allow"
    BY DEF Allow, Rule, Port
  <1>2. PICK k \in DOMAIN new : new[k] = r
    <2>1. CASE \E j \in DOMAIN rs : SameMatch(rs[j], r)
      BY <2>1 DEF PutRule
    <2>2. CASE ~\E j \in DOMAIN rs : SameMatch(rs[j], r)
      <3>1. new = Append(rs, r)
        BY <2>2 DEF PutRule
      <3>2. Len(rs) + 1 \in DOMAIN new /\ new[Len(rs) + 1] = r
        BY <1>1, <3>1
      <3> QED BY <3>2
    <2> QED BY <2>1, <2>2
  <1>3. ASSUME NEW j \in DOMAIN new, Decides(new, j, "agent", cidr)
        PROVE  new[j].action # "deny"
    <2>1. CASE new[j] = r
      BY <1>1, <2>1
    <2>2. CASE j \in DOMAIN rs /\ ~SameMatch(rs[j], r) /\ new[j] = rs[j]
      <3>1. rs[j].port = "agent" /\ rs[j].from = "any" /\ rs[j] \in Rule
        BY <1>1, <1>3, <2>2, RuleSource DEF Decides, SameMatch
      <3>2. rs[j].action = "deny" => rs[j] = Deny("agent")
        BY <3>1 DEF Deny, Rule
      <3> QED BY <2>2, <3>2
    <2> HIDE DEF r
    <2> QED BY <1>1, <2>1, <2>2, PutEntry
  <1>4. \A j \in 1 .. k - 1 : j \in DOMAIN new
    <2>1. new \in Seq(Rule)
      BY <1>1, PutType
    <2> HIDE DEF new
    <2> QED BY <2>1
  <1> HIDE DEF new
  <1>5. Leads(new, cidr)
    BY <1>2, <1>3, <1>4 DEF Leads
  <1> QED BY <1>5 DEF new

(* A later command leaves the rule that leads where it is.                 *)
LEMMA PutKeepsLeads ==
  ASSUME NEW rs \in Seq(Rule), NEW cidr \in CIDR, NEW r \in Rule, Leads(rs, cidr),
         \A i \in DOMAIN rs : rs[i] # Allow("agent", "any"),
         r.port # "agent" \/ r = Allow("agent", cidr) \/ r = Deny("agent")
  PROVE  Leads(PutRule(rs, r), cidr)
  <1> DEFINE new == PutRule(rs, r)
  <1>1. PICK k \in DOMAIN rs :
          /\ rs[k] = Allow("agent", cidr)
          /\ \A j \in 1 .. k - 1 :
               ~(Decides(rs, j, "agent", cidr) /\ rs[j].action = "deny")
    BY DEF Leads
  <1>2. k \in DOMAIN new
    BY PutType
  <1>3. \A j \in DOMAIN rs : new[j] = rs[j] \/ (SameMatch(rs[j], r) /\ new[j] = r)
    BY DEF PutRule
  <1>4. cidr # "any"
    BY SourceAssumption
  <1>5. new[k] = Allow("agent", cidr)
    BY <1>1, <1>3, <1>4 DEF SameMatch, Allow, Deny
  <1>6. ASSUME NEW j \in 1 .. k - 1, Decides(new, j, "agent", cidr)
        PROVE  new[j].action # "deny"
    <2>1. j \in DOMAIN rs /\ rs[j] \in Rule
      BY RuleSource
    <2>2. CASE new[j] = rs[j]
      BY <1>1, <1>6, <2>2 DEF Decides
    <2>3. CASE SameMatch(rs[j], r) /\ new[j] = r
      <3>1. CASE r = Allow("agent", cidr)
        BY <2>3, <3>1 DEF Allow
      <3>2. CASE r = Deny("agent")
        <4>1. rs[j].port = "agent" /\ rs[j].from = "any"
          BY <2>3, <3>2 DEF SameMatch, Deny
        <4>2. rs[j].action \in {"allow", "deny"}
          BY <2>1 DEF Rule
        <4>3. rs[j].action # "deny"
          BY <1>1, <4>1 DEF Decides
        <4>4. rs[j] = Allow("agent", "any")
          BY <2>1, <4>1, <4>2, <4>3 DEF Rule, Allow
        <4> QED BY <2>1, <4>4
      <3>3. CASE r.port # "agent"
        BY <1>6, <2>3, <3>3 DEF Decides
      <3> QED BY <3>1, <3>2, <3>3
    <2> QED BY <1>3, <2>1, <2>2, <2>3
  <1> HIDE DEF new
  <1>7. Leads(new, cidr)
    BY <1>2, <1>5, <1>6 DEF Leads
  <1> QED BY <1>7 DEF new

(* The commands of a plan in their order keep the rules guided, and from   *)
(* the third on the rule for the Traefik network leads.                    *)
LEMMA CommandGuided ==
  ASSUME NEW rs \in Seq(Rule), NEW cidr \in CIDR, NEW i \in 1 .. 5, Guided(rs, cidr),
         i > 3 => Leads(rs, cidr)
  PROVE  LET new == PutRule(rs, Build(cidr)[i])
         IN  Guided(new, cidr) /\ (i > 2 => Leads(new, cidr))
  <1> DEFINE r == Build(cidr)[i]
             new == PutRule(rs, r)
  <1>1. r \in Rule /\ cidr # "any"
    BY BuildType, SourceAssumption
  <1>2. /\ r.port # "agent" \/ r = Allow("agent", cidr) \/ r = Deny("agent")
        /\ i = 3 => r = Allow("agent", cidr)
        /\ r = Deny("agent") => i = 4
    BY DEF Build, Allow, Deny
  <1> HIDE DEF r
  <1>3. r # Allow("agent", "any")
    BY <1>1, <1>2 DEF Allow, Deny
  <1>4. \A j \in DOMAIN new : new[j] # Allow("agent", "any")
    BY <1>1, <1>3, PutEntry DEF Guided
  <1>5. Leads(rs, cidr) => Leads(new, cidr)
    BY <1>1, <1>2, PutKeepsLeads DEF Guided
  <1>6. i = 3 => Leads(new, cidr)
    BY <1>2, <1>5, PutLeads DEF Guided
  <1>7. (\A j \in DOMAIN new : new[j] # Deny("agent")) \/ Leads(new, cidr)
    <2>1. CASE i = 4
      BY <1>5, <2>1
    <2>2. CASE i # 4
      BY <1>1, <1>2, <1>5, <2>2, PutEntry DEF Guided
    <2> QED BY <2>1, <2>2
  <1> HIDE DEF new
  <1> QED BY <1>4, <1>5, <1>6, <1>7 DEF Guided, new, r

(* No rule of the host was for the Agent's port from anywhere.             *)
AgentPortUnclaimed ==
  \A rs \in AdminRules : \A i \in DOMAIN rs :
    rs[i] # Allow("agent", "any") /\ rs[i] # Deny("agent")

(* The rules, those in the kernel and those of the snapshot are guided     *)
(* once the subnet stays what the plan says, and what a successful run     *)
(* leaves leads.                                                           *)
Reaching ==
  /\ plan = proxy
  /\ Guided(rules, plan) /\ Guided(live, plan) /\ Guided(snapshot.rules, plan)
  /\ (pc = "rule" /\ step > 3) \/ pc = "enable" => Leads(rules, plan)
  /\ (backend = "ufw" /\ outcome = "ok" /\ pc = "idle") =>
       Leads(rules, plan) /\ Leads(live, plan)

(* An nftables run writes the subnet of its plan and loads what it wrote.  *)
NftReaching ==
  backend = "nftables" =>
    /\ pc \in NftUndoable => nftFile = plan
    /\ (outcome = "ok" /\ pc = "idle") => nftFile = plan /\ plan \in table

(* The rules of a host that says nothing of the Agent's port are guided.   *)
LEMMA InitReaching == AgentPortUnclaimed /\ Init => Reaching
  <1> SUFFICES ASSUME AgentPortUnclaimed, Init PROVE Reaching
    OBVIOUS
  <1>1. rules \in AdminRules /\ live \in {rules, <<>>} /\ snapshot.rules = rules
    BY DEF Init, RuleFiles
  <1>2. Guided(rules, plan) /\ Guided(live, plan)
    BY <1>1 DEF AgentPortUnclaimed, Guided
  <1> QED BY <1>1, <1>2 DEF Init, Reaching

(* A step that leaves the subnet alone keeps the rules guided.             *)
LEMMA StepReaching ==
  ASSUME IInv, Reaching, [Next]_vars, [UNCHANGED proxy]_vars
  PROVE  Reaching'
  <1> USE DEF vars, ufwVars, nftVars, history, Move, Finish, RuleFiles
  <1>t. /\ rules \in Seq(Rule) /\ plan \in CIDR /\ plan = proxy /\ proxy' = proxy
        /\ Len(Build(plan)) = 5
        /\ pc = "rule" => step \in 1 .. 5
    BY BuildType DEF IInv, TypeOK, Staged, Reaching
  <1>1. CASE Begin \/ DryRun \/ WriteRules \/ EnsureInclude \/ Check \/ Persist
    BY <1>t, <1>1
       DEF Begin, DryRun, WriteRules, EnsureInclude, Check, Persist, Reaching, Guided, Leads
  <1>2. CASE AddRule
    <2>1. /\ Guided(PutRule(rules, Build(plan)[step]), plan)
          /\ step > 2 => Leads(PutRule(rules, Build(plan)[step]), plan)
      BY <1>t, <1>2, CommandGuided DEF AddRule, Reaching
    <2>2. /\ plan' = plan
          /\ Guided(rules', plan) /\ Guided(live', plan) /\ Guided(snapshot'.rules, plan)
      BY <1>2, <2>1 DEF AddRule, Reaching
    <2>3. pc' = "enable" \/ (pc' = "rule" /\ step' = step + 1)
      BY <1>2 DEF AddRule
    <2>4. ((pc' = "rule" /\ step' > 3) \/ pc' = "enable") => Leads(rules', plan)
      BY <1>t, <1>2, <2>1, <2>3 DEF AddRule
    <2> QED BY <1>t, <2>2, <2>3, <2>4 DEF Reaching
  <1>3. CASE Enable
    BY <1>t, <1>3 DEF Enable, Reaching
  <1>4. CASE CommandFails
    <2>1. Guided(rules', plan)
      <3>1. CASE rules' = rules
        BY <3>1 DEF Reaching
      <3>2. CASE pc = "rule" /\ rules' = PutRule(rules, Build(plan)[step])
        BY <1>t, <3>2, CommandGuided DEF Reaching
      <3> QED BY <1>4, <3>1, <3>2 DEF CommandFails
    <2>2. /\ plan' = plan /\ live' \in {live, rules'} /\ snapshot' = snapshot
          /\ pc' = "rollback"
      BY <1>4 DEF CommandFails
    <2> QED BY <1>t, <2>1, <2>2 DEF Reaching
  <1>5. CASE Rollback
    <2>1. /\ plan' = plan /\ snapshot' = snapshot /\ pc' = "idle" /\ outcome' = "failed"
          /\ rules' \in {rules, snapshot.rules} /\ live' \in {live, rules'}
      BY <1>5 DEF Rollback
    <2>2. Guided(rules', plan) /\ Guided(live', plan) /\ Guided(snapshot'.rules, plan)
      BY <2>1 DEF Reaching
    <2> QED BY <1>t, <2>1, <2>2 DEF Reaching
  <1>6. CASE Load \/ NftFails \/ Abandon
    <2>1. /\ plan' = plan /\ rules' = rules /\ live' = live /\ snapshot' = snapshot
          /\ backend' = backend /\ pc' = "idle"
          /\ outcome' = "failed" \/ backend = "nftables"
      BY <1>6 DEF Load, NftFails, Abandon, IInv, Staged, NftUndoable
    <2> QED BY <1>t, <1>6, <2>1 DEF Load, NftFails, Abandon, Reaching
  <1>7. CASE Reboot
    <2>1. /\ plan' = plan /\ rules' = rules /\ live' \in {live, rules} /\ snapshot' = snapshot
          /\ backend' = backend /\ pc' = pc /\ outcome' = outcome /\ pc = "idle"
      BY <1>7 DEF Reboot
    <2> QED BY <1>t, <2>1 DEF Reaching
  <1>8. CASE NetworkRecreated
    BY <1>t, <1>8 DEF NetworkRecreated
  <1>9. CASE UNCHANGED vars
    BY <1>t, <1>9 DEF Reaching, Guided, Leads
  <1> QED BY <1>1, <1>2, <1>3, <1>4, <1>5, <1>6, <1>7, <1>8, <1>9 DEF Next, Apply

(* Every step of nftables keeps its invariant.                             *)
LEMMA StepNftReaching == IInv /\ NftReaching /\ [Next]_vars => NftReaching'
  <1> SUFFICES ASSUME IInv, NftReaching, [Next]_vars PROVE NftReaching'
    OBVIOUS
  <1> USE DEF vars, ufwVars, nftVars, history, Move, Finish, NftUndoable, NftReaching
  <1>1. CASE Reboot
    <2>1. (backend = "nftables" /\ outcome = "ok" /\ pc = "idle") => BootTable = {nftFile}
      BY DEF IInv, SuccessSurvivesReboot, BootTable
    <2> QED BY <1>1, <2>1 DEF Reboot
  <1>2. CASE Load
    <2>1. nftFile = plan /\ plan \in table' /\ UNCHANGED <<nftFile, plan>>
      BY <1>2 DEF Load, IInv, Staged
    <2> QED BY <2>1
  <1>3. CASE \/ Begin \/ DryRun \/ AddRule \/ Enable \/ CommandFails \/ Rollback
             \/ WriteRules \/ EnsureInclude \/ Check \/ Persist \/ NftFails \/ Abandon
             \/ NetworkRecreated \/ UNCHANGED vars
    BY <1>3
       DEF Begin, DryRun, AddRule, Enable, CommandFails, Rollback, WriteRules,
           EnsureInclude, Check, Persist, NftFails, Abandon, NetworkRecreated, IInv, Staged,
           UfwStages
  <1> QED BY <1>1, <1>2, <1>3 DEF Next, Apply

(* README.md:32: on nftables the Traefik network a successful run was      *)
(* planned for reaches the Agent after it, and after the reboots until the *)
(* next run.  What a failed run leaves is not said here.                   *)
THEOREM NftablesReachesAgent == Spec => [](backend = "nftables" => ProxyReachesAgent)
  <1>1. Init => NftReaching
    BY DEF Init, NftReaching, NftUndoable
  <1>2. IInv /\ NftReaching /\ [Next]_vars => NftReaching'
    BY StepNftReaching
  <1>3. NftReaching => (backend = "nftables" => ProxyReachesAgent)
    BY DEF NftReaching, ProxyReachesAgent
  <1> QED BY <1>1, <1>2, <1>3, Invariance, PTL DEF Spec

(* README.md:32, with ufw too, on a host where no rule was for the Agent's *)
(* port from anywhere and the Traefik network keeps its subnet: these are  *)
(* the only two ways in which the promise is broken.                       *)
THEOREM SteadyProxyReachesAgent ==
  AgentPortUnclaimed /\ Spec /\ [][UNCHANGED proxy]_vars => []ProxyReachesAgent
  <1> SUFFICES ASSUME AgentPortUnclaimed
               PROVE  Spec /\ [][UNCHANGED proxy]_vars => []ProxyReachesAgent
    OBVIOUS
  <1>1. Init => Reaching
    BY InitReaching
  <1>2. IInv /\ Reaching /\ [Next]_vars /\ [UNCHANGED proxy]_vars => Reaching'
    BY StepReaching
  <1>3. IInv /\ Reaching /\ (backend = "nftables" => ProxyReachesAgent) => ProxyReachesAgent
    BY LeadsAccepts DEF IInv, TypeOK, Reaching, ProxyReachesAgent
  <1> QED BY <1>1, <1>2, <1>3, Invariance, NftablesReachesAgent, PTL DEF Spec
=============================================================================
