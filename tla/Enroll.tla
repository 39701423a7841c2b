------------------------------- MODULE Enroll -------------------------------
(***************************************************************************)
(* How a run of install or repair comes to an enrollment: the settings of  *)
(* the command line and the configuration file (internal/config), the      *)
(* checks of the host (internal/detection), the one-time token or the      *)
(* device authorization, and its polling by the clock                      *)
(* (internal/enrollment/client.go:100).  Installer takes all of it for a   *)
(* request and its reply.                                                  *)
(*                                                                         *)
(* The clock starts with the run, and a timer wakes the run at its time.   *)
(* The Dashboard answers what it may answer, when it does, or not at all.  *)
(***************************************************************************)
EXTENDS Integers

CONSTANTS
  Token,              \* one-time enrollment tokens
  Path,               \* paths of token files
  CommandLine,        \* flags that may be given: functions on Option
  ConfigFile,         \* configuration files that may be found
  TokenFiles,         \* contents of the token files at first
  Memory,             \* resources of the host that a run may measure
  Lifetime, Interval, \* expires_in and interval the Dashboard may answer
  SlowStep,           \* what slow_down adds to the interval: 5 s
  MaxInterval,        \* what it grows to: 30 s
  Limit,              \* the deadline of the run's context: 2 h
  None                \* a flag or a setting that is not given

ASSUME NoneAssumption == None \notin BOOLEAN

ASSUME ClockAssumption ==
  /\ Lifetime \subseteq Nat /\ Interval \subseteq Nat
  /\ SlowStep \in Nat /\ MaxInterval \in Nat /\ Limit \in Nat

VARIABLES
  files, conf,        \* token files; the configuration file
  spent, device,      \* Dashboard: tokens accepted; the device authorization
  enrolled,           \* state.json holds an enrollment
  pc, line, env,      \* next call; flags and environment of the run
  memory, sending,    \* the host as measured; the token in the request
  now, sent,          \* the clock; when the last request or grant was
  wake, deadline,     \* when the sleep ends; when the device code expires
  interval, asked     \* of Poll; the one the Dashboard has asked for

hostVars == <<files, conf, enrolled>>
dashVars == <<spent, device>>
settingVars == <<line, env, memory, sending>>
pollVars == <<wake, deadline, interval, asked>>
vars == <<hostVars, dashVars, settingVars, pollVars, pc, now, sent>>

Option == {"token-file", "delete-token-file", "non-interactive", "dry-run",
           "minimum-memory-bytes", "http-timeout", "api-url", "config"}

(* "exposed" is a file others can read, "bad" one without a valid token.   *)
Secret == Token \union {"absent", "exposed", "bad"}

ASSUME TokenAssumption == TokenFiles \subseteq [Path -> Secret]

Polling == {"sleep", "ask"}
InFlight == pc \in {"exchange", "create", "ask"}

TypeOK ==
  /\ files \in [Path -> Secret] /\ conf \in ConfigFile
  /\ spent \subseteq Token
  /\ device \in {"none", "pending", "approved", "denied"}
  /\ enrolled \in BOOLEAN
  /\ pc \in {"idle", "parse", "detect", "source", "exchange", "create",
             "record"} \union Polling
  /\ line \in CommandLine \union {None}
  /\ env \in Token \union {"bad", None}
  /\ memory \in Memory \union {0} /\ sending \in Token \union {None}
  /\ now \in 0..Limit /\ sent \in 0..Limit
  /\ wake \in Nat /\ deadline \in Nat /\ interval \in Nat /\ asked \in Nat

Move(from, to) == pc = from /\ pc' = to

(* No run.                                                                 *)
NoRun ==
  /\ pc = "idle" /\ line = None /\ env = None
  /\ memory = 0 /\ sending = None /\ now = 0 /\ sent = 0
  /\ wake = 0 /\ deadline = 0 /\ interval = 0 /\ asked = 0

Init ==
  /\ files \in TokenFiles /\ conf \in ConfigFile
  /\ spent = {} /\ device = "none" /\ enrolled = FALSE
  /\ NoRun

End ==
  /\ pc' = "idle" /\ line' = None /\ env' = None
  /\ memory' = 0 /\ sending' = None /\ now' = 0 /\ sent' = 0
  /\ wake' = 0 /\ deadline' = 0 /\ interval' = 0 /\ asked' = 0

-----------------------------------------------------------------------------
(* Settings                                                                *)

Default ==
  [o \in Option |->
     CASE o \in {"delete-token-file", "non-interactive", "dry-run"} -> FALSE
       [] o = "minimum-memory-bytes" -> 2
       [] o = "http-timeout"         -> MaxInterval
       [] o = "api-url"              -> "https"
       [] OTHER                      -> None]

(* A plausible bug: the configuration file is applied over the flags.      *)
EffectiveOfFileFirst(o) ==
  IF conf.kind = "usable" /\ conf.values[o] # None THEN conf.values[o]
  ELSE IF line[o] # None THEN line[o] ELSE Default[o]

(* An explicit flag, even one that repeats the default, goes before the    *)
(* file, and the file before the default.                                  *)
Effective(o) ==
  IF line[o] # None THEN line[o]
  ELSE IF conf.kind = "usable" /\ conf.values[o] # None THEN conf.values[o]
  ELSE Default[o]

(* A file that others can write, or that does not decode, is an error; so  *)
(* is a file that --config names and that is not there.                    *)
Parses ==
  /\ conf.kind # "unusable"
  /\ conf.kind = "absent" => line["config"] = None
  /\ Effective("api-url") = "https"

Admissible == memory >= Effective("minimum-memory-bytes")

(* A token file goes before the variable, and only without either does an  *)
(* operator approve the device.                                            *)
Named == IF Effective("token-file") # None THEN files[Effective("token-file")]
         ELSE env

(* A plausible bug: what the variable holds is not looked at.              *)
TokenOfAnyForm == Named # None

TokenValid == Named \in Token

Interactive == Named = None /\ ~Effective("non-interactive")

-----------------------------------------------------------------------------
(* Up to the first request                                                 *)

Launch ==
  /\ Move("idle", "parse")
  /\ line' \in CommandLine /\ env' \in Token \union {"bad", None}
  /\ memory' \in Memory
  /\ UNCHANGED <<hostVars, dashVars, pollVars, sending, now, sent>>

Parse ==
  /\ Move("parse", "detect")
  /\ Parses
  /\ UNCHANGED <<hostVars, dashVars, settingVars, pollVars, now, sent>>

(* A dry run ends here, and so does enrolling when there is an enrollment. *)
Detect ==
  /\ pc = "detect" /\ Admissible
  /\ IF Effective("dry-run") \/ enrolled
     THEN End
     ELSE pc' = "source" /\ UNCHANGED <<settingVars, pollVars, now, sent>>
  /\ UNCHANGED <<hostVars, dashVars>>

(* A plausible bug: the file is removed when the token is read.            *)
SendTokenRemovingFile ==
  /\ Move("source", "exchange")
  /\ TokenValid
  /\ sending' = Named
  /\ sent' = now
  /\ files' = LET path == Effective("token-file") IN
       IF path # None /\ Effective("delete-token-file")
       THEN [files EXCEPT ![path] = "absent"] ELSE files
  /\ UNCHANGED <<conf, enrolled, dashVars, pollVars, line, env, memory, now>>

SendToken ==
  /\ Move("source", "exchange")
  /\ TokenValid
  /\ sending' = Named
  /\ sent' = now
  /\ UNCHANGED <<hostVars, dashVars, pollVars, line, env, memory, now>>

SendCreate ==
  /\ Move("source", "create")
  /\ Interactive
  /\ sent' = now
  /\ UNCHANGED <<hostVars, dashVars, settingVars, pollVars, now>>

(* What the run finds makes it end with an error.                          *)
Refused ==
  /\ \/ pc = "parse" /\ ~Parses
     \/ pc = "detect" /\ ~Admissible
     \/ pc = "source" /\ ~TokenValid /\ ~Interactive
  /\ End
  /\ UNCHANGED <<hostVars, dashVars>>

-----------------------------------------------------------------------------
(* The exchange of the token                                               *)

Consumes == IF pc = "exchange" THEN spent \union {sending} ELSE spent

(* The file is removed when the Dashboard has answered with the approval.  *)
Accepted ==
  /\ sending \notin spent
  /\ Move("exchange", "record")
  /\ spent' = Consumes
  /\ files' = LET path == Effective("token-file") IN
       IF path # None /\ Effective("delete-token-file")
       THEN [files EXCEPT ![path] = "absent"] ELSE files
  /\ UNCHANGED <<conf, enrolled, device, settingVars, pollVars, now, sent>>

-----------------------------------------------------------------------------
(* The device authorization                                                *)

(* Poll sleeps for i and asks again, while the code is valid.              *)
Sleep(until, i, a, last) ==
  /\ pc' = "sleep"
  /\ deadline' = until /\ interval' = i /\ wake' = now + i
  /\ asked' = a /\ sent' = last
  /\ UNCHANGED <<settingVars, now>>

Poll(until, i, a, last) ==
  \/ now < until /\ Sleep(until, i, a, last)
  \/ now >= until /\ End

Created ==
  /\ pc = "create"
  /\ device' = "pending"
  /\ \E lifetime \in Lifetime, i \in Interval : Poll(now + lifetime, i, i, now)
  /\ UNCHANGED <<hostVars, spent>>

OperatorAnswers ==
  /\ device = "pending"
  /\ device' \in {"approved", "denied"}
  /\ UNCHANGED <<hostVars, spent, settingVars, pollVars, pc, now, sent>>

Wake ==
  /\ now = wake
  /\ Move("sleep", "ask")
  /\ sent' = now
  /\ UNCHANGED <<hostVars, dashVars, settingVars, pollVars, now>>

(* A plausible bug: the sleep does not look at the context.                *)
SleepsOn ==
  /\ pc = "sleep" /\ now = Limit /\ now = wake
  /\ End
  /\ UNCHANGED <<hostVars, dashVars>>

(* The context ends the sleep, perhaps at the moment the timer fires.      *)
Cancelled ==
  /\ pc = "sleep" /\ now = Limit
  /\ End
  /\ UNCHANGED <<hostVars, dashVars>>

Pending ==
  /\ pc = "ask" /\ device = "pending"
  /\ Poll(deadline, interval, asked, sent)
  /\ UNCHANGED <<hostVars, dashVars>>

Grown == IF interval + SlowStep > MaxInterval THEN MaxInterval
         ELSE interval + SlowStep

(* Plausible bugs: the interval stays, or the loop goes on without a look  *)
(* at the deadline.                                                        *)
SlowDownIgnored ==
  /\ pc = "ask" /\ device \in {"pending", "approved"}
  /\ Poll(deadline, interval, asked + SlowStep, sent)
  /\ UNCHANGED <<hostVars, dashVars>>

SlowDownUnchecked ==
  /\ pc = "ask" /\ device \in {"pending", "approved"}
  /\ Sleep(deadline, Grown, asked + SlowStep, sent)
  /\ UNCHANGED <<hostVars, dashVars>>

SlowDown ==
  /\ pc = "ask" /\ device \in {"pending", "approved"}
  /\ Poll(deadline, Grown, asked + SlowStep, sent)
  /\ UNCHANGED <<hostVars, dashVars>>

Approved ==
  /\ device = "approved"
  /\ Move("ask", "record")
  /\ UNCHANGED <<hostVars, dashVars, settingVars, pollVars, now, sent>>

-----------------------------------------------------------------------------
(* How a request or a run ends early, and the save                         *)

(* The client's timeout, which 0 turns off, and the run's context.         *)
Due ==
  \/ now = Limit
  \/ Effective("http-timeout") > 0 /\ now >= sent + Effective("http-timeout")

TimedOut ==
  /\ InFlight /\ Due
  /\ End
  /\ spent' \in {spent, Consumes}
  /\ UNCHANGED <<hostVars, device>>

(* The reply is an error, is lost or does not decode, or the installer is  *)
(* killed; the Dashboard may have accepted the request.                    *)
Stop ==
  /\ pc # "idle"
  /\ End
  /\ spent' \in {spent, Consumes}
  /\ UNCHANGED <<hostVars, device>>

Record ==
  /\ pc = "record"
  /\ enrolled' = TRUE
  /\ End
  /\ UNCHANGED <<files, conf, dashVars>>

(* Time passes while the run sleeps or waits for a reply.                  *)
Tick ==
  /\ \/ InFlight /\ ~Due
     \/ pc = "sleep" /\ now < wake /\ now < Limit
  /\ now' = now + 1
  /\ UNCHANGED <<hostVars, dashVars, settingVars, pollVars, pc, sent>>

(* What the run does by itself, and what the Dashboard answers.            *)
Run == \/ Parse \/ Detect \/ SendToken \/ SendCreate \/ Refused
       \/ Wake \/ Cancelled \/ TimedOut \/ Record

Reply ==
  /\ InFlight /\ ~Due
  /\ Accepted \/ Created \/ Pending \/ SlowDown \/ Approved

Next == Launch \/ Run \/ Reply \/ Stop \/ OperatorAnswers \/ Tick

Spec == Init /\ [][Next]_vars

(* The run makes its calls, and time passes while a request is under way,  *)
(* however fast the Dashboard answers.  No reply ever has to come.         *)
Fairness == WF_vars(Run) /\ SF_vars(Tick)

FairSpec == Spec /\ Fairness

-----------------------------------------------------------------------------
(* Properties                                                              *)

(* Whatever the configuration file and the environment hold: a token file  *)
(* named on the command line is the one whose token is sent, a run with    *)
(* --non-interactive never asks for an approval, and no token is spent on  *)
(* a host below an explicit minimum.                                       *)
CommandLineDecides ==
  /\ (pc = "exchange" /\ line["token-file"] # None) =>
       sending = files[line["token-file"]]
  /\ (pc \in {"create"} \union Polling /\ line["non-interactive"] # None) =>
       ~line["non-interactive"]
  /\ (pc \in {"exchange", "create"} /\ line["minimum-memory-bytes"] # None) =>
       memory >= line["minimum-memory-bytes"]

(* A token file is removed only if its token was accepted, and not against *)
(* an explicit --delete-token-file=false.                                  *)
TokenFileKept ==
  [][\A path \in Path : files'[path] # files[path] =>
       /\ files[path] \in spent'
       /\ line["delete-token-file"] # FALSE]_files

(* Between the grant or a request and the next request at least as long    *)
(* passes as the Dashboard has asked for, up to 30 s.                      *)
PollPaced ==
  [][(pc # "ask" /\ pc' = "ask") =>
       sent' - sent >= IF asked > MaxInterval THEN MaxInterval ELSE asked]_vars

(* No request starts later than one interval after the code has expired.   *)
LastRequestInTime == pc = "ask" => sent < deadline + interval

(* Every run ends, answered or not, even without an HTTP timeout and with  *)
(* an interval of zero.                                                    *)
RunEnds == (pc # "idle") ~> (pc = "idle")
=============================================================================
