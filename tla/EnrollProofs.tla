---------------------------- MODULE EnrollProofs ----------------------------
(***************************************************************************)
(* The command line decides what a run does with its tokens, and Poll      *)
(* keeps the pace the Dashboard sets and stops when the code expires, for  *)
(* any settings, lifetimes and intervals.                                  *)
(***************************************************************************)
EXTENDS Enroll, TLAPS

(* The token in the request is the one the settings name, and the device   *)
(* flow is that of an interactive run.                                     *)
Chosen ==
  /\ pc = "exchange" => sending = Named /\ sending \in Token
  /\ pc \in {"create"} \union Polling => ~Effective("non-interactive")
  /\ pc \in {"source", "exchange", "create"} =>
       memory >= Effective("minimum-memory-bytes")

(* A sleep began before the deadline and is one interval long; the         *)
(* interval is at least what the Dashboard has asked for.                  *)
Timed ==
  /\ sent <= now
  /\ pc = "sleep" => /\ now <= wake /\ wake < deadline + interval
                     /\ sent + interval <= wake
  /\ pc = "ask" => sent < deadline + interval
  /\ pc \in Polling => interval >= asked \/ interval >= MaxInterval

IInv == TypeOK /\ Chosen /\ Timed

(* A run that has ended satisfies the invariant.                           *)
LEMMA EndIsQuiet == ASSUME End PROVE Chosen' /\ Timed'
BY DEF End, Chosen, Timed, Polling

(* So does the sleep before the next request.                              *)
LEMMA SleepIsTimed ==
  ASSUME TypeOK, NEW until \in Nat, NEW i \in Nat, NEW a \in Nat,
         NEW last \in 0..Limit, last <= now, i >= a \/ i >= MaxInterval,
         Poll(until, i, a, last)
  PROVE  Timed'
<1>1. CASE End
  BY <1>1, EndIsQuiet
<1>2. CASE now < until /\ Sleep(until, i, a, last)
  BY <1>2, ClockAssumption DEF Sleep, Timed, TypeOK
<1>. QED BY <1>1, <1>2 DEF Poll

(* The end of a run keeps the types.                                       *)
LEMMA EndTypes ==
  ASSUME TypeOK, End, files' \in [Path -> Secret], conf' \in ConfigFile,
         spent' \subseteq Token, enrolled' \in BOOLEAN,
         device' \in {"none", "pending", "approved", "denied"}
  PROVE  TypeOK'
BY ClockAssumption DEF End, TypeOK

(* So does going on with the poll.                                         *)
LEMMA PollTypes ==
  ASSUME TypeOK, NEW until \in Nat, NEW i \in Nat, NEW a \in Nat,
         NEW last \in 0..Limit, Poll(until, i, a, last),
         files' \in [Path -> Secret], conf' \in ConfigFile,
         spent' \subseteq Token, enrolled' \in BOOLEAN,
         device' \in {"none", "pending", "approved", "denied"}
  PROVE  TypeOK'
<1>1. CASE End
  BY <1>1, EndTypes
<1>2. CASE now < until /\ Sleep(until, i, a, last)
  BY <1>2 DEF Sleep, TypeOK, Polling, settingVars
<1>. QED BY <1>1, <1>2 DEF Poll

(* The Dashboard accepts tokens only.                                      *)
LEMMA ConsumesTokens == TypeOK /\ Chosen => Consumes \subseteq Token
BY DEF TypeOK, Chosen, Consumes

(* Every step keeps the type invariant.                                    *)
LEMMA StepTypeOK == IInv /\ [Next]_vars => TypeOK'
<1>. SUFFICES ASSUME IInv, [Next]_vars PROVE TypeOK'
  OBVIOUS
<1>. USE DEF IInv, TypeOK, hostVars, dashVars, settingVars, pollVars
<1>1. CASE Launch
  BY <1>1 DEF Launch, Move, Polling
<1>2. CASE Parse
  BY <1>2 DEF Parse, Move, Polling
<1>3. CASE Detect
  BY <1>3, EndTypes DEF Detect
<1>4. CASE SendToken
  BY <1>4 DEF SendToken, Move, Polling, TokenValid
<1>5. CASE SendCreate
  BY <1>5 DEF SendCreate, Move, Polling
<1>6. CASE Refused
  BY <1>6, EndTypes, ConsumesTokens DEF Refused, hostVars, dashVars
<1>7. CASE Accepted
  <2>1. files' \in [Path -> Secret]
    BY <1>7 DEF Accepted, Secret
  <2>. QED BY <1>7, <2>1, ConsumesTokens DEF Accepted, Move, Polling
<1>8. CASE Created
  <2>. PICK lifetime \in Lifetime, i \in Interval : Poll(now + lifetime, i, i, now)
    BY <1>8 DEF Created
  <2>1. now + lifetime \in Nat /\ i \in Nat
    BY ClockAssumption
  <2>. QED BY <1>8, <2>1, PollTypes DEF Created
<1>9. CASE OperatorAnswers
  BY <1>9 DEF OperatorAnswers, Move, Polling
<1>10. CASE Wake
  BY <1>10 DEF Wake, Move, Polling
<1>11. CASE Cancelled
  BY <1>11, EndTypes, ConsumesTokens DEF Cancelled, hostVars, dashVars
<1>12. CASE Pending
  BY <1>12, PollTypes DEF Pending
<1>13. CASE SlowDown
  <2>1. Grown \in Nat /\ asked + SlowStep \in Nat
    BY ClockAssumption DEF Grown
  <2>. QED BY <1>13, <2>1, PollTypes DEF SlowDown
<1>14. CASE Approved
  BY <1>14 DEF Approved, Move, Polling
<1>15. CASE TimedOut
  BY <1>15, EndTypes, ConsumesTokens DEF TimedOut, hostVars, dashVars
<1>16. CASE Stop
  BY <1>16, EndTypes, ConsumesTokens DEF Stop, hostVars, dashVars
<1>17. CASE Record
  BY <1>17, EndTypes, ConsumesTokens DEF Record, hostVars, dashVars
<1>18. CASE Tick
  <2>1. now' \in 0..Limit
    BY <1>18, ClockAssumption DEF Tick, Due
  <2>. QED BY <1>18, <2>1 DEF Tick, Polling
<1>19. CASE UNCHANGED vars
  BY <1>19 DEF vars, Polling, pollVars, Named, Effective, hostVars, settingVars
<1>. QED
  BY <1>1, <1>2, <1>3, <1>4, <1>5, <1>6, <1>7, <1>8, <1>9, <1>10, <1>11,
     <1>12, <1>13, <1>14, <1>15, <1>16, <1>17, <1>18, <1>19 DEF Next, Run,
     Reply

(* Every step keeps the choice of token and flow.                          *)
LEMMA StepChosen == IInv /\ [Next]_vars => Chosen'
<1>. SUFFICES ASSUME IInv, [Next]_vars PROVE Chosen'
  OBVIOUS
<1>. USE DEF IInv, Chosen
<1>1. CASE Launch
  BY <1>1 DEF Launch, Move, Polling, Named, Effective, hostVars, settingVars
<1>2. CASE Parse
  BY <1>2 DEF Parse, Move, Polling, Named, Effective, hostVars, settingVars
<1>3. CASE Detect
  BY <1>3, EndIsQuiet DEF Detect, Polling, Admissible, Effective, hostVars,
     settingVars
<1>4. CASE SendToken
  BY <1>4 DEF SendToken, Move, Polling, TokenValid, Named, Effective, hostVars
<1>5. CASE SendCreate
  BY <1>5 DEF SendCreate, Move, Interactive, Polling, Named, Effective,
     hostVars, settingVars
<1>6. CASE Refused
  BY <1>6, EndIsQuiet DEF Refused
<1>7. CASE Accepted
  BY <1>7 DEF Accepted, Move, Polling, Named, Effective, hostVars, settingVars
<1>8. CASE Created
  BY <1>8, EndIsQuiet DEF Created, Poll, Sleep, Polling, Effective,
     hostVars, settingVars
<1>9. CASE OperatorAnswers
  BY <1>9 DEF OperatorAnswers, Move, Polling, Named, Effective, hostVars,
     settingVars
<1>10. CASE Wake
  BY <1>10 DEF Wake, Move, Polling, Named, Effective, hostVars, settingVars
<1>11. CASE Cancelled
  BY <1>11, EndIsQuiet DEF Cancelled
<1>12. CASE Pending
  BY <1>12, EndIsQuiet DEF Pending, Poll, Sleep, Polling, Effective,
     hostVars, settingVars
<1>13. CASE SlowDown
  BY <1>13, EndIsQuiet DEF SlowDown, Poll, Sleep, Polling, Effective,
     hostVars, settingVars
<1>14. CASE Approved
  BY <1>14 DEF Approved, Move, Polling, Named, Effective, hostVars, settingVars
<1>15. CASE TimedOut
  BY <1>15, EndIsQuiet DEF TimedOut
<1>16. CASE Stop
  BY <1>16, EndIsQuiet DEF Stop
<1>17. CASE Record
  BY <1>17, EndIsQuiet DEF Record
<1>18. CASE Tick
  BY <1>18 DEF Tick, Move, Polling, Named, Effective, hostVars, settingVars
<1>19. CASE UNCHANGED vars
  BY <1>19 DEF vars, Polling, pollVars, Named, Effective, hostVars, settingVars
<1>. QED
  BY <1>1, <1>2, <1>3, <1>4, <1>5, <1>6, <1>7, <1>8, <1>9, <1>10, <1>11,
     <1>12, <1>13, <1>14, <1>15, <1>16, <1>17, <1>18, <1>19 DEF Next, Run,
     Reply

(* Every step keeps the times.                                             *)
LEMMA StepTimed == IInv /\ [Next]_vars => Timed'
<1>. SUFFICES ASSUME IInv, [Next]_vars PROVE Timed'
  OBVIOUS
<1>. USE DEF IInv, Timed
<1>1. CASE Launch
  BY <1>1 DEF Launch, Move, Polling, TypeOK, pollVars
<1>2. CASE Parse
  BY <1>2 DEF Parse, Move, Polling, TypeOK, pollVars
<1>3. CASE Detect
  BY <1>3, EndIsQuiet DEF Detect, Polling, pollVars
<1>4. CASE SendToken
  BY <1>4 DEF SendToken, Move, Polling, TypeOK, pollVars
<1>5. CASE SendCreate
  BY <1>5 DEF SendCreate, Move, Polling, TypeOK, pollVars
<1>6. CASE Refused
  BY <1>6, EndIsQuiet DEF Refused
<1>7. CASE Accepted
  BY <1>7 DEF Accepted, Move, Polling, TypeOK, pollVars
<1>8. CASE Created
  <2>. PICK lifetime \in Lifetime, i \in Interval : Poll(now + lifetime, i, i, now)
    BY <1>8 DEF Created
  <2>1. now + lifetime \in Nat /\ i \in Nat /\ now \in 0..Limit
    BY ClockAssumption DEF TypeOK
  <2>. QED BY <2>1, SleepIsTimed, ClockAssumption
<1>9. CASE OperatorAnswers
  BY <1>9 DEF OperatorAnswers, Move, Polling, TypeOK, pollVars
<1>10. CASE Wake
  BY <1>10 DEF Wake, Move, Polling, TypeOK, pollVars
<1>11. CASE Cancelled
  BY <1>11, EndIsQuiet DEF Cancelled
<1>12. CASE Pending
  <2>1. interval >= asked \/ interval >= MaxInterval
    BY <1>12 DEF Pending, Polling
  <2>. QED BY <1>12, <2>1, SleepIsTimed DEF Pending, TypeOK
<1>13. CASE SlowDown
  <2>1. Grown \in Nat /\ asked + SlowStep \in Nat
    BY ClockAssumption DEF Grown, TypeOK
  <2>2. Grown >= asked + SlowStep \/ Grown >= MaxInterval
    BY <1>13, ClockAssumption DEF SlowDown, Grown, TypeOK, Polling
  <2>. QED BY <1>13, <2>1, <2>2, SleepIsTimed DEF SlowDown, TypeOK
<1>14. CASE Approved
  BY <1>14 DEF Approved, Move, Polling, TypeOK, pollVars
<1>15. CASE TimedOut
  BY <1>15, EndIsQuiet DEF TimedOut
<1>16. CASE Stop
  BY <1>16, EndIsQuiet DEF Stop
<1>17. CASE Record
  BY <1>17, EndIsQuiet DEF Record
<1>18. CASE Tick
  <2>1. now \in Nat /\ wake \in Nat /\ sent \in Nat
    BY ClockAssumption DEF TypeOK
  <2>. QED BY <1>18, <2>1 DEF Tick, Polling, pollVars, InFlight
<1>19. CASE UNCHANGED vars
  BY <1>19 DEF vars, Polling, pollVars, Named, Effective, hostVars, settingVars
<1>. QED
  BY <1>1, <1>2, <1>3, <1>4, <1>5, <1>6, <1>7, <1>8, <1>9, <1>10, <1>11,
     <1>12, <1>13, <1>14, <1>15, <1>16, <1>17, <1>18, <1>19 DEF Next, Run,
     Reply

(* An interval of the asked length, or of the longest, keeps the pace.     *)
LEMMA AtLeastAsked ==
  \A g \in Int, i \in Nat, a \in Nat, m \in Nat :
    g >= i /\ (i >= a \/ i >= m) => (a > m => g >= m) /\ (~(a > m) => g >= a)
OBVIOUS

(* Nothing has run at first.                                               *)
LEMMA InitIInv == Init => IInv
<1>. SUFFICES ASSUME Init PROVE IInv
  OBVIOUS
<1>1. TypeOK
  <2>1. files \in [Path -> Secret] /\ 0 \in 0..Limit
    BY TokenAssumption, ClockAssumption DEF Init
  <2>. QED BY <2>1 DEF Init, NoRun, TypeOK
<1>2. Chosen /\ Timed
  BY DEF Init, NoRun, Chosen, Timed, Polling
<1>. QED BY <1>1, <1>2 DEF IInv

(* The invariant is inductive.                                             *)
LEMMA StepIInv == IInv /\ [Next]_vars => IInv'
BY StepTypeOK, StepChosen, StepTimed DEF IInv

(* At every call of every run the token and the flow are those of the      *)
(* settings and Poll is in time.                                           *)
THEOREM Invariance == Spec => []IInv
BY InitIInv, StepIInv, PTL DEF Spec

(* Every variable keeps its type.                                          *)
THEOREM TypeCorrect == Spec => []TypeOK
BY Invariance, PTL DEF IInv

(* Explicit flags decide what is sent and asked for, whatever the          *)
(* configuration file, the environment and the token files hold            *)
(* (internal/config/config.go:108 and 180).                                *)
THEOREM FlagsDecide == Spec => []CommandLineDecides
<1>1. IInv => CommandLineDecides
  BY DEF IInv, Chosen, Named, Effective, CommandLineDecides
<1>. QED BY <1>1, Invariance, PTL

(* Poll starts no request later than one interval after the deadline       *)
(* (internal/enrollment/client.go:106), for any lifetime, interval and     *)
(* number of slow_down answers.                                            *)
THEOREM StopsInTime == Spec => []LastRequestInTime
<1>1. IInv => LastRequestInTime
  BY DEF IInv, Timed, LastRequestInTime
<1>. QED BY <1>1, Invariance, PTL

(* Poll never asks sooner than the Dashboard told it to, up to the longest *)
(* interval (internal/enrollment/client.go:122).                           *)
THEOREM KeepsPace == Spec => PollPaced
<1>1. IInv /\ [Next]_vars =>
        [(pc # "ask" /\ pc' = "ask") =>
           sent' - sent >= IF asked > MaxInterval THEN MaxInterval ELSE asked]_vars
  <2>. SUFFICES ASSUME IInv, Next, pc # "ask", pc' = "ask"
       PROVE sent' - sent >= IF asked > MaxInterval THEN MaxInterval ELSE asked
    BY DEF vars
  <2>1. Wake
    BY DEF Next, Run, Reply, Launch, Parse, Detect, SendToken, SendCreate,
       Refused,
       Accepted, Created, OperatorAnswers, Cancelled, Pending, SlowDown, Approved,
       TimedOut, Stop, Record, Tick, Move, End, Poll, Sleep
  <2>. QED
    <3>1. now \in Nat /\ sent \in Nat /\ interval \in Nat /\ asked \in Nat
      BY ClockAssumption DEF IInv, TypeOK
    <3>2. sent' - sent >= interval /\ (interval >= asked \/ interval >= MaxInterval)
      BY <2>1, <3>1 DEF Wake, Move, IInv, TypeOK, Timed, Polling
    <3>3. sent' \in Nat
      BY <2>1, <3>1 DEF Wake
    <3>4. MaxInterval \in Nat
      BY ClockAssumption
    <3>5. sent' - sent \in Int
      BY <3>1, <3>3
    <3>6. (asked > MaxInterval => sent' - sent >= MaxInterval)
            /\ (~(asked > MaxInterval) => sent' - sent >= asked)
      BY <3>1, <3>2, <3>4, <3>5, AtLeastAsked, Zenon
    <3>. QED BY <3>6, Zenon
<1>. QED BY <1>1, Invariance, PTL DEF Spec, PollPaced

(* A token file is removed only after its token was accepted, and never    *)
(* against the flag (internal/config/config.go:216).                       *)
THEOREM TokenFileSafe == Spec => TokenFileKept
<1>1. IInv /\ [Next]_vars =>
        [\A path \in Path : files'[path] # files[path] =>
           /\ files[path] \in spent'
           /\ line["delete-token-file"] # FALSE]_files
  <2>. SUFFICES ASSUME IInv, Next, NEW path \in Path, files'[path] # files[path]
       PROVE  files[path] \in spent' /\ line["delete-token-file"] # FALSE
    BY DEF vars, hostVars
  <2>1. Accepted
    BY DEF Next, Run, Reply, Launch, Parse, Detect, SendToken, SendCreate,
       Refused,
       Created, OperatorAnswers, Wake, Cancelled, Pending, SlowDown, Approved,
       TimedOut, Stop, Record, Tick, hostVars
  <2>2. path = Effective("token-file") /\ Effective("delete-token-file")
        /\ Effective("token-file") # None
    BY <2>1 DEF Accepted, IInv, TypeOK
  <2>3. files[path] \in spent'
    BY <2>1, <2>2 DEF Accepted, Move, Consumes, IInv, Chosen, Named
  <2>4. line["delete-token-file"] # FALSE
    BY <2>2, NoneAssumption, Zenon DEF Effective
  <2>. QED BY <2>3, <2>4
<1>. QED BY <1>1, Invariance, PTL DEF Spec, TokenFileKept
=============================================================================
