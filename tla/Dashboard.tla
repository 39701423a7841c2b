------------------------------ MODULE Dashboard ------------------------------
(***************************************************************************)
(* The CentralCloud Dashboard, as far as the installer can tell.  It is    *)
(* not part of this repository: the module is what the client in           *)
(* internal/enrollment and the resume logic of internal/cli rely on.       *)
(*                                                                         *)
(* An enrollment is approved at once by the one-time token (/automatic) or *)
(* by the operator after a device code was handed out (/device, then       *)
(* /device/token).  An approved enrollment carries a bootstrap token that  *)
(* authenticates /progress and /complete until it expires, and /complete   *)
(* is idempotent for the Idempotency-Key it was first accepted under.      *)
(***************************************************************************)
CONSTANTS
  Enrollment,   \* enrollments the Dashboard can hand out
  Key,          \* Idempotency-Keys of completion reports
  Size,         \* free disk sizes a host can measure, part of the report
  Stage,        \* stage names shown as progress
  None

VARIABLES
  dash,         \* Enrollment -> its status
  tokenUsed,    \* the one-time enrollment token was exchanged
  expired,      \* enrollments whose bootstrap token ran out
  progress,     \* Enrollment -> stage last shown as started, or None
  reports       \* completion reports accepted, replays included

dashVars == <<dash, tokenUsed, expired, progress, reports>>

Status == {"free", "pending", "denied", "approved", "completed"}

(* A request is one record whatever the endpoint; only a completion report *)
(* fills the last four fields.                                             *)
Request == [type : {"automatic", "device", "finish"},
            enrollment : Enrollment \union {None},
            bootstrap : Enrollment \union {None},
            key : Key \union {None},
            size : Size \union {None}]

Ask(type) == [type |-> type, enrollment |-> None, bootstrap |-> None,
              key |-> None, size |-> None]

Report == [enrollment : Enrollment, key : Key \union {None},
           size : Size \union {None}]

DashTypeOK ==
  /\ dash \in [Enrollment -> Status]
  /\ tokenUsed \in BOOLEAN
  /\ expired \in SUBSET Enrollment
  /\ progress \in [Enrollment -> Stage \union {None}]
  /\ reports \in SUBSET Report

DashInit ==
  /\ dash = [e \in Enrollment |-> "free"]
  /\ tokenUsed = FALSE
  /\ expired = {}
  /\ progress = [e \in Enrollment |-> None]
  /\ reports = {}

(* POST /automatic: the one-time token buys one approved enrollment.       *)
ServeAutomatic(r, e) ==
  /\ r.type = "automatic"
  /\ ~tokenUsed
  /\ dash[e] = "free"
  /\ dash' = [dash EXCEPT ![e] = "approved"]
  /\ tokenUsed' = TRUE
  /\ UNCHANGED <<expired, progress, reports>>

(* POST /device: a device code, waiting for the operator.                  *)
ServeDevice(r, e) ==
  /\ r.type = "device"
  /\ dash[e] = "free"
  /\ dash' = [dash EXCEPT ![e] = "pending"]
  /\ UNCHANGED <<tokenUsed, expired, progress, reports>>

(* POST /{id}/complete: first acceptance, or the replay of an accepted key. *)
(* That the key alone decides, whatever size the report carries, is an      *)
(* assumption about the Dashboard: the client measures anew for each report *)
(* (installer.go:280) and has no means of its own against another answer.   *)
Acceptable(r) ==
  /\ r.bootstrap = r.enrollment
  /\ r.enrollment \notin expired
  /\ \/ dash[r.enrollment] = "approved"
     \/ /\ dash[r.enrollment] = "completed"
        /\ \E x \in reports : x.enrollment = r.enrollment /\ x.key = r.key

ServeComplete(r, e) ==
  /\ r.type = "finish"
  /\ r.enrollment = e
  /\ Acceptable(r)
  /\ dash' = [dash EXCEPT ![e] = "completed"]
  /\ reports' = reports \union
                  {[enrollment |-> e, key |-> r.key, size |-> r.size]}
  /\ UNCHANGED <<tokenUsed, expired, progress>>

(* What is answered with an error.  The supply of enrollments is finite.   *)
Refuses(r) ==
  \/ r.type = "automatic" /\ tokenUsed
  \/ r.type # "finish" /\ \A e \in Enrollment : dash[e] # "free"
  \/ r.type = "finish" /\ ~Acceptable(r)

Serve(r, e) ==
  \/ ServeAutomatic(r, e)
  \/ ServeDevice(r, e)
  \/ ServeComplete(r, e)

(* POST /{id}/progress: shown when the bootstrap token is still good.      *)
ShowProgress(e, s) ==
  /\ e \notin expired
  /\ progress' = [progress EXCEPT ![e] = s]
  /\ UNCHANGED <<dash, tokenUsed, expired, reports>>

(* The operator answers a device code on the Dashboard.                    *)
OperatorAnswers(e) ==
  /\ dash[e] = "pending"
  /\ \E answer \in {"approved", "denied"} :
       dash' = [dash EXCEPT ![e] = answer]
  /\ UNCHANGED <<tokenUsed, expired, progress, reports>>

(* bootstrap_expires_in runs out.                                          *)
BootstrapExpires(e) ==
  /\ dash[e] \in {"approved", "completed"}
  /\ e \notin expired
  /\ expired' = expired \union {e}
  /\ UNCHANGED <<dash, tokenUsed, progress, reports>>
=============================================================================
