-------------------------- MODULE DeploymentProofs --------------------------
(***************************************************************************)
(* RestartsAreGuarded and RealRestartsPassOnMeasurements, for every set of *)
(* configurations, tokens, targets and measured values.  The first is not  *)
(* inductive: whether the administrator's token or the whitelist binds     *)
(* depends on what the API's file is known to contain once it is up, and   *)
(* whether approvals are enabled on what the worker once asked for.  The   *)
(* second needs the streak and the readings behind it to agree.            *)
(***************************************************************************)
EXTENDS Deployment, VerificationProofs

(* A process that is up was started from a file that Load and the wiring   *)
(* accepted.                                                               *)
Booted == \A p \in Process : at[p] = "up" => Boots(p)

(* An approval exists only where a worker could ask for it.                *)
Asked == approval # "ABSENT" => In("worker").approval /\ target # ""

Guarded ==
    /\ file \in Deployments
    /\ at \in [Process -> {"down", "up", "exited"}]
    /\ Booted
    /\ Asked
    /\ RestartsAreGuarded

(* The real mode with nobody, or anybody, to approve does not start        *)
(* (Validate: the three tokens).                                           *)
LEMMA RealModeIsAuthenticated ==
    ASSUME Booted, Up("api"), In("api").mode = "http"
    PROVE  In("api").admin # "" /\ AuthEnabled(In("api"))
<1>1. Valid(In("api"))
    BY DEF Booted, Up, Process, Boots, Loads, In
<1>2. RemediationSound(In("api"))
    BY <1>1 DEF Valid
<1>. QED
    BY <1>2 DEF RemediationSound, AuthEnabled

(* A token that is let in as the administrator's is that of the file, and  *)
(* not blank.                                                              *)
LEMMA MatchingTokenIsTheAdmins ==
    ASSUME NEW t, AsAdmin(t), AuthEnabled(In("api"))
    PROVE  t = In("api").admin /\ t \notin {"", " "}
BY DEF AsAdmin, LetIn, TokenMatches

(* A step that restarts nothing, asks for no approval and starts no process*)
(* keeps all of it.                                                        *)
LEMMA QuietStep ==
    ASSUME Guarded, UNCHANGED <<file, at, restart, target>>,
           approval' # "ABSENT" => approval # "ABSENT"
    PROVE  Guarded'
<1>1. In("api")' = In("api") /\ In("worker")' = In("worker")
    BY DEF Guarded, In
<1>2. Booted'
    BY DEF Guarded, Booted, Boots, In
<1>3. Asked'
    BY <1>1 DEF Guarded, Asked
<1>4. RestartsAreGuarded'
    BY <1>1 DEF Guarded, RestartsAreGuarded
<1>. QED
    BY <1>2, <1>3, <1>4 DEF Guarded

LEMMA GuardedInit == DeploymentInit => Guarded
<1>. SUFFICES ASSUME DeploymentInit PROVE Guarded
    OBVIOUS
<1>1. file \in Deployments /\ at = [p \in Process |-> "down"]
    BY DEF DeploymentInit
<1>2. approval = "ABSENT" /\ restart = NoRestart
    BY DEF DeploymentInit
<1>3. Booted
    BY <1>1 DEF Booted
<1>. QED
    BY <1>1, <1>2, <1>3 DEF Guarded, Asked, RestartsAreGuarded

(* Starting a process leaves all but it alone.                             *)
LEMMA StartKeepsGuarded ==
    ASSUME Guarded, NEW p \in Process, Start(p)
    PROVE  Guarded'
<1>1. UNCHANGED <<file, approval, target, restart>>
    BY DEF Start, remedyVars
<1>2. at' \in [Process -> {"down", "up", "exited"}]
    BY DEF Guarded, Start
<1>3. \A q \in Process : at'[q] = "up" => at[q] = "up" \/ Boots(q)
    BY DEF Guarded, Start
<1>4. \A q \in Process : Boots(q) => Boots(q)'
    BY <1>1 DEF Boots, In
<1>5. Booted'
    BY <1>3, <1>4 DEF Guarded, Booted
<1>6. In("api")' = In("api") /\ In("worker")' = In("worker")
    BY <1>1 DEF In
<1>. QED
    BY <1>1, <1>2, <1>5, <1>6 DEF Guarded, Asked, RestartsAreGuarded

(* The tool asks only under an enabled policy and with a checked target.   *)
LEMMA RequestKeepsGuarded ==
    ASSUME Guarded, RequestRestart
    PROVE  Guarded'
<1>1. UNCHANGED <<file, at, restart>>
    BY DEF RequestRestart
<1>2. In("worker").approval /\ target' # ""
    BY DEF RequestRestart, TargetAllowed
<1>3. In("api")' = In("api") /\ In("worker")' = In("worker")
    BY <1>1 DEF In
<1>4. Booted'
    BY <1>1 DEF Guarded, Booted, Boots, In
<1>5. Asked'
    BY <1>2, <1>3 DEF Asked
<1>6. RestartsAreGuarded'
    BY <1>1, <1>3 DEF Guarded, RestartsAreGuarded
<1>. QED
    BY <1>1, <1>4, <1>5, <1>6 DEF Guarded

(* The restart itself.                                                     *)
LEMMA ApproveKeepsGuarded ==
    ASSUME Guarded, NEW t, Approve(t)
    PROVE  Guarded'
<1>1. UNCHANGED <<file, at, target>> /\ AsAdmin(t) /\ approval = "PENDING"
    BY DEF Approve, Granted, Decidable
<1>2. restart' = [via |-> In("api").mode, target |-> target, token |-> t, by |-> Actor]
    BY DEF Approve
<1>3. In("worker").approval /\ target # ""
    BY <1>1 DEF Guarded, Asked
<1>4. In("api")' = In("api") /\ In("worker")' = In("worker")
    BY <1>1 DEF In
<1>5. Booted'
    BY <1>1 DEF Guarded, Booted, Boots, In
<1>6. AuthEnabled(In("api")) => t = In("api").admin /\ t \notin {"", " "}
    BY <1>1, MatchingTokenIsTheAdmins
<1>7. ASSUME In("api").mode = "http"
      PROVE  /\ Actor # "anonymous"
             /\ \E k \in DOMAIN In("api").targets : In("api").targets[k] = target
  <2>1. AuthEnabled(In("api"))
      BY <1>1, <1>7, RealModeIsAuthenticated DEF Guarded, AsAdmin, LetIn
  <2>2. In("api").actor # "anonymous"
      BY ActorAssumption DEF Guarded, In
  <2>3. Actor # "anonymous"
      BY <2>1, <2>2 DEF Actor
  <2>4. TargetAllowed(In("api"), target)
      BY DEF Approve, Executable
  <2>. QED
      BY <1>7, <2>3, <2>4 DEF TargetAllowed
<1>8. RestartsAreGuarded'
    BY <1>2, <1>3, <1>4, <1>6, <1>7 DEF RestartsAreGuarded
<1>9. Asked'
    BY <1>1, <1>3, <1>4 DEF Asked
<1>. QED
    BY <1>1, <1>5, <1>8, <1>9 DEF Guarded

LEMMA GuardedNext == Guarded /\ [DeploymentNext]_deploymentVars => Guarded'
<1>. SUFFICES ASSUME Guarded, [DeploymentNext]_deploymentVars PROVE Guarded'
    OBVIOUS
<1>1. CASE \E p \in Process : Start(p)
    BY <1>1, StartKeepsGuarded
<1>2. CASE \E t \in Token : Webhook(t) \/ Create(t) \/ Analyze(t)
    BY <1>2, QuietStep DEF Webhook, Create, Analyze, remedyVars
<1>3. CASE Miss \/ Skip \/ NoModel \/ Conclude \/ Retry \/ DeadLetter
    BY <1>3, QuietStep DEF Miss, Skip, NoModel, Conclude, Retry, DeadLetter, remedyVars
<1>4. CASE RequestRestart
    BY <1>4, RequestKeepsGuarded
<1>5. CASE \E t \in Token : Reject(t) \/ ApproveRefused(t)
    BY <1>5, QuietStep DEF Reject, ApproveRefused, Granted, Decidable
<1>6. CASE \E t \in Token : Approve(t)
    BY <1>6, ApproveKeepsGuarded
<1>7. CASE Measure \/ Advance \/ Close
    BY <1>7, QuietStep DEF Measure, Advance, Close, remedyVars
<1>8. CASE UNCHANGED deploymentVars
    BY <1>8, QuietStep DEF deploymentVars, remedyVars
<1>. QED
    BY <1>1, <1>2, <1>3, <1>4, <1>5, <1>6, <1>7, <1>8 DEF DeploymentNext

(* However the processes are configured, a worker is restarted only with   *)
(* approvals enabled where it was asked for and, as soon as a token is     *)
(* configured or the restart is real, by the administrator; and for real   *)
(* only at a target of the API's list (Validate, AuthConfig, checkTarget). *)
THEOREM RestartGuarded == DeploymentSpec => []RestartsAreGuarded
<1>1. Guarded => RestartsAreGuarded
    BY DEF Guarded
<1>. QED
    BY <1>1, GuardedInit, GuardedNext, PTL DEF DeploymentSpec

-----------------------------------------------------------------------------
(* The configured figures are those of the verification.                   *)
FiguresOK ==
    /\ <<attempts, required>> = Normalized(<<In("api").attempts, In("api").required>>)
    /\ required \in Nat \ {0}

StreakOK ==
    /\ streak \in Nat /\ samples \in Seq(Sample)
    /\ streak > 0 => measured # {}
    /\ pc \in {"check", "gather", "wait"} => streak < required
    /\ pc = "passed" => streak = required

MeasuredOK == \A r \in measured : r \in Readings(In("api")) /\ SampleOf(r) = "pass"

(* A real restart was made by an API that started with the real mode.      *)
RealOK == restart.via = "http" => Boots("api") /\ In("api").mode = "http"

Sound == Guarded /\ FiguresOK /\ StreakOK /\ MeasuredOK /\ RealOK

(* What a good sample says of the values, although they are truncated.     *)
LEMMA GoodReading ==
    ASSUME NEW s, s.vmode = "prometheus", NEW r \in Readings(s), SampleOf(r) = "pass"
    PROVE  r[1] >= 2 /\ r[2] < 2 * 1001 /\ r[3] <= 10
<1>1. Len(r) >= 3 \/ Len(r) < 3
    BY ReadingsAssumption DEF Readings
<1>2. ~(Len(r) < 3)
    BY DEF SampleOf
<1>3. r \in Consumers \X Depth \X Rate
  <2>1. \/ r = << >> \/ \E c \in Consumers : r = <<c>>
        \/ \E c \in Consumers, d \in Depth : r = <<c, d>>
        \/ r \in Consumers \X Depth \X Rate
      BY DEF Readings
  <2>2. Len(<< >>) < 3 /\ \A c, d : Len(<<c>>) < 3 /\ Len(<<c, d>>) < 3
      OBVIOUS
  <2>. QED
      BY <1>2, <2>1, <2>2
<1>4. r[1] \in Int /\ r[2] \in Int /\ r[3] \in Int
    BY <1>3, ReadingsAssumption
<1>5. Truncated(r[1]) >= 1 /\ Truncated(r[2]) <= 1000 /\ r[3] <= 10
    BY <1>2 DEF SampleOf
<1>6. r[1] >= 2
    BY <1>4, <1>5 DEF Truncated
<1>7. r[2] < 2 * 1001
    BY <1>4, <1>5 DEF Truncated
<1>. QED
    BY <1>5, <1>6, <1>7

LEMMA SoundInit == DeploymentInit => Sound
<1>. SUFFICES ASSUME DeploymentInit PROVE Sound
    OBVIOUS
<1>1. Guarded
    BY GuardedInit
<1>2. PICK c \in Config : required = Normalized(c)[2]
    BY DEF DeploymentInit, Init
<1>3. required \in Nat \ {0}
  <2>1. c[1] \in Int /\ c[2] \in Int
      BY <1>2, ConfigAssumption
  <2>. QED
      BY <1>2, <2>1 DEF Normalized
<1>4. FiguresOK
    BY <1>3 DEF DeploymentInit, FiguresOK
<1>5. StreakOK
  <2>1. samples = << >> /\ streak = 0 /\ pc = "check"
      BY DEF DeploymentInit, Init
  <2>2. samples \in Seq(Sample)
      BY <2>1
  <2>. QED
      BY <1>3, <2>1, <2>2 DEF StreakOK
<1>6. MeasuredOK /\ RealOK
    BY DEF DeploymentInit, MeasuredOK, RealOK, NoRestart
<1>. QED
    BY <1>1, <1>4, <1>5, <1>6 DEF Sound

(* One sample: the readings collected are those behind the streak.         *)
LEMMA MeasureKeepsSound ==
    ASSUME Sound, Measure
    PROVE  StreakOK' /\ MeasuredOK'
<1>. PICK reading \in Readings(In("api")) :
        /\ Gather /\ samples' = Append(samples, SampleOf(reading))
        /\ measured' = IF SampleOf(reading) = "pass" THEN measured \cup {reading} ELSE {}
    BY DEF Measure
<1>. DEFINE got == SampleOf(reading)
<1>1. got \in Sample
    BY DEF SampleOf, Sample
<1>2. PICK s \in Sample : /\ samples' = Append(samples, s)
                          /\ streak' = NextStreak(s)
                          /\ pc' = AfterSample(Len(samples) + 1, NextStreak(s))
    BY DEF Gather
<1>3. s = got
  <2>. HIDE DEF got
  <2>1. samples \in Seq(Sample) /\ Append(samples, s) = Append(samples, got)
      BY <1>2 DEF Sound, StreakOK, got
  <2>. QED
      BY <1>1, <2>1
<1>4. pc = "gather" /\ required' = required /\ streak < required
    BY DEF Gather, Sound, StreakOK
<1>5. streak \in Nat /\ required \in Nat \ {0}
    BY DEF Sound, StreakOK, FiguresOK
<1>6. In("api")' = In("api")
    BY DEF Measure, In
<1>7. MeasuredOK'
    BY <1>6 DEF Sound, MeasuredOK
<1>8. samples' \in Seq(Sample)
    BY <1>1 DEF Sound, StreakOK
<1>9. CASE got = "pass"
  <2>1. streak' = streak + 1 /\ measured' # {}
      BY <1>2, <1>3, <1>9 DEF NextStreak
  <2>2. pc' = "passed" => streak' = required
      BY <1>2, <1>3, <1>4, <1>5, <1>9 DEF NextStreak, AfterSample
  <2>3. pc' \in {"check", "gather", "wait"} => streak' < required
      BY <1>2, <1>3, <1>4, <1>5, <1>9 DEF NextStreak, AfterSample
  <2>. QED
      BY <1>4, <1>5, <1>7, <1>8, <2>1, <2>2, <2>3 DEF StreakOK
<1>10. CASE got # "pass"
  <2>1. streak' = 0 /\ pc' # "passed"
      BY <1>2, <1>3, <1>5, <1>10 DEF NextStreak, AfterSample
  <2>. QED
      BY <1>4, <1>5, <1>7, <1>8, <2>1 DEF StreakOK
<1>. QED
    BY <1>9, <1>10

(* The loop between two samples, and the end of the context.               *)
LEMMA AdvanceKeepsSound ==
    ASSUME Sound, Advance
    PROVE  StreakOK' /\ MeasuredOK'
<1>1. UNCHANGED <<required, samples, streak, measured, file>>
    BY DEF Advance, Check, Wait, Cancel
<1>2. \/ pc \in {"check", "gather", "wait"}
         /\ pc' \in {"check", "gather", "wait", "interrupted"}
      \/ pc' = pc
    BY DEF Advance, Check, Wait, Cancel
<1>3. In("api")' = In("api")
    BY <1>1 DEF In
<1>4. MeasuredOK'
    BY <1>1, <1>3 DEF Sound, MeasuredOK
<1>5. StreakOK'
    BY <1>1, <1>2 DEF Sound, StreakOK
<1>. QED
    BY <1>4, <1>5

LEMMA SoundNext == Sound /\ [DeploymentNext]_deploymentVars => Sound'
<1>. SUFFICES ASSUME Sound, [DeploymentNext]_deploymentVars PROVE Sound'
    OBVIOUS
<1>1. Guarded'
    BY GuardedNext DEF Sound
<1>2. UNCHANGED <<file, attempts, required>>
    BY DEF DeploymentNext, deploymentVars, verification, Start, Webhook, Create, Analyze,
           Miss, Skip, NoModel, Conclude, Retry, DeadLetter, RequestRestart, Reject, ApproveRefused,
           Approve, Granted, Measure, Gather, Advance, Check, Wait, Cancel, Close
<1>3. In("api")' = In("api") /\ (Boots("api") => Boots("api")')
    BY <1>2 DEF In, Boots
<1>4. FiguresOK'
    BY <1>2, <1>3 DEF Sound, FiguresOK
<1>5. CASE Measure \/ Advance
  <2>1. StreakOK' /\ MeasuredOK' /\ restart' = restart
      BY <1>5, MeasureKeepsSound, AdvanceKeepsSound DEF Measure, Advance, remedyVars
  <2>. QED
      BY <1>1, <1>3, <1>4, <2>1 DEF Sound, RealOK
<1>6. CASE ~(Measure \/ Advance)
  <2>1. UNCHANGED <<samples, streak, pc, measured>>
      BY <1>6 DEF DeploymentNext, deploymentVars, verification, Start, Webhook, Create, Analyze,
           Miss, Skip, NoModel, Conclude, Retry, DeadLetter, RequestRestart, Reject, ApproveRefused,
           Approve, Granted, Close
  <2>2. StreakOK' /\ MeasuredOK'
      BY <1>2, <1>3, <2>1 DEF Sound, StreakOK, MeasuredOK
  <2>3. CASE \E t \in Token : Approve(t)
    <3>1. Up("api") /\ restart'.via = In("api").mode
        BY <2>3 DEF Approve, Granted, AsAdmin, LetIn
    <3>2. Boots("api")
        BY <3>1 DEF Sound, Guarded, Booted, Up, Process
    <3>. QED
        BY <1>1, <1>3, <1>4, <2>2, <3>1, <3>2 DEF Sound, RealOK
  <2>4. CASE ~ \E t \in Token : Approve(t)
    <3>1. restart' = restart
        BY <1>6, <2>4 DEF DeploymentNext, deploymentVars, remedyVars, Start, Webhook, Create,
             Analyze, Miss, Skip, NoModel, Conclude, Retry, DeadLetter, RequestRestart, Reject,
             ApproveRefused, Granted, Close
    <3>. QED
        BY <1>1, <1>3, <1>4, <2>2, <3>1 DEF Sound, RealOK
  <2>. QED
      BY <2>3, <2>4
<1>. QED
    BY <1>5, <1>6

(* What the invariant says of a restart that was found to have worked.     *)
LEMMA SoundPasses == Sound => RealRestartsPassOnMeasurements
<1>. SUFFICES ASSUME Sound, restart.via = "http", pc = "passed"
              PROVE  /\ In("api").vmode = "prometheus"
                     /\ streak = In("api").required /\ measured # {}
                     /\ \A r \in measured : r[1] >= 2 /\ r[2] < 2 * 1001 /\ r[3] <= 10
    BY DEF RealRestartsPassOnMeasurements
<1>1. Valid(In("api")) /\ In("api").mode = "http"
    BY DEF Sound, RealOK, Boots, Loads, In
<1>2. In("api").vmode = "prometheus"
    BY <1>1 DEF Valid, RemediationSound
<1>3. In("api").required >= 1
    BY <1>1 DEF Valid, FiguresSound
<1>4. In("api").required \in Int
    BY FiguresAssumption DEF Sound, Guarded, In
<1>5. required = In("api").required
    BY <1>3, <1>4 DEF Sound, FiguresOK, Normalized
<1>6. streak = required /\ measured # {}
    BY DEF Sound, StreakOK, FiguresOK
<1>7. \A r \in measured : r[1] >= 2 /\ r[2] < 2 * 1001 /\ r[3] <= 10
    BY <1>2, GoodReading DEF Sound, MeasuredOK
<1>. QED
    BY <1>2, <1>5, <1>6, <1>7

(* A real restart is found to have worked only on as many consecutive      *)
(* samples as configured, with readings from Prometheus behind them that   *)
(* were all within the thresholds (Gather, Verify, Validate).              *)
THEOREM RealPassesAreMeasured == DeploymentSpec => []RealRestartsPassOnMeasurements
BY SoundInit, SoundNext, SoundPasses, PTL DEF DeploymentSpec

-----------------------------------------------------------------------------
(* The verification of a deployment is the one of Verification.            *)

LEMMA DeploymentVerifies == DeploymentNext => [Next]_vars
<1>. SUFFICES ASSUME DeploymentNext PROVE [Next]_vars
    OBVIOUS
<1>1. CASE Measure
    BY <1>1 DEF Measure, Next
<1>2. CASE Advance
    BY <1>2 DEF Advance, Next
<1>3. CASE ~(Measure \/ Advance)
    BY <1>3 DEF DeploymentNext, verification, vars, Start, Webhook, Create, Analyze, Miss,
       Skip, NoModel, Conclude, Retry, DeadLetter, RequestRestart, Reject, ApproveRefused, Approve,
       Granted, Close
<1>. QED
    BY <1>1, <1>2, <1>3

(* Whatever processes, requests and messages surround it, the verification *)
(* in the API is a behaviour of VerifySequence with one of the figures     *)
(* an operator may configure: every theorem about Verification holds of it.*)
THEOREM DeploymentRunsVerification == DeploymentSpec => Spec
<1>1. DeploymentInit => Init
    BY DEF DeploymentInit
<1>2. [DeploymentNext]_deploymentVars => [Next]_vars
    BY DeploymentVerifies DEF deploymentVars, verification, vars
<1>. QED
    BY <1>1, <1>2, PTL DEF DeploymentSpec, Spec

-----------------------------------------------------------------------------
(* Types.                                                                  *)

IncidentStatus == {"ABSENT", "OPEN", "INVESTIGATING", "WAITING_APPROVAL",
                   "MITIGATING", "VERIFYING", "RESOLVED", "FAILED"}
ApprovalsInUse == {"ABSENT", "PENDING", "EXECUTING", "EXECUTED", "FAILED", "REJECTED", "UNKNOWN"}

AlertsTyped ==
    /\ incident \in IncidentStatus /\ alerted \in BOOLEAN /\ diagnosed \in BOOLEAN
    /\ message \in {"none", "queued", "dead"}
    /\ faults \subseteq {"publication", "callback"}

RemedyTyped ==
    /\ approval \in ApprovalsInUse /\ target \in WorkerName \cup {""}
    /\ restart.token \in Token \cup {""}

(* Samples are taken by a process that is up.                              *)
SamplesOfTheAPI == samples # << >> => Boots("api")

Typed == Sound /\ AlertsTyped /\ RemedyTyped /\ SamplesOfTheAPI

LEMMA TypedInit == DeploymentInit => Typed
<1>. SUFFICES ASSUME DeploymentInit PROVE Typed
    OBVIOUS
<1>1. Sound
    BY SoundInit
<1>2. AlertsTyped
    BY DEF DeploymentInit, AlertsTyped, IncidentStatus
<1>3. RemedyTyped
  <2>1. approval = "ABSENT" /\ target = "" /\ restart = NoRestart
      BY DEF DeploymentInit
  <2>2. NoRestart.token = ""
      BY DEF NoRestart
  <2>. QED
      BY <2>1, <2>2 DEF RemedyTyped, ApprovalsInUse
<1>4. SamplesOfTheAPI
  <2>1. samples = << >>
      BY DEF DeploymentInit, Init
  <2>. QED
      BY <2>1 DEF SamplesOfTheAPI
<1>. QED
    BY <1>1, <1>2, <1>3, <1>4 DEF Typed

LEMMA TypedNext == Typed /\ [DeploymentNext]_deploymentVars => Typed'
<1>. SUFFICES ASSUME Typed, [DeploymentNext]_deploymentVars PROVE Typed'
    OBVIOUS
<1>1. Sound'
    BY SoundNext DEF Typed
<1>2. AlertsTyped'
  <2>. USE DEF Typed, AlertsTyped, IncidentStatus
  <2>1. CASE \E t \in Token : Webhook(t) \/ Create(t) \/ Analyze(t)
      BY <2>1 DEF Webhook, Create, Analyze, Published, PublicationFails
  <2>2. CASE Miss \/ Skip \/ NoModel \/ Conclude \/ Retry \/ DeadLetter \/ RequestRestart
      BY <2>2 DEF Miss, Skip, NoModel, Conclude, Retry, DeadLetter, RequestRestart, Handled
  <2>3. CASE \E t \in Token : Reject(t) \/ ApproveRefused(t) \/ Approve(t)
      BY <2>3 DEF Reject, ApproveRefused, Approve, Granted
  <2>4. CASE Close
      BY <2>4 DEF Close
  <2>5. CASE (\E p \in Process : Start(p)) \/ Measure \/ Advance \/ UNCHANGED deploymentVars
      BY <2>5 DEF Start, Measure, Advance, deploymentVars, alertVars
  <2>. QED
      BY <2>1, <2>2, <2>3, <2>4, <2>5 DEF DeploymentNext
<1>3. RemedyTyped'
  <2>. USE DEF Typed, RemedyTyped, ApprovalsInUse
  <2>1. CASE RequestRestart
      BY <2>1 DEF RequestRestart
  <2>2. CASE \E t \in Token : Reject(t) \/ ApproveRefused(t)
      BY <2>2 DEF Reject, ApproveRefused, Granted
  <2>3. CASE \E t \in Token : Approve(t)
    <3>1. PICK t \in Token : Approve(t)
        BY <2>3
    <3>2. restart' = [via |-> In("api").mode, target |-> target, token |-> t, by |-> Actor]
        BY <3>1 DEF Approve
    <3>3. restart'.token = t
        BY <3>2
    <3>4. approval' \in ApprovalsInUse
        BY <3>1 DEF Approve
    <3>5. target' = target
        BY <3>1 DEF Approve, Granted
    <3>. QED
        BY <3>3, <3>4, <3>5
  <2>4. CASE Close
      BY <2>4 DEF Close
  <2>5. CASE UNCHANGED remedyVars
      BY <2>5 DEF remedyVars
  <2>. QED
      BY <2>1, <2>2, <2>3, <2>4, <2>5
      DEF DeploymentNext, deploymentVars, Start, Webhook, Create, Analyze, Miss, Skip, NoModel,
          Conclude, Retry, DeadLetter, Measure, Advance
<1>4. SamplesOfTheAPI'
  <2>1. UNCHANGED file
      BY DEF DeploymentNext, deploymentVars, Start, Webhook, Create, Analyze, Miss, Skip,
         NoModel, Conclude, Retry, DeadLetter, RequestRestart, Reject, ApproveRefused, Approve, Granted,
         Measure, Advance, Close
  <2>2. Boots("api") => Boots("api")'
      BY <2>1 DEF Boots, In
  <2>3. CASE Measure
      BY <2>2, <2>3 DEF Measure, Verifying, Up, Typed, Sound, Guarded, Booted, Process, SamplesOfTheAPI
  <2>4. CASE UNCHANGED samples
      BY <2>2, <2>4 DEF Typed, SamplesOfTheAPI
  <2>. QED
      BY <2>3, <2>4
      DEF DeploymentNext, deploymentVars, verification, Start, Webhook, Create, Analyze, Miss,
          Skip, NoModel, Conclude, Retry, DeadLetter, RequestRestart, Reject, ApproveRefused, Approve,
          Granted, Advance, Check, Wait, Cancel, Close
<1>. QED
    BY <1>1, <1>2, <1>3, <1>4 DEF Typed

(* Every variable keeps its type, and a verification takes no more samples *)
(* than the API's file asks for (RunConfig.normalized, Validate).          *)
THEOREM DeploymentTyped == DeploymentSpec => []DeploymentTypeOK
<1>1. Typed /\ TypeOK => DeploymentTypeOK
  <2>. SUFFICES ASSUME Typed, TypeOK PROVE DeploymentTypeOK
      OBVIOUS
  <2>1. measured \subseteq Readings(In("api"))
      BY DEF Typed, Sound, MeasuredOK
  <2>2. ASSUME samples # << >> PROVE Len(samples) <= In("api").attempts
    <3>1. In("api").attempts >= 1
        BY <2>2 DEF Typed, SamplesOfTheAPI, Boots, Loads, In, Valid, FiguresSound
    <3>2. In("api").attempts \in Int
        BY FiguresAssumption DEF Typed, Sound, Guarded, In
    <3>3. attempts = In("api").attempts
        BY <3>1, <3>2 DEF Typed, Sound, FiguresOK, Normalized
    <3>. QED
        BY <3>3 DEF TypeOK
  <2>. QED
      BY <2>1, <2>2 DEF Typed, Sound, Guarded, AlertsTyped, RemedyTyped, IncidentStatus,
         ApprovalsInUse, DeploymentTypeOK
<1>2. DeploymentSpec => []Typed
    BY TypedInit, TypedNext, PTL DEF DeploymentSpec
<1>. QED
    BY <1>1, <1>2, DeploymentRunsVerification, TypeCorrect, PTL

-----------------------------------------------------------------------------
(* Alerts.                                                                 *)

(* The worker of a real API sees the incidents the API creates and can     *)
(* diagnose them: it is a real one too, as it is when both are started     *)
(* from one file, the default of the two commands, or its own file names   *)
(* the database and the model.  Validate looks at one file at a time, and  *)
(* nothing stops a simulating worker without a model from being started    *)
(* next to a real API: it would acknowledge the alerts undiagnosed.        *)
WorkersAreEquipped ==
    \A d \in Deployments : Loaded(d.api).mode = "http" =>
        \/ Loaded(d.worker).mode = "http"
        \/ {"postgres.dsn", "llm.base_url", "llm.model"} \subseteq Loaded(d.worker).given

RealAPI == Up("api") /\ In("api").mode = "http"

Closed == incident \in {"FAILED", "RESOLVED"}

(* Nothing happens before the API is up; and with a real API whatever is   *)
(* accepted or beyond OPEN is queued, diagnosed or closed, or has met one  *)
(* of the two failures: a lost publication leaves nothing queued only of   *)
(* an incident that is being investigated.                                 *)
NotStranded ==
    /\ ~Up("api") => incident = "ABSENT" /\ ~alerted
    /\ alerted => incident # "ABSENT"
    /\ RealAPI /\ (alerted \/ incident \notin {"ABSENT", "OPEN"}) =>
          \/ message = "queued" \/ diagnosed \/ Closed
          \/ "publication" \in faults /\ message = "none" /\ incident = "INVESTIGATING"
          \/ "callback" \in faults /\ message = "dead"
    /\ RealAPI /\ incident = "OPEN" /\ message = "dead" => "callback" \in faults
    /\ incident = "ABSENT" => message = "none"
    /\ message \in {"none", "queued", "dead"}
    /\ approval = "EXECUTING" \/ incident \in {"WAITING_APPROVAL", "MITIGATING", "VERIFYING"} => diagnosed

LEMMA EquippedWorker ==
    ASSUME WorkersAreEquipped, Guarded, RealAPI, Up("worker")
    PROVE  Shared /\ HasModel(In("worker")) /\ "rabbitmq.url" \in In("api").given
<1>1. \A p \in Process : Up(p) /\ In(p).mode = "http" =>
         {"postgres.dsn", "rabbitmq.url", "llm.base_url", "llm.model"} \subseteq In(p).given
    BY DEF Guarded, Booted, Boots, Loads, In, Up, Valid, RemediationSound
<1>2. {"postgres.dsn", "llm.base_url", "llm.model"} \subseteq In("worker").given
    BY <1>1 DEF WorkersAreEquipped, Guarded, RealAPI, In, Process
<1>. QED
    BY <1>1, <1>2 DEF Shared, HasModel, RealAPI, Process

LEMMA NotStrandedInit == DeploymentInit => NotStranded
BY DEF DeploymentInit, NotStranded, RealAPI, Up, Process

(* The alerts that a running API holds stay where they can be seen.        *)
LEMMA NotStrandedNext ==
    ASSUME WorkersAreEquipped, Guarded, NotStranded, [DeploymentNext]_deploymentVars
    PROVE  NotStranded'
<1>1. UNCHANGED file
    BY DEF DeploymentNext, deploymentVars, Start, Webhook, Create, Analyze, Miss, Skip,
       NoModel, Conclude, Retry, DeadLetter, RequestRestart, Reject, ApproveRefused,
       Approve, Granted, Measure, Advance, Close
<1>2. In("api")' = In("api")
    BY <1>1 DEF In
<1>3. CASE \E p \in Process : Start(p)
  <2>1. UNCHANGED <<incident, alerted, message, diagnosed, faults, approval>>
      BY <1>3 DEF Start, alertVars, remedyVars
  <2>2. Up("api") => Up("api")'
      BY <1>3 DEF Start, Up, Guarded, Process
  <2>3. CASE Up("api")
      BY <1>2, <2>1, <2>2, <2>3 DEF NotStranded, RealAPI, Closed
  <2>4. CASE ~Up("api")
      BY <2>1, <2>4 DEF NotStranded, RealAPI, Closed
  <2>. QED
      BY <2>3, <2>4
<1>4. CASE UNCHANGED at /\ ~ \E p \in Process : Start(p)
  <2>1. Up("api")' = Up("api") /\ RealAPI' = RealAPI
      BY <1>2, <1>4 DEF Up, RealAPI
  <2>2. ASSUME NEW t, Webhook(t) \/ Create(t) \/ Analyze(t)
        PROVE  NotStranded'
    <3>1. Up("api")
        BY <2>2 DEF Webhook, Create, Analyze, AsAdmin, AsWebhook, LetIn
    <3>2. RealAPI => Published = "queued"
        BY <3>1 DEF RealAPI, Guarded, Booted, Boots, Loads, Valid, RemediationSound, In, Up,
           Process, Published
    <3>3. CASE Webhook(t)
        BY <2>1, <3>1, <3>2, <3>3
        DEF Webhook, Published, PublicationFails, NotStranded, Closed, remedyVars
    <3>4. CASE Create(t)
        BY <2>1, <3>1, <3>4 DEF Create, NotStranded, Closed, remedyVars
    <3>5. CASE Analyze(t)
        BY <2>1, <3>1, <3>2, <3>5
        DEF Analyze, Published, PublicationFails, NotStranded, Closed, remedyVars
    <3>. QED
        BY <2>2, <3>3, <3>4, <3>5
  <2>3. CASE Miss \/ Skip \/ NoModel \/ Conclude \/ Retry \/ DeadLetter \/ RequestRestart
    <3>1. Up("worker")
        BY <2>3 DEF Miss, Skip, NoModel, Conclude, Retry, DeadLetter, RequestRestart, Undiagnosed,
           Delivered
    <3>2. RealAPI => Shared /\ HasModel(In("worker"))
        BY <3>1, EquippedWorker
    <3>3. UNCHANGED alerted
        BY <2>3 DEF Miss, Skip, NoModel, Conclude, Retry, DeadLetter, RequestRestart
    <3>4. CASE Miss
        BY <2>1, <3>1, <3>2, <3>3, <3>4
        DEF Miss, Delivered, Handled, NotStranded, Closed, remedyVars
    <3>5. CASE Skip
        BY <2>1, <3>1, <3>2, <3>3, <3>5
        DEF Skip, Delivered, Handled, NotStranded, Closed, remedyVars
    <3>6. CASE NoModel
        BY <2>1, <3>1, <3>2, <3>3, <3>6
        DEF NoModel, Undiagnosed, Delivered, Handled, NotStranded, Closed, remedyVars
    <3>7. CASE Retry
        BY <2>1, <3>1, <3>3, <3>7
        DEF Retry, Undiagnosed, Delivered, NotStranded, Closed, remedyVars
    <3>8. CASE Conclude \/ RequestRestart
        BY <2>1, <3>1, <3>3, <3>8 DEF Conclude, RequestRestart, Undiagnosed, Delivered, Handled,
           NotStranded, Closed, remedyVars
    <3>9. CASE DeadLetter
        BY <2>1, <3>1, <3>3, <3>9
        DEF DeadLetter, Undiagnosed, Delivered, Handled, NotStranded, Closed, remedyVars
    <3>. QED
        BY <2>3, <3>4, <3>5, <3>6, <3>7, <3>8, <3>9
  <2>4. CASE \E t \in Token : Reject(t) \/ ApproveRefused(t) \/ Approve(t)
      BY <2>1, <2>4 DEF Reject, ApproveRefused, Approve, Granted, Decidable, AsAdmin, LetIn,
         NotStranded, Closed
  <2>5. CASE Close
      BY <2>1, <2>5 DEF Close, Verifying, NotStranded, Closed
  <2>6. CASE Measure \/ Advance \/ UNCHANGED deploymentVars
      BY <2>1, <2>6 DEF Measure, Advance, deploymentVars, alertVars, remedyVars, NotStranded,
         Closed
  <2>. QED
      BY <1>4, <2>2, <2>3, <2>4, <2>5, <2>6 DEF DeploymentNext
<1>. QED
    BY <1>3, <1>4 DEF DeploymentNext, deploymentVars, Webhook, Create, Analyze, Miss, Skip,
       NoModel, Conclude, Retry, DeadLetter, RequestRestart, Reject, ApproveRefused,
       Approve, Granted, Measure, Advance, Close

(* Where restarts are real and the worker is equipped to diagnose, an      *)
(* alert that was accepted is with the broker, diagnosed, or its incident  *)
(* was closed, unless the analyze endpoint lost its publication or the     *)
(* terminal callback failed: Validate asks the HTTP mode for one database, *)
(* RabbitMQ and an LLM, and but for these two failures the message of an   *)
(* alert is never acknowledged without one of the former.                  *)
THEOREM RealAlertsAreSeen ==
    ASSUME WorkersAreEquipped
    PROVE  DeploymentSpec => []RealAlertsAreNotStranded
<1>1. DeploymentInit => Guarded /\ NotStranded
    BY GuardedInit, NotStrandedInit
<1>2. Guarded /\ NotStranded /\ [DeploymentNext]_deploymentVars => (Guarded /\ NotStranded)'
    BY GuardedNext, NotStrandedNext
<1>3. NotStranded => RealAlertsAreNotStranded
    BY DEF NotStranded, RealAlertsAreNotStranded, RealAPI, Closed
<1>. QED
    BY <1>1, <1>2, <1>3, PTL DEF DeploymentSpec
=============================================================================
