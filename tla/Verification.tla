---------------------------- MODULE Verification ----------------------------
(***************************************************************************)
(* Verifier.VerifySequence: sample the metrics up to Attempts times and    *)
(* pass only after RequiredSuccesses consecutive good samples.  The two    *)
(* figures are drawn in Init, so that one behaviour is one call with one   *)
(* configuration.  A sample is "pass", "checks" (a threshold is missed) or *)
(* "error" (unreachable, empty, NaN, Inf: gatherer.go).                    *)
(***************************************************************************)
EXTENDS Integers, Sequences

CONSTANT Config    \* <<attempts, required successes>> an operator may configure

ASSUME ConfigAssumption == Config \subseteq Int \X Int

VARIABLES
    attempts,    \* RunConfig.Attempts, normalized
    required,    \* RunConfig.RequiredSuccesses, normalized
    samples,     \* the samples taken, in order
    streak,      \* consecutive good samples
    ctx,         \* "live" or "cancelled"
    pc           \* "check", "gather", "wait", or the verdict

vars == <<attempts, required, samples, streak, ctx, pc>>

Sample == {"pass", "checks", "error"}
Verdict == {"passed", "failed", "interrupted"}

(* RunConfig.normalized: only values that are not positive are replaced.   *)
Normalized(c) ==
    LET AtLeastOne(n) == IF n <= 0 THEN 1 ELSE n
    IN  <<AtLeastOne(c[1]), AtLeastOne(c[2])>>

Init ==
    /\ \E c \in Config : attempts = Normalized(c)[1] /\ required = Normalized(c)[2]
    /\ samples = << >> /\ streak = 0
    /\ ctx = "live" /\ pc = "check"

(* The head of the loop: ctx.Err().                                        *)
Check ==
    /\ pc = "check"
    /\ pc' = IF ctx = "live" THEN "gather" ELSE "interrupted"
    /\ UNCHANGED <<attempts, required, samples, streak, ctx>>

(* Mutant: a sample that could not be taken leaves the streak alone.       *)
StreakIgnoringErrors(s) ==
    CASE s = "pass" -> streak + 1 [] s = "error" -> streak [] OTHER -> 0

NextStreak(s) == IF s = "pass" THEN streak + 1 ELSE 0

(* Mutants: one attempt too many; giving up at the first bad sample.       *)
AfterSampleOneMore(n, good) ==
    IF good >= required THEN "passed" ELSE IF n <= attempts THEN "wait" ELSE "failed"

AfterSampleImpatient(n, good) ==
    IF good >= required THEN "passed"
    ELSE IF n < attempts /\ good > 0 THEN "wait" ELSE "failed"

(* After a sample: enough in a row, another attempt, or none left.         *)
AfterSample(n, good) ==
    IF good >= required THEN "passed" ELSE IF n < attempts THEN "wait" ELSE "failed"

(* Gather and Verify.  A context cancelled meanwhile usually shows as an   *)
(* error of the sample, but a sample already taken still counts.           *)
Gather ==
    /\ pc = "gather"
    /\ \E s \in Sample :
          /\ samples' = Append(samples, s)
          /\ streak' = NextStreak(s)
          /\ pc' = AfterSample(Len(samples) + 1, NextStreak(s))
    /\ UNCHANGED <<attempts, required, ctx>>

(* The interval; when the timer and the cancellation are both ready the    *)
(* select takes either, and without an interval there is nothing to wait.  *)
Wait ==
    /\ pc = "wait"
    /\ pc' = "check" \/ (ctx = "cancelled" /\ pc' = "interrupted")
    /\ UNCHANGED <<attempts, required, samples, streak, ctx>>

(* The caller's context ends at any point of the call.                     *)
Cancel ==
    /\ ctx = "live" /\ pc \notin Verdict
    /\ ctx' = "cancelled"
    /\ UNCHANGED <<attempts, required, samples, streak, pc>>

Next == Check \/ Gather \/ Wait \/ Cancel

Spec == Init /\ [][Next]_vars

-----------------------------------------------------------------------------
(* Samples m+1 .. n are all good.                                          *)
GoodBetween(m, n) == \A k \in (m + 1) .. n : samples[k] = "pass"

(* Some `required` consecutive samples were good.                          *)
SomeWindow == \E n \in required .. Len(samples) : GoodBetween(n - required, n)

(* Every variable has its type and no call samples more than attempts.     *)
TypeOK ==
    /\ attempts \in Nat \ {0} /\ required \in Nat \ {0}
    /\ samples \in Seq(Sample) /\ Len(samples) <= attempts
    /\ streak \in 0 .. Len(samples)
    /\ ctx \in {"live", "cancelled"}
    /\ pc \in {"check", "gather", "wait"} \cup Verdict

(* The verdict "passed" is reached exactly when the last required samples  *)
(* are good, never on fewer, and no later than the first such window.      *)
PassedExactlyOnWindow == (pc = "passed") <=> SomeWindow

(* "failed" means that all attempts were used without such a window; what  *)
(* was cut short with attempts left is never reported as failed.           *)
FailedMeansExhausted == pc = "failed" => Len(samples) = attempts /\ ~SomeWindow

(* What verifier.go:140 says: a call whose context is cancelled claims     *)
(* neither success nor failure.  A sample that got its answer before may   *)
(* still count; the one the cancellation broke off must not decide.        *)
CancelledIsNoVerdict ==
    pc = "failed" /\ samples[Len(samples)] = "error" => ctx = "live"
=============================================================================
