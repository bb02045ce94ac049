------------------------- MODULE VerificationProofs -------------------------
(***************************************************************************)
(* Verification for every configuration and any number of attempts: the    *)
(* verdict "passed" is given exactly on the required number of consecutive *)
(* good samples, and "failed" only when all attempts were used in vain.    *)
(***************************************************************************)
EXTENDS Verification, TLAPS

(* The good samples at the end of the list are counted by streak ...       *)
StreakCounts ==
    /\ GoodBetween(Len(samples) - streak, Len(samples))
    /\ streak < Len(samples) => samples[Len(samples) - streak] # "pass"

(* ... which stays short of the threshold until the verdict is "passed"... *)
NoWindowYet == pc # "passed" => streak < required /\ ~SomeWindow
WindowFound == pc = "passed" => streak >= required

(* ... and the loop goes on only while attempts are left.                  *)
AttemptsLeft ==
    /\ pc \in {"check", "gather", "wait"} => Len(samples) < attempts
    /\ pc = "failed" => Len(samples) = attempts

IInv == TypeOK /\ StreakCounts /\ NoWindowYet /\ WindowFound /\ AttemptsLeft

-----------------------------------------------------------------------------
(* RunConfig.normalized makes both figures positive.                       *)
LEMMA NormalizedPositive ==
    ASSUME NEW c \in Int \X Int
    PROVE  Normalized(c)[1] \in Nat \ {0} /\ Normalized(c)[2] \in Nat \ {0}
  BY DEF Normalized

(* A call starts with no sample and attempts to make.                      *)
LEMMA InitKeeps == Init => IInv
<1> SUFFICES ASSUME Init PROVE IInv
  OBVIOUS
<1>1. attempts \in Nat \ {0} /\ required \in Nat \ {0}
  BY NormalizedPositive, ConfigAssumption DEF Init
<1> QED
  BY <1>1 DEF Init, IInv, TypeOK, StreakCounts, NoWindowYet, WindowFound,
              AttemptsLeft, SomeWindow, GoodBetween, Sample, Verdict

(* Appending a sample leaves the earlier ones where they are.              *)
LEMMA AppendKeeps ==
    ASSUME NEW s \in Sample, TypeOK, samples' = Append(samples, s)
    PROVE  /\ samples' \in Seq(Sample)
           /\ Len(samples') = Len(samples) + 1
           /\ samples'[Len(samples) + 1] = s
           /\ \A k \in 1 .. Len(samples) : samples'[k] = samples[k]
  BY DEF TypeOK

(* Where the loop goes after a sample.                                     *)
LEMMA AfterSampleVerdict ==
    ASSUME NEW n \in Nat, NEW good \in Nat, attempts \in Nat, required \in Nat
    PROVE  /\ good >= required => AfterSample(n, good) = "passed"
           /\ good < required /\ n < attempts => AfterSample(n, good) = "wait"
           /\ good < required /\ ~(n < attempts) => AfterSample(n, good) = "failed"
<1>1. CASE good >= required
  BY <1>1 DEF AfterSample
<1>2. CASE good < required /\ n < attempts
  BY <1>2 DEF AfterSample
<1>3. CASE good < required /\ ~(n < attempts)
  BY <1>3 DEF AfterSample
<1> QED
  BY <1>1, <1>2, <1>3

(* The loop takes one sample (Gather, Verify, the streak and its test).    *)
LEMMA GatherKeeps == IInv /\ Gather => IInv'
<1> SUFFICES ASSUME IInv, Gather PROVE IInv'
  OBVIOUS
<1> PICK s \in Sample : /\ samples' = Append(samples, s)
                        /\ streak' = NextStreak(s)
                        /\ pc' = AfterSample(Len(samples) + 1, NextStreak(s))
  BY DEF Gather
<1>a. /\ attempts' = attempts /\ required' = required /\ ctx' = ctx
      /\ pc = "gather" /\ TypeOK /\ Len(samples) < attempts
      /\ streak < required /\ ~SomeWindow
  BY DEF Gather, IInv, NoWindowYet, AttemptsLeft
<1>b. /\ attempts \in Nat \ {0} /\ required \in Nat \ {0}
      /\ Len(samples) \in Nat /\ streak \in 0 .. Len(samples)
  BY <1>a DEF TypeOK
<1>c. /\ samples' \in Seq(Sample)
      /\ Len(samples') = Len(samples) + 1
      /\ samples'[Len(samples) + 1] = s
      /\ \A k \in 1 .. Len(samples) : samples'[k] = samples[k]
  BY <1>a, AppendKeeps
<1>d. streak' \in 0 .. Len(samples')
  BY <1>b, <1>c DEF NextStreak
<1>e. /\ streak' >= required => pc' = "passed"
      /\ streak' < required /\ Len(samples') < attempts => pc' = "wait"
      /\ streak' < required /\ ~(Len(samples') < attempts) => pc' = "failed"
  BY <1>b, <1>c, <1>d, AfterSampleVerdict
<1>1. TypeOK'
  BY <1>a, <1>b, <1>c, <1>d, <1>e DEF TypeOK, Verdict
<1>2. StreakCounts'
  <2>1. CASE s = "pass"
    <3>1. streak' = streak + 1
      BY <2>1 DEF NextStreak
    <3>2. GoodBetween(Len(samples) - streak, Len(samples))
          /\ (streak < Len(samples) => samples[Len(samples) - streak] # "pass")
      BY DEF IInv, StreakCounts
    <3>3. Len(samples') - streak' = Len(samples) - streak
      BY <3>1, <1>b, <1>c
    <3> QED
      BY <2>1, <3>1, <3>2, <3>3, <1>b, <1>c DEF StreakCounts, GoodBetween
  <2>2. CASE s # "pass"
    BY <2>2, <1>b, <1>c DEF StreakCounts, GoodBetween, NextStreak
  <2> QED
    BY <2>1, <2>2
<1>3. NoWindowYet'
  <2> SUFFICES ASSUME streak' < required PROVE ~SomeWindow'
    BY <1>a, <1>b, <1>d, <1>e DEF NoWindowYet
  <2> SUFFICES ASSUME NEW n \in required .. Len(samples'), GoodBetween(n - required, n)'
               PROVE  FALSE
    BY <1>a DEF SomeWindow
  <2>1. \A k \in (n - required + 1) .. n : samples'[k] = "pass"
    BY <1>a DEF GoodBetween
  <2>2. CASE n <= Len(samples)
    <3>1. \A k \in (n - required + 1) .. n : samples[k] = "pass"
      BY <2>1, <2>2, <1>b, <1>c
    <3>2. n \in required .. Len(samples)
      BY <2>2, <1>b, <1>c
    <3> QED
      BY <3>1, <3>2, <1>a DEF SomeWindow, GoodBetween
  <2>3. CASE n = Len(samples')
    <3>1. streak' < Len(samples')
      BY <2>3, <1>b, <1>c, <1>d
    <3>2. samples'[Len(samples') - streak'] # "pass"
      BY <3>1, <1>2 DEF StreakCounts
    <3>3. Len(samples') - streak' \in (n - required + 1) .. n
      BY <2>3, <1>b, <1>c, <1>d
    <3> QED
      BY <3>2, <3>3, <2>1
  <2> QED
    BY <2>2, <2>3, <1>b, <1>c
<1>4. WindowFound'
  BY <1>a, <1>b, <1>d, <1>e DEF WindowFound
<1>5. AttemptsLeft'
  BY <1>a, <1>b, <1>c, <1>d, <1>e DEF AttemptsLeft
<1> QED
  BY <1>1, <1>2, <1>3, <1>4, <1>5 DEF IInv

(* The steps that take no sample leave everything counted as it is.        *)
LEMMA OtherKeeps == IInv /\ (Check \/ Wait \/ Cancel \/ UNCHANGED vars) => IInv'
<1> SUFFICES ASSUME IInv, Check \/ Wait \/ Cancel \/ UNCHANGED vars PROVE IInv'
  OBVIOUS
<1>1. UNCHANGED <<attempts, required, samples, streak>>
  BY DEF Check, Wait, Cancel, vars
<1>2. /\ pc' \in {"check", "gather", "interrupted"} \/ pc' = pc
      /\ pc' # pc => pc \in {"check", "wait"}
      /\ ctx' \in {"live", "cancelled"}
  BY DEF Check, Wait, Cancel, vars, IInv, TypeOK
<1>3. SomeWindow' <=> SomeWindow
  BY <1>1 DEF SomeWindow, GoodBetween
<1> QED
  BY <1>1, <1>2, <1>3 DEF IInv, TypeOK, StreakCounts, NoWindowYet, WindowFound,
                          AttemptsLeft, GoodBetween, Verdict

-----------------------------------------------------------------------------
(* The inductive invariant of VerifySequence's loop.                       *)
THEOREM Invariance == Spec => []IInv
<1>1. Init => IInv
  BY InitKeeps
<1>2. IInv /\ [Next]_vars => IInv'
  BY GatherKeeps, OtherKeeps DEF Next
<1> QED
  BY <1>1, <1>2, PTL DEF Spec

(* No variable leaves its type; no call samples more than its attempts.    *)
THEOREM TypeCorrect == Spec => []TypeOK
<1>1. IInv => TypeOK
  BY DEF IInv
<1> QED
  BY <1>1, Invariance, PTL

(* VerifySequence passes exactly on `required` consecutive good samples.   *)
THEOREM PassedExactly == Spec => []PassedExactlyOnWindow
<1>1. IInv => PassedExactlyOnWindow
  <2> SUFFICES ASSUME IInv, pc = "passed" PROVE SomeWindow
    BY DEF IInv, NoWindowYet, PassedExactlyOnWindow
  <2>1. /\ required \in Nat \ {0} /\ Len(samples) \in Nat
        /\ streak \in 0 .. Len(samples) /\ streak >= required
    BY DEF IInv, TypeOK, WindowFound
  <2>2. GoodBetween(Len(samples) - required, Len(samples))
    BY <2>1 DEF IInv, StreakCounts, GoodBetween
  <2> QED
    BY <2>1, <2>2 DEF SomeWindow
<1> QED
  BY <1>1, Invariance, PTL

(* VerifySequence fails only when every attempt was used in vain.          *)
THEOREM FailedExhausted == Spec => []FailedMeansExhausted
<1>1. IInv => FailedMeansExhausted
  BY DEF IInv, AttemptsLeft, NoWindowYet, FailedMeansExhausted
<1> QED
  BY <1>1, Invariance, PTL
=============================================================================
