-------------------------- MODULE ReconcilerProofs --------------------------
(***************************************************************************)
(* What holds of the reconciler for any set of paths, contents, operators  *)
(* and declarations: the audit trail is complete and intent is what was    *)
(* reviewed whatever interleaves; nothing is clobbered as long as nobody   *)
(* comes between the check of a plan and its write; and the loop keeps to  *)
(* what is its own as long as nobody comes between the steps of a pass.    *)
(***************************************************************************)
EXTENDS Reconciler, TLAPS

\* What interleaves is set for good.
LEMMA PolicyFixed == [Next]_vars => policy' = policy
  BY DEF Next, Operate, Plan, ApplyReads, ApplyStale, ApplyNoOp, ApplyWrites,
         Records, RecordThrows, Loop, PassAlerts, PassCorrects, CorrectionPlans,
         CorrectionReads, CorrectionWrites, CorrectionStale, Drift, vars, loopVars

-----------------------------------------------------------------------------
(* Types.  That the trail holds verdicts needs an attempt to have come to    *)
(* one before it is recorded.                                                *)

Decided == \A o \in Operators : at[o] = "recording" => outcome[o] # "none"

LEMMA EmptyIsState == Empty \in States /\ NoPlan \in Plans
  BY DEF Empty, States, NoPlan, Plans

LEMMA CorrectionIsState ==
  ASSUME NEW r \in [intent : States, live : States]
  PROVE  CorrectionOf(r) \in States
  BY DEF CorrectionOf, States

LEMMA TypeInit == Init => TypeOK /\ Decided
<1> SUFFICES ASSUME Init PROVE TypeOK /\ Decided
  OBVIOUS
<1>1. actual \in States /\ lastApplied \in States
  BY DeclarationsAreStates DEF Init
<1>2. /\ plan \in [Operators -> Plans] /\ read \in [Operators -> States]
      /\ report \in [intent : States, live : States]
      /\ correction \in Plans /\ loopRead \in States
  BY EmptyIsState DEF Init, NoReport
<1>3. audit \in [Operators -> Seq({"applied", "rejected"})]
  BY DEF Init
<1>4. drifts \in 0..MaxDrifts
  BY MaxDriftsNat DEF Init
<1> QED
  BY <1>1, <1>2, <1>3, <1>4 DEF Init, TypeOK, Decided

LEMMA OperatorTypes ==
  ASSUME TypeOK, Decided, NEW o \in Operators, Operate(o)
  PROVE  TypeOK'
<1>1. CASE Plan(o)
  <2>1. PICK d \in Declarations :
          plan' = [plan EXCEPT ![o] = [desired |-> d, base |-> actual]]
    BY <1>1 DEF Plan
  <2>2. plan' \in [Operators -> Plans]
    BY <2>1, DeclarationsAreStates DEF TypeOK, Plans
  <2> QED
    BY <1>1, <2>2 DEF Plan, TypeOK, loopVars
<1>2. CASE ApplyReads(o)
  BY <1>2 DEF ApplyReads, TypeOK, loopVars
<1>3. CASE ApplyStale(o)
  BY <1>3 DEF ApplyStale, TypeOK, loopVars
<1>4. CASE ApplyNoOp(o)
  BY <1>4 DEF ApplyNoOp, TypeOK, loopVars
<1>5. CASE ApplyWrites(o)
  <2>1. plan[o].desired \in States
    BY DEF TypeOK, Plans
  <2> QED
    BY <1>5, <2>1 DEF ApplyWrites, TypeOK, loopVars
<1>6. CASE Records(o)
  <2>1. outcome[o] \in {"applied", "rejected"}
    BY <1>6 DEF Records, Decided, TypeOK
  <2>2. audit' \in [Operators -> Seq({"applied", "rejected"})]
    BY <1>6, <2>1 DEF Records, TypeOK
  <2> QED
    BY <1>6, <2>2 DEF Records, TypeOK, loopVars
<1>7. CASE RecordThrows(o)
  BY <1>7 DEF RecordThrows, TypeOK, loopVars
<1> QED
  BY <1>1, <1>2, <1>3, <1>4, <1>5, <1>6, <1>7 DEF Operate

LEMMA LoopTypes ==
  ASSUME TypeOK, Loop
  PROVE  TypeOK'
<1>0. PassEnds => /\ report' \in [intent : States, live : States]
                  /\ correction' \in Plans /\ loopRead' \in States
  BY EmptyIsState DEF PassEnds, NoReport
<1>1. CASE PassAlerts
  BY <1>1 DEF PassAlerts, TypeOK, operatorVars, loopVars, vars
<1>2. CASE PassCorrects
  BY <1>2 DEF PassCorrects, Detected, TypeOK, operatorVars
<1>3. CASE CorrectionPlans
  <2>1. correction' \in Plans
    BY <1>3, CorrectionIsState DEF CorrectionPlans, TypeOK, Plans
  <2> QED
    BY <1>3, <2>1 DEF CorrectionPlans, TypeOK, operatorVars
<1>4. CASE CorrectionReads
  BY <1>4 DEF CorrectionReads, TypeOK, operatorVars
<1>5. CASE CorrectionWrites
  <2>1. correction.desired \in States
    BY DEF TypeOK, Plans
  <2> QED
    BY <1>0, <1>5, <2>1 DEF CorrectionWrites, KeepsIntent, TypeOK, operatorVars
<1>6. CASE CorrectionStale
  BY <1>0, <1>6 DEF CorrectionStale, TypeOK, operatorVars
<1> QED
  BY <1>1, <1>2, <1>3, <1>4, <1>5, <1>6 DEF Loop

LEMMA DecidedStep ==
  ASSUME TypeOK, Decided, [Next]_vars
  PROVE  Decided'
<1>1. ASSUME NEW o \in Operators, Operate(o) PROVE Decided'
  BY <1>1 DEF Operate, Plan, ApplyReads, ApplyStale, ApplyNoOp, ApplyWrites,
              Records, RecordThrows, Decided, TypeOK
<1>2. ASSUME UNCHANGED <<at, outcome>> PROVE Decided'
  BY <1>2 DEF Decided
<1> QED
  BY <1>1, <1>2 DEF Next, Loop, PassAlerts, PassCorrects, CorrectionPlans,
     CorrectionReads, CorrectionWrites, CorrectionStale, Drift, vars, operatorVars

LEMMA TypeStep == TypeOK /\ Decided /\ [Next]_vars => TypeOK' /\ Decided'
<1> SUFFICES ASSUME TypeOK, Decided, [Next]_vars PROVE TypeOK'
  BY DecidedStep
<1>1. CASE Drift
  <2>1. actual' \in States
    BY <1>1 DEF Drift, TypeOK, States
  <2>2. drifts' \in 0..MaxDrifts
    BY <1>1, MaxDriftsNat DEF Drift, TypeOK
  <2> QED
    BY <1>1, <2>1, <2>2 DEF Drift, TypeOK, operatorVars, loopVars
<1>2. CASE UNCHANGED vars
  BY <1>2 DEF vars, operatorVars, loopVars, TypeOK
<1> QED
  BY <1>1, <1>2, OperatorTypes, LoopTypes DEF Next

\* The variables keep their types, for every value of the constants: a
\* correction of the loop is a state like any other.
THEOREM TypesKept == Spec => []TypeOK
  BY TypeInit, TypeStep, PTL DEF Spec

-----------------------------------------------------------------------------
(* The trail. *)

\* Until an attempt is recorded there is nothing in its trail.
Unrecorded ==
  \A o \in Operators :
    at[o] \in {"idle", "reviewing", "applying", "recording"} => audit[o] = <<>>

TrailInv == Unrecorded /\ OutcomeIsAudited

LEMMA TrailStep == TypeOK /\ TrailInv /\ [Next]_vars => TrailInv'
<1> SUFFICES ASSUME TypeOK, TrailInv, [Next]_vars PROVE TrailInv'
  OBVIOUS
<1> USE DEF TrailInv, Unrecorded, OutcomeIsAudited
<1>1. ASSUME NEW o \in Operators, Operate(o) PROVE TrailInv'
  <2>1. CASE Plan(o)
    BY <2>1 DEF Plan, TypeOK
  <2>2. CASE ApplyReads(o)
    BY <2>2 DEF ApplyReads, TypeOK
  <2>3. CASE ApplyStale(o)
    BY <2>3 DEF ApplyStale, TypeOK
  <2>4. CASE ApplyNoOp(o)
    BY <2>4 DEF ApplyNoOp, TypeOK
  <2>5. CASE ApplyWrites(o)
    BY <2>5 DEF ApplyWrites, TypeOK
  <2>6. CASE Records(o)
    <3>1. audit[o] = <<>> /\ outcome[o] = outcome'[o]
      BY <2>6 DEF Records
    <3>2. audit'[o] = <<outcome'[o]>>
      BY <2>6, <3>1 DEF Records, TypeOK
    <3> QED
      BY <2>6, <3>2 DEF Records, TypeOK
  <2>7. CASE RecordThrows(o)
    BY <2>7 DEF RecordThrows, TypeOK
  <2> QED
    BY <1>1, <2>1, <2>2, <2>3, <2>4, <2>5, <2>6, <2>7 DEF Operate
<1>2. ASSUME UNCHANGED operatorVars PROVE TrailInv'
  BY <1>2 DEF operatorVars
<1>3. Loop => UNCHANGED operatorVars
  BY DEF Loop, PassAlerts, PassCorrects, CorrectionPlans, CorrectionReads,
         CorrectionWrites, CorrectionStale, vars
<1> QED
  BY <1>1, <1>2, <1>3 DEF Next, Drift, vars

\* Every attempt that returns is in the trail once, as what it came to.
THEOREM TrailComplete == Spec => []OutcomeIsAudited
<1>1. Init => TrailInv
  BY DEF Init, TrailInv, Unrecorded, OutcomeIsAudited
<1> QED
  BY <1>1, TypesKept, TrailStep, PTL DEF Spec, TrailInv

-----------------------------------------------------------------------------
(* Intent. *)

\* Whatever interleaves, intent only becomes a whole plan that an operator
\* reviewed, together with the world; the loop never changes it.
THEOREM IntentReviewed == Spec => IntentIsReviewed
<1>1. [Next]_vars =>
        [lastApplied' # lastApplied =>
           \E o \in Operators :
             at[o] = "applying" /\ lastApplied' = plan[o].desired /\ actual' = lastApplied']_vars
  BY DEF Next, Operate, Plan, ApplyReads, ApplyStale, ApplyNoOp, ApplyWrites,
         Records, RecordThrows, Loop, PassAlerts, PassCorrects, CorrectionPlans,
         CorrectionReads, CorrectionWrites, CorrectionStale, KeepsIntent, Drift, vars
<1> QED
  BY <1>1, PTL DEF Spec, IntentIsReviewed

-----------------------------------------------------------------------------
(* The plan that is checked is the plan that is applied, if nobody comes     *)
(* between check and write.                                                  *)

Exclusive ==
  /\ \A o \in Operators : at[o] = "applying" =>
       /\ read[o] = actual
       /\ loopAt # "applying"
       /\ \A other \in Operators : at[other] = "applying" => other = o
  /\ loopAt = "applying" => loopRead = actual

LEMMA ExclusiveStep ==
  ASSUME AtomicApply, TypeOK, Exclusive, [Next]_vars
  PROVE  Exclusive'
<1>0. Undisturbed => ~Checking
  BY DEF AtomicApply, Undisturbed
<1>1. ASSUME NEW o \in Operators, Operate(o) PROVE Exclusive'
  <2>1. CASE Plan(o)
    BY <2>1 DEF Plan, Exclusive, TypeOK, loopVars
  <2>2. CASE ApplyReads(o)
    BY <2>2, <1>0 DEF ApplyReads, Checking, Exclusive, TypeOK, loopVars
  <2>3. CASE ApplyStale(o) \/ ApplyNoOp(o)
    BY <2>3 DEF ApplyStale, ApplyNoOp, Exclusive, TypeOK, loopVars
  <2>4. CASE ApplyWrites(o)
    BY <2>4 DEF ApplyWrites, Exclusive, TypeOK, loopVars
  <2>5. CASE Records(o) \/ RecordThrows(o)
    BY <2>5 DEF Records, RecordThrows, Exclusive, TypeOK, loopVars
  <2> QED
    BY <1>1, <2>1, <2>2, <2>3, <2>4, <2>5 DEF Operate
<1>2. CASE PassAlerts \/ PassCorrects \/ CorrectionPlans \/ CorrectionStale
  BY <1>2 DEF PassAlerts, PassCorrects, CorrectionPlans, CorrectionStale, Exclusive, vars, operatorVars, loopVars
<1>3. CASE CorrectionReads
  BY <1>3 DEF CorrectionReads, AtomicApply, Checking, Exclusive, operatorVars
<1>4. CASE CorrectionWrites
  BY <1>4 DEF CorrectionWrites, Exclusive, operatorVars
<1>5. CASE Drift
  BY <1>5, <1>0 DEF Drift, Checking, Exclusive, operatorVars, loopVars
<1>6. CASE UNCHANGED vars
  BY <1>6 DEF vars, operatorVars, loopVars, Exclusive
<1> QED
  BY <1>1, <1>2, <1>3, <1>4, <1>5, <1>6 DEF Next, Loop

LEMMA ExclusiveAlways == Spec => [](TypeOK /\ (AtomicApply => Exclusive))
<1>1. Init => (AtomicApply => Exclusive)
  BY DEF Init, Exclusive
<1>2. TypeOK /\ (AtomicApply => Exclusive) /\ [Next]_vars => (AtomicApply => Exclusive)'
  BY ExclusiveStep, PolicyFixed DEF AtomicApply
<1> QED
  BY <1>1, <1>2, TypesKept, PTL DEF Spec

\* If nobody acts between the check of a fingerprint and the write, an apply
\* that writes finds the world as it was reviewed.  Without the assumption two
\* applies whose checks both precede the writes are both accepted.
THEOREM AppliesWhatWasReviewed == Spec => NothingClobbered
<1>1. TypeOK /\ (AtomicApply => Exclusive) /\ [Next]_vars =>
        [AtomicApply => \A o \in Operators : wrote'[o] # wrote[o] => actual = plan[o].base]_vars
  <2> SUFFICES ASSUME TypeOK, Exclusive, Next, NEW o \in Operators, wrote'[o] # wrote[o]
               PROVE  actual = plan[o].base
    OBVIOUS
  <2>1. ApplyWrites(o)
    BY DEF Next, Operate, Plan, ApplyReads, ApplyStale, ApplyNoOp, ApplyWrites,
           Records, RecordThrows, Loop, PassAlerts, PassCorrects, CorrectionPlans,
           CorrectionReads, CorrectionWrites, CorrectionStale, Drift, vars, operatorVars, TypeOK
  <2> QED
    BY <2>1 DEF ApplyWrites, StillHolds, Exclusive
<1> QED
  BY <1>1, ExclusiveAlways, PTL DEF NothingClobbered, Spec

-----------------------------------------------------------------------------
(* A pass that nobody interrupts corrects what it has seen, and no more.     *)

Steady ==
  /\ InPass => /\ report.intent = lastApplied /\ report.live = actual
               /\ \A o \in Operators : at[o] # "applying"
  /\ loopAt \in {"checking", "applying"} => correction.desired = CorrectionOf(report)

LEMMA SteadyStep ==
  ASSUME AtomicPass, TypeOK, Steady, [Next]_vars
  PROVE  Steady'
<1>0. Undisturbed => ~Checking /\ ~InPass
  BY DEF AtomicPass, Undisturbed
<1>1. ASSUME NEW o \in Operators, Operate(o) PROVE Steady'
  <2>0. UNCHANGED <<policy, loopAt, report, correction>>
    BY <1>1 DEF Operate, Plan, ApplyReads, ApplyStale, ApplyNoOp, ApplyWrites,
                Records, RecordThrows, loopVars
  <2>1. CASE InPass
    <3>1. Records(o) \/ RecordThrows(o)
      BY <1>0, <1>1, <2>1 DEF Operate, Plan, ApplyReads, ApplyStale, ApplyNoOp,
                              ApplyWrites, Steady
    <3>2. UNCHANGED <<actual, lastApplied>>
      BY <3>1 DEF Records, RecordThrows
    <3>3. \A other \in Operators : at'[other] # "applying"
      BY <2>1, <3>1 DEF Records, RecordThrows, Steady, TypeOK
    <3> QED
      BY <2>0, <2>1, <3>2, <3>3
         DEF Steady, InPass,
             CorrectionOf, Corrected, ShouldCorrect
  <2>2. CASE ~InPass
    BY <2>0, <2>2 DEF Steady, InPass
  <2> QED
    BY <2>1, <2>2
<1>2. CASE PassAlerts
  BY <1>2 DEF PassAlerts, Steady, InPass, vars, operatorVars, loopVars,
              CorrectionOf, Corrected, ShouldCorrect
<1>3. CASE PassCorrects
  BY <1>0, <1>3 DEF PassCorrects, Detected, Steady, InPass, Checking, operatorVars
<1>4. CASE CorrectionPlans
  <2>1. correction'.desired = CorrectionOf(report) /\ report' = report
    BY <1>4 DEF CorrectionPlans
  <2> QED
    BY <1>4, <2>1
       DEF CorrectionPlans, Steady, InPass, operatorVars,
           CorrectionOf, Corrected, ShouldCorrect
<1>5. CASE CorrectionReads
  BY <1>5
     DEF CorrectionReads, Steady, InPass, operatorVars,
         CorrectionOf, Corrected, ShouldCorrect
<1>6. CASE CorrectionWrites \/ CorrectionStale
  BY <1>6 DEF CorrectionWrites, CorrectionStale, Steady, InPass
<1>7. CASE Drift
  BY <1>0, <1>7 DEF Drift, Steady, InPass, operatorVars, loopVars
<1>8. CASE UNCHANGED vars
  BY <1>8
     DEF vars, operatorVars, loopVars, Steady, InPass,
         CorrectionOf, Corrected, ShouldCorrect
<1> QED
  BY <1>1, <1>2, <1>3, <1>4, <1>5, <1>6, <1>7, <1>8 DEF Next, Loop

\* What the policy corrects is managed, and in production it was there.
LEMMA CorrectedPaths ==
  ASSUME NEW r \in [intent : States, live : States], NEW p \in Corrected(r)
  PROVE  /\ r.intent[p] # Absent
         /\ policy.mode = "production" => policy.autoSafe /\ r.live[p] # Absent
<1>1. /\ p \in Paths
      /\ Action(r.intent, r.live, p) # "no-op"
      /\ ShouldCorrect(Category(r.intent, r.live, p))
  BY DEF Corrected, Changed
<1>2. r.intent[p] = Absent => Category(r.intent, r.live, p) = "extra-resource"
  BY <1>1 DEF Action, Category
<1>3. r.intent[p] # Absent /\ r.live[p] = Absent
        => Category(r.intent, r.live, p) = "missing-resource"
  BY DEF Action, Category
<1> QED
  BY <1>1, <1>2, <1>3 DEF ShouldCorrect

\* If nobody acts in the midst of a pass, what the loop writes is intent, on
\* paths its policy lets it touch.  Without the assumption an extra that appears
\* after the detection is destroyed.
THEOREM LoopMindsItsOwn == Spec => LoopKeepsToItsPaths
<1>1. Init => (AtomicPass => Steady)
  BY DEF Init, Steady, InPass
<1>2. TypeOK /\ (AtomicPass => Steady) /\ [Next]_vars => (AtomicPass => Steady)'
  BY SteadyStep, PolicyFixed DEF AtomicPass
<1>3. TypeOK /\ (AtomicPass => Steady) /\ [Next]_vars =>
        [AtomicPass /\ loopAt = "applying" /\ loopAt' = "waiting" =>
           \A p \in Paths : actual'[p] # actual[p] =>
             /\ lastApplied[p] # Absent /\ actual'[p] = lastApplied[p]
             /\ policy.mode = "production" => policy.autoSafe /\ actual[p] # Absent]_vars
  <2> SUFFICES ASSUME TypeOK, Steady, Next, loopAt = "applying", loopAt' = "waiting",
                      NEW p \in Paths, actual'[p] # actual[p]
               PROVE  /\ lastApplied[p] # Absent /\ actual'[p] = lastApplied[p]
                      /\ policy.mode = "production" => policy.autoSafe /\ actual[p] # Absent
    OBVIOUS
  <2>1. CorrectionWrites
    BY DEF Next, Operate, Plan, ApplyReads, ApplyStale, ApplyNoOp, ApplyWrites,
           Records, RecordThrows, Loop, PassAlerts, PassCorrects, CorrectionPlans,
           CorrectionReads, CorrectionStale, Drift, loopVars
  <2>2. actual' = CorrectionOf(report)
    BY <2>1 DEF CorrectionWrites, Steady
  <2>3. report.intent = lastApplied /\ report.live = actual
    BY DEF Steady, InPass
  <2>4. p \in Corrected(report) /\ actual'[p] = report.intent[p]
    BY <2>2, <2>3 DEF CorrectionOf
  <2> QED
    BY <2>3, <2>4, CorrectedPaths DEF TypeOK
<1> QED
  BY <1>1, <1>2, <1>3, TypesKept, PTL DEF Spec, LoopKeepsToItsPaths
=============================================================================
