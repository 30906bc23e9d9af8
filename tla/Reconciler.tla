----------------------------- MODULE Reconciler -----------------------------
(***************************************************************************)
(* The plan/diff engine of @insler/platform with the two policies that run *)
(* over it: operators that review a plan and apply it through the gate,    *)
(* and the control loop that corrects drift.  They share one state         *)
(* provider, and the world drifts under all of them.  Each step is the     *)
(* code between two awaits: what is read before an await may have changed  *)
(* when it is used after it.                                               *)
(***************************************************************************)
EXTENDS Naturals, Sequences, FiniteSets

CONSTANTS
  Paths,          \* resource paths
  Configs,        \* what a resource's content says apart from its replicas
  Replicas,       \* replica counts
  Operators,      \* who applies through the gate, once each
  Declarations,   \* the desired states the generator can produce
  MaxDrifts,      \* bound: how often the world changes out of band
  Interleavings,  \* what others may act between: nothing ("none"), the steps of
                  \* a "pass" of the loop, or also the two steps of an "apply"
  AuditMayFail    \* whether the audit sink may throw

\* Content of a resource; a resource that is not there has none.
Absent == <<>>
Contents == Configs \X Replicas
States == [Paths -> Contents \cup {Absent}]

ASSUME DeclarationsAreStates == Declarations \subseteq States
ASSUME AbsentIsNotContent == Absent \notin Contents
ASSUME ReconcilerSwitches ==
  /\ AuditMayFail \in BOOLEAN
  /\ Interleavings \subseteq {"none", "pass", "apply"}
ASSUME MaxDriftsNat == MaxDrifts \in Nat

VARIABLES
  actual,        \* getActual()
  lastApplied,   \* getLastApplied()
  at,            \* each operator's position in plan, review, apply and audit
  plan,          \* each operator's plan: what it wants and what it was diffed with
  read,          \* what each apply() read to check the plan's fingerprint
  outcome,       \* the verdict of each operator's applyGated
  wrote,         \* whether each operator's apply changed the state
  audit,         \* the audit trail
  policy,        \* the loop's mode and autoCorrectSafeInProduction, and what
                 \* others may act between, all set for good
  loopAt,        \* the control loop's position in a pass
  report,        \* detectDrift(): last-applied and actual as the pass read them
  correction,    \* the plan of #correct
  loopRead,      \* what the correction's apply() read
  drifts         \* how often the world has drifted

operatorVars == <<at, plan, read, outcome, wrote, audit>>
loopVars == <<policy, loopAt, report, correction, loopRead>>
vars == <<actual, lastApplied, operatorVars, loopVars, drifts>>

Plans == [desired : States, base : States]

\* The options of the loop; development mode corrects whatever autoSafe says, so
\* one value of it stands for both.
Policies ==
  {p \in [mode : {"development", "production"}, autoSafe : BOOLEAN, others : Interleavings] :
     p.mode = "development" => ~p.autoSafe}

TypeOK ==
  /\ actual \in States
  /\ lastApplied \in States
  /\ at \in [Operators -> {"idle", "reviewing", "applying", "recording", "done", "thrown"}]
  /\ plan \in [Operators -> Plans]
  /\ read \in [Operators -> States]
  /\ outcome \in [Operators -> {"none", "applied", "rejected"}]
  /\ wrote \in [Operators -> BOOLEAN]
  /\ audit \in [Operators -> Seq({"applied", "rejected"})]
  /\ policy \in Policies
  /\ loopAt \in {"waiting", "planning", "checking", "applying", "dead"}
  /\ report \in [intent : States, live : States]
  /\ correction \in Plans
  /\ loopRead \in States
  /\ drifts \in 0..MaxDrifts

Empty == [p \in Paths |-> Absent]
NoPlan == [desired |-> Empty, base |-> Empty]
NoReport == [intent |-> Empty, live |-> Empty]

Init ==
  /\ actual \in Declarations
  /\ lastApplied = actual
  /\ at = [o \in Operators |-> "idle"]
  /\ plan = [o \in Operators |-> NoPlan]
  /\ read = [o \in Operators |-> Empty]
  /\ outcome = [o \in Operators |-> "none"]
  /\ wrote = [o \in Operators |-> FALSE]
  /\ audit = [o \in Operators |-> <<>>]
  /\ policy \in Policies
  /\ loopAt = "waiting"
  /\ report = NoReport
  /\ correction = NoPlan
  /\ loopRead = Empty
  /\ drifts = 0

(***************************************************************************)
(* The engine.                                                             *)
(***************************************************************************)

\* diffState: what reconciling each path will do.
Action(desired, have, p) ==
  CASE desired[p] # Absent /\ have[p] = Absent -> "add"
    [] desired[p] = Absent /\ have[p] # Absent -> "destroy"
    [] desired[p] # Absent /\ have[p] # Absent /\ desired[p] # have[p] -> "change"
    [] OTHER -> "no-op"

Changed(desired, have) == {p \in Paths : Action(desired, have, p) # "no-op"}

IsNoOp(pl) == Changed(pl.desired, pl.base) = {}

\* The plan's fingerprint is that of the same desired and the state read now.
\* Mutant of StillHolds: only the declarations are compared.
StillHoldsAnyway(pl, have) == pl.desired = pl.desired

StillHolds(pl, have) == have = pl.base

\* Between the check of a fingerprint and the write that rests on it; in the
\* midst of a pass.
Checking == loopAt = "applying" \/ \E o \in Operators : at[o] = "applying"
InPass == loopAt \in {"planning", "checking", "applying"}

\* Nobody comes between the check of a fingerprint and the write; nobody
\* interrupts a pass either.
AtomicApply == policy.others # "apply"
AtomicPass == policy.others = "none"

Undisturbed ==
  \/ policy.others = "apply"
  \/ policy.others = "pass" /\ ~Checking
  \/ policy.others = "none" /\ ~Checking /\ ~InPass

(***************************************************************************)
(* An operator: plan, review, applyGated.                                  *)
(***************************************************************************)

Plan(o) ==
  /\ at[o] = "idle"
  /\ Undisturbed
  /\ \E d \in Declarations : plan' = [plan EXCEPT ![o] = [desired |-> d, base |-> actual]]
  /\ at' = [at EXCEPT ![o] = "reviewing"]
  /\ UNCHANGED <<actual, lastApplied, read, outcome, wrote, audit, loopVars, drifts>>

\* apply() asks for the actual state.
ApplyReads(o) ==
  /\ at[o] = "reviewing"
  /\ Undisturbed
  /\ read' = [read EXCEPT ![o] = actual]
  /\ at' = [at EXCEPT ![o] = "applying"]
  /\ UNCHANGED <<actual, lastApplied, plan, outcome, wrote, audit, loopVars, drifts>>

ApplyStale(o) ==
  /\ at[o] = "applying"
  /\ ~StillHolds(plan[o], read[o])
  /\ outcome' = [outcome EXCEPT ![o] = "rejected"]
  /\ at' = [at EXCEPT ![o] = "recording"]
  /\ UNCHANGED <<actual, lastApplied, plan, read, wrote, audit, loopVars, drifts>>

\* A converged plan writes nothing, last-applied neither.
ApplyNoOp(o) ==
  /\ at[o] = "applying"
  /\ StillHolds(plan[o], read[o])
  /\ IsNoOp(plan[o])
  /\ outcome' = [outcome EXCEPT ![o] = "applied"]
  /\ at' = [at EXCEPT ![o] = "recording"]
  /\ UNCHANGED <<actual, lastApplied, plan, read, wrote, audit, loopVars, drifts>>

ApplyWrites(o) ==
  /\ at[o] = "applying"
  /\ StillHolds(plan[o], read[o])
  /\ ~IsNoOp(plan[o])
  /\ actual' = plan[o].desired
  /\ lastApplied' = plan[o].desired
  /\ wrote' = [wrote EXCEPT ![o] = TRUE]
  /\ outcome' = [outcome EXCEPT ![o] = "applied"]
  /\ at' = [at EXCEPT ![o] = "recording"]
  /\ UNCHANGED <<plan, read, audit, loopVars, drifts>>

\* Mutant of Records: only what was applied is recorded.
RecordsApplied(o) ==
  /\ at[o] = "recording"
  /\ audit' = IF outcome[o] = "applied"
              THEN [audit EXCEPT ![o] = Append(@, outcome[o])] ELSE audit
  /\ at' = [at EXCEPT ![o] = "done"]
  /\ UNCHANGED <<actual, lastApplied, plan, read, outcome, wrote, loopVars, drifts>>

Records(o) ==
  /\ at[o] = "recording"
  /\ audit' = [audit EXCEPT ![o] = Append(@, outcome[o])]
  /\ at' = [at EXCEPT ![o] = "done"]
  /\ UNCHANGED <<actual, lastApplied, plan, read, outcome, wrote, loopVars, drifts>>

\* The sink throws: inside the try the attempt becomes a rejected one, inside
\* the catch the error leaves applyGated.
RecordThrows(o) ==
  /\ AuditMayFail
  /\ at[o] = "recording"
  /\ \/ /\ outcome[o] = "applied"
        /\ outcome' = [outcome EXCEPT ![o] = "rejected"]
        /\ UNCHANGED at
     \/ /\ outcome[o] = "rejected"
        /\ at' = [at EXCEPT ![o] = "thrown"]
        /\ UNCHANGED outcome
  /\ UNCHANGED <<actual, lastApplied, plan, read, wrote, audit, loopVars, drifts>>

Operate(o) ==
  \/ Plan(o)
  \/ ApplyReads(o)
  \/ ApplyStale(o)
  \/ ApplyNoOp(o)
  \/ ApplyWrites(o)
  \/ Records(o)
  \/ RecordThrows(o)

(***************************************************************************)
(* The control loop: one pass per tick.                                    *)
(***************************************************************************)

\* classify: the category of a path that is not a no-op.
Category(intent, live, p) ==
  CASE Action(intent, live, p) = "add" -> "missing-resource"
    [] Action(intent, live, p) = "destroy" -> "extra-resource"
    [] Action(intent, live, p) = "change" /\ intent[p][1] = live[p][1] -> "replica-count"
    [] OTHER -> "config-drift"

\* Mutants of ShouldCorrect: what is not managed is corrected too; what is
\* missing waits for an operator in development as well.
ShouldCorrectAll(category) == policy.mode = "development" \/ policy.autoSafe
ShouldCorrectSafe(category) ==
  category # "extra-resource" /\ category # "missing-resource"

ShouldCorrect(category) ==
  /\ category # "extra-resource"
  /\ \/ policy.mode = "development"
     \/ policy.autoSafe /\ category \in {"replica-count", "config-drift"}

Corrected(r) ==
  {p \in Changed(r.intent, r.live) : ShouldCorrect(Category(r.intent, r.live, p))}

\* detectDrift reads both states in one call.
Detected == [intent |-> lastApplied, live |-> actual]

\* Without anything to correct the pass only logs.
PassAlerts ==
  /\ loopAt = "waiting"
  /\ Undisturbed
  /\ Corrected(Detected) = {}
  /\ UNCHANGED vars

PassCorrects ==
  /\ loopAt = "waiting"
  /\ Undisturbed
  /\ Corrected(Detected) # {}
  /\ report' = Detected
  /\ loopAt' = "planning"
  /\ UNCHANGED <<actual, lastApplied, operatorVars, policy, correction, loopRead, drifts>>

\* #correct: intent for what is corrected, live content for all else.
CorrectionOf(r) ==
  [p \in Paths |-> IF p \in Corrected(r) THEN r.intent[p] ELSE r.live[p]]

CorrectionPlans ==
  /\ loopAt = "planning"
  /\ correction' = [desired |-> CorrectionOf(report), base |-> actual]
  /\ loopAt' = "checking"
  /\ UNCHANGED <<actual, lastApplied, operatorVars, policy, report, loopRead, drifts>>

CorrectionReads ==
  /\ loopAt = "checking"
  /\ AtomicApply => ~Checking
  /\ loopRead' = actual
  /\ loopAt' = "applying"
  /\ UNCHANGED <<actual, lastApplied, operatorVars, policy, report, correction, drifts>>

\* Mutant of KeepsIntent: the correction is recorded as last-applied.
RecordsCorrection == lastApplied' = correction.desired

\* The correction carries preserveLastApplied.
KeepsIntent == lastApplied' = lastApplied

\* The end of a pass, and of its locals.
PassEnds == report' = NoReport /\ correction' = NoPlan /\ loopRead' = Empty

CorrectionWrites ==
  /\ loopAt = "applying"
  /\ StillHolds(correction, loopRead)
  /\ \/ IsNoOp(correction) /\ UNCHANGED <<actual, lastApplied>>
     \/ ~IsNoOp(correction) /\ actual' = correction.desired /\ KeepsIntent
  /\ loopAt' = "waiting"
  /\ PassEnds
  /\ UNCHANGED <<operatorVars, policy, drifts>>

\* A stale correction throws out of reconcileOnce and ends run().
CorrectionStale ==
  /\ loopAt = "applying"
  /\ ~StillHolds(correction, loopRead)
  /\ loopAt' = "dead"
  /\ PassEnds
  /\ UNCHANGED <<actual, lastApplied, operatorVars, policy, drifts>>

Loop ==
  \/ PassAlerts
  \/ PassCorrects
  \/ CorrectionPlans
  \/ CorrectionReads
  \/ CorrectionWrites
  \/ CorrectionStale

\* The world changes a resource out of band.
Drift ==
  /\ drifts < MaxDrifts
  /\ Undisturbed
  /\ \E p \in Paths, c \in Contents \cup {Absent} :
       /\ c # actual[p]
       /\ actual' = [actual EXCEPT ![p] = c]
  /\ drifts' = drifts + 1
  /\ UNCHANGED <<lastApplied, operatorVars, loopVars>>

Next ==
  \/ \E o \in Operators : Operate(o)
  \/ Loop
  \/ Drift

\* The provider and the audit sink answer, and the ticker keeps ticking; no
\* operator has to start.
Fairness ==
  /\ WF_vars(Loop)
  /\ \A o \in Operators : WF_vars(Operate(o) /\ at[o] # "idle")

Spec == Init /\ [][Next]_vars /\ Fairness

(***************************************************************************)
(* Properties.                                                             *)
(***************************************************************************)

\* Unless somebody comes between check and write, an apply that writes finds the
\* world as it was when its plan was reviewed: nothing newer is clobbered.
NothingClobbered ==
  [][AtomicApply => \A o \in Operators : wrote'[o] # wrote[o] => actual = plan[o].base]_vars

\* In a pass that nobody interrupts the loop writes intent, on managed paths its
\* policy lets it touch: unmanaged extras, and drift it only alerts on, are left
\* as they are.
LoopKeepsToItsPaths ==
  [][AtomicPass /\ loopAt = "applying" /\ loopAt' = "waiting" =>
       \A p \in Paths : actual'[p] # actual[p] =>
         /\ lastApplied[p] # Absent /\ actual'[p] = lastApplied[p]
         /\ policy.mode = "production" => policy.autoSafe /\ actual[p] # Absent]_vars

\* Intent is what an operator reviewed, all of it and nothing else; no
\* correction of the loop ever becomes intent.
IntentIsReviewed ==
  [][lastApplied' # lastApplied =>
       \E o \in Operators :
         at[o] = "applying" /\ lastApplied' = plan[o].desired /\ actual' = lastApplied']_vars

\* Every attempt that has returned is in the trail once, as what it came to.
OutcomeIsAudited ==
  \A o \in Operators : at[o] = "done" => audit[o] = <<outcome[o]>>

\* Once nobody changes the world any more, the development loop brings
\* everything it manages back to intent, and in production what is left of it
\* is brought back too if the policy allows; somebody who interrupts a pass can
\* make its correction stale, which ends the loop for good.
DriftHeals ==
  AtomicPass => <>[](\A p \in Paths :
         /\ lastApplied[p] # Absent
         /\ \/ policy.mode = "development"
            \/ policy.autoSafe /\ actual[p] # Absent
         => actual[p] = lastApplied[p])
=============================================================================
