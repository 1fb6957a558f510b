----------------------------- MODULE ModelCanary -----------------------------
(***************************************************************************)
(* The life of a behavioural model in the core server: admission of its    *)
(* bundle at startup (setupBehavioralML in cmd/server/ml_setup.go,         *)
(* internal/mlcorrect/bundle.go), the serving seam (internal/mlserve) and  *)
(* the self-correcting control plane fed by Pass outcomes (feedPassOutcome *)
(* in mlcorrect_ops.go; calibrate, drift, oracle, features_monitor, canary *)
(* and controller in internal/mlcorrect).                                  *)
(*                                                                         *)
(* Feeds run in the handlers of concurrent Pass requests.  Every monitor   *)
(* has its own lock, so one step here is one critical section.  A moving   *)
(* average is kept as the side of its limit it is on: a sample of one may  *)
(* only carry it over the limit, a sample of zero only back.  The mimic    *)
(* stream has samples in between, and its alarm may go either way.         *)
(***************************************************************************)
EXTENDS Integers, FiniteSets

CONSTANTS MlFeeds,         \* handlers that feed outcomes
          MlBundles,       \* bundle files: [id, shape, schema, signed]
          MlSetups,        \* startup flags: [pubkey, sig, pin, canary, shadow]
          ThetaTop, ThetaUp, ThetaDown,  \* theta's range 0..ThetaTop above its floor, and its steps
          MinCanaryObserve, ProbationHumans, FeatureWindow,
          MlMaxHumans,     \* bound: confirmed humans
          MlMaxDeploys     \* bound: replacements of the bundle file

ASSUME CanaryAssumption ==
  /\ ThetaTop \in Nat /\ ThetaUp \in Nat /\ ThetaDown \in Nat
  /\ MinCanaryObserve \in Nat /\ ProbationHumans \in Nat \ {0} /\ FeatureWindow \in Nat \ {0}

VARIABLES mlSetup, mlFile, mlDeploys, mlBoot,
          mlRaw,       \* the bytes Stage verified
          mlTorn,      \* the file changed between the two reads of Stage
          mlActive, mlPrevious,  \* BundleManager
          mlSeam, mlShadow,      \* mlserve.current and shadow
          mlTheta, mlOver, mlHumans,  \* ConformalThreshold
          mlMimic, mlOracle, mlPSI,   \* DriftMonitor
          mlSolves,    \* PassGuard: the solve rate is anomalous
          mlRef, mlCur,               \* FeatureMonitor: samples of the reference, of the window
          mlCanary, mlArmedAt, mlRollbacks,
          mlFeed       \* the feeds in progress

mlVars == <<mlSetup, mlFile, mlDeploys, mlBoot, mlRaw, mlTorn, mlActive, mlPrevious, mlSeam, mlShadow, mlTheta,
            mlOver, mlHumans, mlMimic, mlOracle, mlPSI, mlSolves, mlRef, mlCur, mlCanary, mlArmedAt, mlRollbacks, mlFeed>>
mlBundleVars == <<mlActive, mlPrevious, mlSeam, mlShadow>>
mlBootVars == <<mlSetup, mlFile, mlDeploys, mlBoot, mlRaw, mlTorn>>
mlMonitors == <<mlTheta, mlOver, mlHumans, mlMimic, mlOracle, mlPSI, mlSolves, mlRef, mlCur>>
mlGuard == <<mlCanary, mlArmedAt, mlRollbacks>>

NoModel == [id |-> "none"]
MlIdle == [pc |-> "idle"]

CanaryInit ==
  /\ mlSetup \in MlSetups /\ mlFile \in MlBundles /\ mlDeploys = 0 /\ mlBoot = "stage"
  /\ mlRaw = NoModel /\ mlTorn = FALSE
  /\ mlActive = NoModel /\ mlPrevious = NoModel /\ mlSeam = NoModel /\ mlShadow = NoModel
  /\ mlTheta = 0 /\ mlOver \in BOOLEAN /\ mlHumans = 0
  /\ mlMimic = FALSE /\ mlOracle = FALSE /\ mlPSI = FALSE /\ mlSolves = FALSE /\ mlRef = 0 /\ mlCur = 0
  /\ mlCanary = "off" /\ mlArmedAt = 0 /\ mlRollbacks = 0
  /\ mlFeed = [h \in MlFeeds |-> MlIdle]

(***************************************************************************)
(* Startup                                                                 *)
(***************************************************************************)
\* A release replaces the bundle file while the server starts.
Deploys ==
  /\ mlBoot \in {"stage", "load"} /\ mlDeploys < MlMaxDeploys
  /\ \E b \in MlBundles : mlFile' = b /\ mlTorn' = (mlBoot = "load" /\ b # mlRaw)
  /\ mlDeploys' = mlDeploys + 1
  /\ UNCHANGED <<mlSetup, mlBoot, mlRaw, mlBundleVars, mlMonitors, mlGuard, mlFeed>>

KeysRead(s) == s.pubkey # "unreadable" /\ s.sig # "unreadable"

\* The digest pin and the signature of Stage.
Verified(s, b) == (s.pin # "" => b.id = s.pin) /\ (s.pubkey = "set" => b.signed /\ s.sig = "set")

\* setupBehavioralML up to the first read of the bundle: a failure disables the model.
StageReads ==
  /\ mlBoot = "stage"
  /\ mlRaw' = mlFile
  /\ mlBoot' = IF KeysRead(mlSetup) /\ Verified(mlSetup, mlFile) THEN "load" ELSE "disabled"
  /\ UNCHANGED <<mlSetup, mlFile, mlDeploys, mlTorn, mlBundleVars, mlMonitors, mlGuard, mlFeed>>

\* validate, and the schema pin of Stage.
Admits(b) == b.shape /\ b.schema

\* LoadMLP reads the file again; then Promote, the controller, the canary and the shadow.
StageLoads ==
  /\ mlBoot = "load"
  /\ \/ /\ Admits(mlFile)
        /\ mlBoot' = "serving"
        /\ mlPrevious' = mlActive /\ mlActive' = mlFile /\ mlSeam' = mlFile
        /\ mlCanary' = IF mlSetup.canary THEN "armed" ELSE "off"
        /\ mlArmedAt' = mlHumans
        /\ mlShadow' = IF mlSetup.shadow.shape THEN mlSetup.shadow ELSE NoModel
        /\ UNCHANGED mlRollbacks
     \/ /\ ~Admits(mlFile)
        /\ mlBoot' = "disabled"
        /\ UNCHANGED <<mlBundleVars, mlGuard>>
  /\ UNCHANGED <<mlSetup, mlFile, mlDeploys, mlRaw, mlTorn, mlMonitors, mlFeed>>

(***************************************************************************)
(* Feeding an outcome                                                      *)
(***************************************************************************)
MlAt(h, pc) == mlFeed[h].pc = pc
MlGoto(h, r) == mlFeed' = [mlFeed EXCEPT ![h] = r]
Moves(over, high) == IF high THEN {over, TRUE} ELSE {over, FALSE}

\* ObservePass; a failure informs nothing else.
feedPassOutcome(h) ==
  /\ mlBoot = "serving" /\ MlAt(h, "idle")
  /\ \E solved \in BOOLEAN :
       /\ mlSolves' \in Moves(mlSolves, solved)
       /\ MlGoto(h, IF solved THEN [pc |-> "score"] ELSE MlIdle)
  /\ UNCHANGED <<mlBootVars, mlBundleVars, mlTheta, mlOver, mlHumans, mlMimic, mlOracle, mlPSI, mlRef, mlCur, mlGuard>>

\* The covariate tap: the first window is the reference, every later one is
\* compared with it when it closes.
ObserveFeatures(h) ==
  LET frozen == mlRef = FeatureWindow
      closes == frozen /\ mlCur + 1 = FeatureWindow
  IN  /\ mlRef' = IF frozen THEN mlRef ELSE mlRef + 1
      /\ mlCur' = IF ~frozen \/ closes THEN 0 ELSE mlCur + 1
      /\ MlGoto(h, [pc |-> "predict", closed |-> closes])

\* mlserve.Score up to the tap: no outcome is fed when no model is served.
ScoresPass(h) ==
  /\ MlAt(h, "score")
  /\ \/ mlSeam # NoModel /\ mlHumans < MlMaxHumans /\ ObserveFeatures(h)
     \/ mlSeam = NoModel /\ MlGoto(h, MlIdle) /\ UNCHANGED <<mlRef, mlCur>>
  /\ UNCHANGED <<mlBootVars, mlBundleVars, mlTheta, mlOver, mlHumans, mlMimic, mlOracle, mlPSI, mlSolves, mlGuard>>

\* UpdatePSI; then the model predicts, and may have nothing to say.
Predicts(h) ==
  /\ MlAt(h, "predict")
  /\ mlPSI' \in IF mlFeed[h].closed THEN BOOLEAN ELSE {mlPSI}
  /\ \E p \in 0..ThetaTop, speaks \in BOOLEAN : MlGoto(h, IF speaks THEN [pc |-> "mimic", p |-> p] ELSE MlIdle)
  /\ UNCHANGED <<mlBootVars, mlBundleVars, mlTheta, mlOver, mlHumans, mlMimic, mlOracle, mlSolves, mlRef, mlCur, mlGuard>>

\* ObserveOutcome of a solved Pass takes the drift monitor's lock for the mimic
\* stream, the threshold's for the calibration and again for theta, and the drift
\* monitor's for the oracle-error stream.
ObserveMimic(h) ==
  /\ MlAt(h, "mimic")
  /\ mlMimic' \in BOOLEAN
  /\ MlGoto(h, [pc |-> "calibrate", p |-> mlFeed[h].p])
  /\ UNCHANGED <<mlBootVars, mlBundleVars, mlTheta, mlOver, mlHumans, mlOracle, mlPSI, mlSolves, mlRef, mlCur, mlGuard>>

Calibrates(h) ==
  LET r == mlFeed[h]
      flagged == r.p >= mlTheta
      up == mlTheta + ThetaUp
      down == mlTheta - ThetaDown
  IN  /\ MlAt(h, "calibrate")
      /\ mlHumans' = mlHumans + 1
      /\ mlTheta' = IF flagged THEN IF up > ThetaTop THEN ThetaTop ELSE up ELSE IF down < 0 THEN 0 ELSE down
      /\ mlOver' \in Moves(mlOver, flagged)
      /\ MlGoto(h, [pc |-> "threshold", p |-> r.p])
      /\ UNCHANGED <<mlBootVars, mlBundleVars, mlMimic, mlOracle, mlPSI, mlSolves, mlRef, mlCur, mlGuard>>

ReadsThreshold(h) ==
  /\ MlAt(h, "threshold")
  /\ MlGoto(h, [pc |-> "oracle", wrong |-> mlFeed[h].p >= mlTheta])
  /\ UNCHANGED <<mlBootVars, mlBundleVars, mlMonitors, mlGuard>>

ObserveOracleError(h) ==
  /\ MlAt(h, "oracle")
  /\ mlOracle' \in IF mlFeed[h].wrong THEN BOOLEAN ELSE {mlOracle, FALSE}
  /\ MlGoto(h, IF mlCanary = "off" THEN MlIdle ELSE [pc |-> "snapshot"])
  /\ UNCHANGED <<mlBootVars, mlBundleVars, mlTheta, mlOver, mlHumans, mlMimic, mlPSI, mlSolves, mlRef, mlCur, mlGuard>>

\* evaluateCanary reads the calibration, then the drift gate, then the solve rate.
TakesSnapshot(h) ==
  /\ MlAt(h, "snapshot")
  /\ MlGoto(h, [pc |-> "gate", humans |-> mlHumans, over |-> mlOver])
  /\ UNCHANGED <<mlBootVars, mlBundleVars, mlMonitors, mlGuard>>

Gate == Cardinality({a \in {"mimic", "oracle", "psi"} :
                       CASE a = "mimic" -> mlMimic [] a = "oracle" -> mlOracle [] a = "psi" -> mlPSI}) >= 2

ReadsGate(h) ==
  /\ MlAt(h, "gate")
  /\ MlGoto(h, [pc |-> "evaluate", humans |-> mlFeed[h].humans, over |-> mlFeed[h].over, fired |-> Gate])
  /\ UNCHANGED <<mlBootVars, mlBundleVars, mlMonitors, mlGuard>>

\* Faulty: a guard that has tripped goes on judging.
JudgesAlways == mlCanary # "off"
Judges == mlCanary = "armed"

evaluate(h) ==
  LET r == mlFeed[h]
      since == r.humans - mlArmedAt
      trip == (since >= MinCanaryObserve /\ r.over) \/ r.fired \/ mlSolves
  IN  /\ MlAt(h, "evaluate")
      /\ mlCanary' = IF ~Judges THEN mlCanary
                     ELSE IF trip THEN "tripped" ELSE IF since >= ProbationHumans THEN "graduated" ELSE mlCanary
      /\ MlGoto(h, IF Judges /\ trip THEN [pc |-> "rollback"] ELSE MlIdle)
      /\ UNCHANGED <<mlBootVars, mlBundleVars, mlMonitors, mlArmedAt, mlRollbacks>>

\* The callback, off the guard's lock: Rollback, or a forced abstain if it has
\* nothing to return to; then the shadow goes.
Rollback(h) ==
  /\ MlAt(h, "rollback")
  /\ mlActive' = mlPrevious /\ mlSeam' = mlPrevious /\ mlPrevious' = NoModel
  /\ mlRollbacks' = mlRollbacks + 1
  /\ MlGoto(h, [pc |-> "unshadow"])
  /\ UNCHANGED <<mlBootVars, mlShadow, mlMonitors, mlCanary, mlArmedAt>>

DropsShadow(h) ==
  /\ MlAt(h, "unshadow")
  /\ mlShadow' = NoModel
  /\ MlGoto(h, MlIdle)
  /\ UNCHANGED <<mlBootVars, mlActive, mlPrevious, mlSeam, mlMonitors, mlGuard>>

CanaryNext ==
  \/ Deploys \/ StageReads \/ StageLoads
  \/ \E h \in MlFeeds :
       \/ feedPassOutcome(h) \/ ScoresPass(h) \/ Predicts(h)
       \/ ObserveMimic(h) \/ Calibrates(h) \/ ReadsThreshold(h) \/ ObserveOracleError(h)
       \/ TakesSnapshot(h) \/ ReadsGate(h) \/ evaluate(h) \/ Rollback(h) \/ DropsShadow(h)

CanarySpec == CanaryInit /\ [][CanaryNext]_mlVars

(***************************************************************************)
(* Properties                                                              *)
(***************************************************************************)
\* "onRollback is invoked exactly once, off the lock, on the first breach"
\* (canary.go:65), however many feeds evaluate at once: a tripped guard has rolled
\* back at most once, and once its callback is over neither the model nor its
\* shadow is served; a guard graduates only after the probation sample; the seam
\* always serves what the bundle manager records, and that is a bundle of the
\* running schema (and, unless the file was replaced between the two reads of
\* Stage, the bundle whose digest and signature were verified).
ProbationHolds ==
  /\ mlRollbacks <= 1 /\ (mlRollbacks > 0 => mlCanary = "tripped")
  /\ mlCanary = "tripped" /\ (\A h \in MlFeeds : mlFeed[h].pc \notin {"rollback", "unshadow"})
       => mlRollbacks = 1 /\ mlSeam = NoModel /\ mlShadow = NoModel
  /\ mlCanary = "graduated" => mlHumans - mlArmedAt >= ProbationHumans
  /\ mlSeam = mlActive
  /\ mlSeam # NoModel => mlSeam.schema /\ (mlTorn \/ Verified(mlSetup, mlSeam))
===============================================================================
