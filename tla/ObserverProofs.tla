--------------------------- MODULE ObserverProofs ---------------------------
(* What the core server concludes from its traffic, for any number of requests *)
(* in flight: a model on probation serves nothing after its rollback, and a    *)
(* rotation or a fan-out that is reported happened.                            *)
EXTENDS ModelCanary, TrafficLog, Correlation, FiniteSetTheorems, WellFoundedInduction, TLAPS

(***************************************************************************)
(* The canary: one rollback, and nothing served after it.                  *)
(***************************************************************************)
\* What a feed in progress holds.
MlProgress ==
  [pc : {"idle", "score", "snapshot", "rollback", "unshadow"}]
    \cup [pc : {"predict"}, closed : BOOLEAN]
    \cup [pc : {"mimic", "calibrate", "threshold"}, p : 0..ThetaTop]
    \cup [pc : {"oracle"}, wrong : BOOLEAN]
    \cup [pc : {"gate"}, humans : Nat, over : BOOLEAN]
    \cup [pc : {"evaluate"}, humans : Nat, over : BOOLEAN, fired : BOOLEAN]

RollingBack(h) == mlFeed[h].pc \in {"rollback", "unshadow"}

MlTypeOK ==
  /\ mlBoot \in {"stage", "load", "disabled", "serving"} /\ mlTorn \in BOOLEAN
  /\ mlCanary \in {"off", "armed", "tripped", "graduated"}
  /\ mlHumans \in Nat /\ mlArmedAt \in Nat /\ mlRollbacks \in Nat
  /\ mlOver \in BOOLEAN /\ mlMimic \in BOOLEAN /\ mlOracle \in BOOLEAN /\ mlPSI \in BOOLEAN /\ mlSolves \in BOOLEAN
  /\ mlFeed \in [MlFeeds -> MlProgress]

\* Before a model serves nothing is active and nothing is fed; the bundle that is
\* about to be loaded is the one that was verified, unless it was replaced since.
StartInv ==
  /\ mlPrevious = NoModel
  /\ mlBoot # "serving" =>
       /\ mlActive = NoModel /\ mlSeam = NoModel /\ mlShadow = NoModel /\ mlCanary = "off"
       /\ \A h \in MlFeeds : mlFeed[h].pc = "idle"
  /\ mlBoot = "stage" => ~mlTorn
  /\ mlBoot = "load" => Verified(mlSetup, mlRaw) /\ (mlTorn \/ mlFile = mlRaw)

ServedInv ==
  /\ mlSeam = mlActive
  /\ mlSeam # NoModel => mlSeam.schema /\ (mlTorn \/ Verified(mlSetup, mlSeam))

\* A feed judges with a count of humans that is not ahead of the calibration's.
JudgeInv ==
  /\ \A h \in MlFeeds : mlFeed[h].pc \in {"gate", "evaluate"} => mlFeed[h].humans <= mlHumans
  /\ mlCanary = "graduated" => mlHumans - mlArmedAt >= ProbationHumans

\* At most one feed runs the callback, and only of a tripped guard; how far it got
\* is what is left of the model.
RollbackInv ==
  /\ \A g, h \in MlFeeds : RollingBack(g) /\ RollingBack(h) => g = h
  /\ mlCanary # "tripped" => mlRollbacks = 0 /\ \A h \in MlFeeds : ~RollingBack(h)
  /\ mlCanary = "tripped" =>
       \/ mlRollbacks = 0 /\ \E h \in MlFeeds : mlFeed[h].pc = "rollback"
       \/ mlRollbacks = 1 /\ mlSeam = NoModel /\ \E h \in MlFeeds : mlFeed[h].pc = "unshadow"
       \/ mlRollbacks = 1 /\ mlSeam = NoModel /\ mlShadow = NoModel /\ \A h \in MlFeeds : ~RollingBack(h)

MlInv == MlTypeOK /\ StartInv /\ ServedInv /\ JudgeInv /\ RollbackInv

LEMMA MlInitially == CanaryInit => MlInv
<1> SUFFICES ASSUME CanaryInit PROVE MlInv
  BY Zenon
<1>1. \A h \in MlFeeds : mlFeed[h].pc = "idle"
  BY Zenon DEF CanaryInit, MlIdle
<1>2. MlTypeOK
  BY Zenon DEF CanaryInit, MlTypeOK, MlProgress, MlIdle
<1>3. StartInv /\ ServedInv
  BY <1>1, Zenon DEF CanaryInit, StartInv, ServedInv
<1>4. JudgeInv /\ RollbackInv
  BY <1>1, Zenon DEF CanaryInit, JudgeInv, RollbackInv, RollingBack
<1> QED BY <1>2, <1>3, <1>4, Zenon DEF MlInv

\* A feed that moves on outside the callback leaves the other parts as they are.
LEMMA MlFeedMoves ==
  ASSUME MlInv, NEW h \in MlFeeds, NEW r \in MlProgress, ~RollingBack(h), mlBoot = "serving",
         mlFeed' = [mlFeed EXCEPT ![h] = r], r.pc \notin {"rollback", "unshadow"},
         mlHumans' \in Nat, mlHumans' >= mlHumans,
         r.pc \in {"gate", "evaluate"} => r.humans <= mlHumans',
         mlOver' \in BOOLEAN, mlMimic' \in BOOLEAN, mlOracle' \in BOOLEAN, mlPSI' \in BOOLEAN, mlSolves' \in BOOLEAN,
         UNCHANGED <<mlBootVars, mlBundleVars, mlGuard>>
  PROVE  MlInv'
<1>1. \A g \in MlFeeds : mlFeed'[g] = IF g = h THEN r ELSE mlFeed[g]
  BY Zenon DEF MlInv, MlTypeOK
<1>2. MlTypeOK'
  BY Zenon DEF MlInv, MlTypeOK, mlBootVars, mlBundleVars, mlGuard
<1>3. StartInv' /\ ServedInv'
  BY Zenon DEF MlInv, StartInv, ServedInv, Verified, mlBootVars, mlBundleVars, mlGuard
<1>4. \A g \in MlFeeds : mlFeed[g].pc \in {"gate", "evaluate"} => mlFeed[g].humans \in Nat
  BY Zenon DEF MlInv, MlTypeOK, MlProgress
<1>5. JudgeInv'
  <2>1. mlHumans \in Nat /\ mlArmedAt \in Nat /\ ProbationHumans \in Nat /\ JudgeInv
    BY CanaryAssumption, Zenon DEF MlInv, MlTypeOK
  <2>2. \A g \in MlFeeds : mlFeed'[g].pc \in {"gate", "evaluate"} => mlFeed'[g].humans <= mlHumans'
    BY <1>1, <1>4, <2>1 DEF JudgeInv
  <2>3. mlCanary' = "graduated" => mlHumans' - mlArmedAt' >= ProbationHumans
    <3>1. mlCanary' = mlCanary /\ mlArmedAt' = mlArmedAt
      BY Zenon DEF mlGuard
    <3>2. mlCanary = "graduated" => mlHumans - mlArmedAt >= ProbationHumans
      BY <2>1, Zenon DEF JudgeInv
    <3>3. mlHumans' \in Nat /\ mlHumans' >= mlHumans
      BY Zenon
    <3>4. \A a, b, c, d \in Nat : d >= a /\ a - b >= c => d - b >= c
      OBVIOUS
    <3> QED BY <2>1, <3>1, <3>2, <3>3, <3>4, Zenon
  <2> QED BY <2>2, <2>3, Zenon DEF JudgeInv
<1>6. \A g \in MlFeeds : RollingBack(g)' = RollingBack(g) /\ (RollingBack(g) => mlFeed'[g] = mlFeed[g])
  BY <1>1 DEF RollingBack
<1>7. mlFeed[h].pc \notin {"rollback", "unshadow"}
  BY Zenon DEF RollingBack
<1>8. RollbackInv'
  BY <1>1, <1>6, <1>7, Zenon DEF MlInv, RollbackInv, mlBundleVars, mlGuard
<1> QED BY <1>2, <1>3, <1>5, <1>8, Zenon DEF MlInv

LEMMA MlStep == MlInv /\ [CanaryNext]_mlVars => MlInv'
<1> SUFFICES ASSUME MlInv, [CanaryNext]_mlVars
             PROVE  MlInv'
  BY Zenon
<1>0. MlTypeOK /\ StartInv /\ ServedInv /\ JudgeInv /\ RollbackInv
  BY Zenon DEF MlInv
<1> USE DEF MlAt, MlGoto, RollingBack
<1>1. CASE Deploys
  <2>1. MlTypeOK'
    BY <1>0, <1>1, Zenon DEF Deploys, MlTypeOK, mlBundleVars, mlMonitors, mlGuard
  <2>2. StartInv' /\ ServedInv'
    BY <1>0, <1>1, Zenon DEF Deploys, StartInv, ServedInv, Verified, mlBundleVars, mlMonitors, mlGuard
  <2>3. JudgeInv' /\ RollbackInv'
    BY <1>0, <1>1, Zenon DEF Deploys, JudgeInv, RollbackInv, mlBundleVars, mlMonitors, mlGuard
  <2> QED BY <2>1, <2>2, <2>3, Zenon DEF MlInv
<1>2. CASE StageReads
  <2>1. MlTypeOK'
    BY <1>0, <1>2, Zenon DEF StageReads, MlTypeOK, mlBundleVars, mlMonitors, mlGuard
  <2>2. StartInv' /\ ServedInv'
    BY <1>0, <1>2, Zenon DEF StageReads, StartInv, ServedInv, Verified, mlBundleVars, mlMonitors, mlGuard
  <2>3. JudgeInv' /\ RollbackInv'
    BY <1>0, <1>2, Zenon DEF StageReads, JudgeInv, RollbackInv, mlBundleVars, mlMonitors, mlGuard
  <2> QED BY <2>1, <2>2, <2>3, Zenon DEF MlInv
<1>3. CASE StageLoads
  <2>1. MlTypeOK'
    BY <1>0, <1>3, Zenon DEF StageLoads, MlTypeOK, mlBundleVars, mlMonitors, mlGuard
  <2>2. StartInv' /\ ServedInv'
    BY <1>0, <1>3, Zenon DEF StageLoads, StartInv, ServedInv, Verified, Admits, mlBundleVars, mlMonitors, mlGuard
  <2>3. JudgeInv' /\ RollbackInv'
    BY <1>0, <1>3, Zenon DEF StageLoads, JudgeInv, RollbackInv, StartInv, mlBundleVars, mlMonitors, mlGuard
  <2> QED BY <2>1, <2>2, <2>3, Zenon DEF MlInv
<1>4. ASSUME NEW h \in MlFeeds, mlFeed[h].pc # "idle" PROVE mlBoot = "serving"
  BY <1>0, <1>4, Zenon DEF StartInv
<1> USE DEF mlBootVars, mlBundleVars, mlMonitors, mlGuard
<1>5. ASSUME NEW h \in MlFeeds, feedPassOutcome(h) PROVE MlInv'
  <2>1. PICK solved \in BOOLEAN : MlGoto(h, IF solved THEN [pc |-> "score"] ELSE MlIdle)
    BY <1>5, Zenon DEF feedPassOutcome
  <2> DEFINE r == IF solved THEN [pc |-> "score"] ELSE MlIdle
  <2>2. r \in MlProgress /\ r.pc \in {"score", "idle"}
    BY Zenon DEF MlProgress, MlIdle
  <2>3. mlSolves' \in BOOLEAN
    BY <1>0, <1>5, Zenon DEF feedPassOutcome, Moves, MlTypeOK
  <2>4. /\ mlBoot = "serving" /\ mlFeed[h].pc = "idle" /\ UNCHANGED <<mlBootVars, mlBundleVars, mlGuard>>
        /\ mlHumans' \in Nat /\ mlHumans' >= mlHumans
        /\ mlOver' \in BOOLEAN /\ mlMimic' \in BOOLEAN /\ mlOracle' \in BOOLEAN /\ mlPSI' \in BOOLEAN
    BY <1>0, <1>5 DEF feedPassOutcome, MlTypeOK
  <2>5. mlFeed' = [mlFeed EXCEPT ![h] = r]
    BY <2>1, Zenon
  <2> HIDE DEF r
  <2> QED BY <2>2, <2>3, <2>4, <2>5, MlFeedMoves, Zenon
<1>6. ASSUME NEW h \in MlFeeds, ScoresPass(h) PROVE MlInv'
  <2>1. PICK r \in MlProgress : mlFeed' = [mlFeed EXCEPT ![h] = r] /\ r.pc \in {"idle", "predict"}
    <3>1. MlIdle \in MlProgress /\ MlIdle.pc = "idle"
      BY Zenon DEF MlProgress, MlIdle
    <3>2. \A closed \in BOOLEAN : [pc |-> "predict", closed |-> closed] \in MlProgress
      BY Zenon DEF MlProgress
    <3>3. CASE mlFeed' = [mlFeed EXCEPT ![h] = MlIdle]
      BY <3>1, <3>3, Zenon
    <3>4. CASE ObserveFeatures(h)
      <4> DEFINE closes == mlRef = FeatureWindow /\ mlCur + 1 = FeatureWindow
      <4>1. mlFeed' = [mlFeed EXCEPT ![h] = [pc |-> "predict", closed |-> closes]] /\ closes \in BOOLEAN
        BY <3>4, Zenon DEF ObserveFeatures
      <4> QED BY <3>2, <4>1, Zenon
    <3> QED BY <1>6, <3>3, <3>4, Zenon DEF ScoresPass
  <2>2. /\ mlFeed[h].pc = "score" /\ UNCHANGED <<mlBootVars, mlBundleVars, mlGuard>>
        /\ mlHumans' \in Nat /\ mlHumans' >= mlHumans
        /\ mlOver' \in BOOLEAN /\ mlMimic' \in BOOLEAN /\ mlOracle' \in BOOLEAN /\ mlPSI' \in BOOLEAN /\ mlSolves' \in BOOLEAN
    BY <1>0, <1>6 DEF ScoresPass, MlTypeOK
  <2>3. mlBoot = "serving"
    BY <1>4, <2>2, Zenon
  <2> QED BY <2>1, <2>2, <2>3, MlFeedMoves, Zenon
<1>7. ASSUME NEW h \in MlFeeds, Predicts(h) PROVE MlInv'
  <2>1. PICK r \in MlProgress : mlFeed' = [mlFeed EXCEPT ![h] = r] /\ r.pc \in {"idle", "mimic"}
    <3>1. MlIdle \in MlProgress /\ MlIdle.pc = "idle"
      BY Zenon DEF MlProgress, MlIdle
    <3>2. \A p \in 0..ThetaTop : [pc |-> "mimic", p |-> p] \in MlProgress
      BY Zenon DEF MlProgress
    <3>3. CASE mlFeed' = [mlFeed EXCEPT ![h] = MlIdle]
      BY <3>1, <3>3, Zenon
    <3>4. CASE \E p \in 0..ThetaTop : mlFeed' = [mlFeed EXCEPT ![h] = [pc |-> "mimic", p |-> p]]
      BY <3>2, <3>4, Zenon
    <3> QED BY <1>7, <3>3, <3>4, Zenon DEF Predicts
  <2>2. mlPSI' \in BOOLEAN
    BY <1>0, <1>7, Zenon DEF Predicts, MlTypeOK
  <2>3. /\ mlFeed[h].pc = "predict" /\ UNCHANGED <<mlBootVars, mlBundleVars, mlGuard>>
        /\ mlHumans' \in Nat /\ mlHumans' >= mlHumans
        /\ mlOver' \in BOOLEAN /\ mlMimic' \in BOOLEAN /\ mlOracle' \in BOOLEAN /\ mlSolves' \in BOOLEAN
    BY <1>0, <1>7 DEF Predicts, MlTypeOK
  <2>4. mlBoot = "serving"
    BY <1>4, <2>3, Zenon
  <2> QED BY <2>1, <2>2, <2>3, <2>4, MlFeedMoves, Zenon
<1>8. ASSUME NEW h \in MlFeeds, ObserveMimic(h) PROVE MlInv'
  <2> DEFINE r == [pc |-> "calibrate", p |-> mlFeed[h].p]
  <2>1. r \in MlProgress /\ r.pc = "calibrate"
    BY <1>0, <1>8, Zenon DEF ObserveMimic, MlTypeOK, MlProgress
  <2>2. /\ mlFeed[h].pc = "mimic" /\ UNCHANGED <<mlBootVars, mlBundleVars, mlGuard>> /\ mlFeed' = [mlFeed EXCEPT ![h] = r]
        /\ mlHumans' \in Nat /\ mlHumans' >= mlHumans
        /\ mlOver' \in BOOLEAN /\ mlMimic' \in BOOLEAN /\ mlOracle' \in BOOLEAN /\ mlPSI' \in BOOLEAN /\ mlSolves' \in BOOLEAN
    BY <1>0, <1>8 DEF ObserveMimic, MlTypeOK
  <2>3. mlBoot = "serving"
    BY <1>4, <2>2, Zenon
  <2> HIDE DEF r
  <2> QED BY <2>1, <2>2, <2>3, MlFeedMoves, Zenon
<1>9. ASSUME NEW h \in MlFeeds, Calibrates(h) PROVE MlInv'
  <2> DEFINE r == [pc |-> "threshold", p |-> mlFeed[h].p]
  <2>1. r \in MlProgress /\ r.pc = "threshold"
    BY <1>0, <1>9, Zenon DEF Calibrates, MlTypeOK, MlProgress
  <2>2. mlOver' \in BOOLEAN
    BY <1>0, <1>9, Zenon DEF Calibrates, Moves, MlTypeOK
  <2>3. /\ mlFeed[h].pc = "calibrate" /\ UNCHANGED <<mlBootVars, mlBundleVars, mlGuard>> /\ mlFeed' = [mlFeed EXCEPT ![h] = r]
        /\ mlHumans' \in Nat /\ mlHumans' >= mlHumans
        /\ mlMimic' \in BOOLEAN /\ mlOracle' \in BOOLEAN /\ mlPSI' \in BOOLEAN /\ mlSolves' \in BOOLEAN
    BY <1>0, <1>9 DEF Calibrates, MlTypeOK
  <2>4. mlBoot = "serving"
    BY <1>4, <2>3, Zenon
  <2> HIDE DEF r
  <2> QED BY <2>1, <2>2, <2>3, <2>4, MlFeedMoves, Zenon
<1>10. ASSUME NEW h \in MlFeeds, ReadsThreshold(h) PROVE MlInv'
  <2> DEFINE wrong == mlFeed[h].p >= mlTheta
             r == [pc |-> "oracle", wrong |-> wrong]
  <2>1. wrong \in BOOLEAN
    OBVIOUS
  <2>2. mlFeed[h].pc = "threshold" /\ UNCHANGED <<mlBootVars, mlBundleVars, mlMonitors, mlGuard>> /\ mlFeed' = [mlFeed EXCEPT ![h] = r]
    BY <1>10, Zenon DEF ReadsThreshold
  <2> HIDE DEF wrong
  <2>3. r \in MlProgress /\ r.pc = "oracle"
    BY <2>1, Zenon DEF MlProgress
  <2>4. mlHumans' \in Nat /\ mlHumans' >= mlHumans
    BY <1>0, <2>2 DEF MlTypeOK
  <2>5. mlOver' \in BOOLEAN /\ mlMimic' \in BOOLEAN /\ mlOracle' \in BOOLEAN /\ mlPSI' \in BOOLEAN /\ mlSolves' \in BOOLEAN
    BY <1>0, <2>2, Zenon DEF MlTypeOK
  <2>6. mlBoot = "serving"
    BY <1>4, <2>2, Zenon
  <2> HIDE DEF r
  <2> QED BY <2>2, <2>3, <2>4, <2>5, <2>6, MlFeedMoves, Zenon
<1>11. ASSUME NEW h \in MlFeeds, ObserveOracleError(h) PROVE MlInv'
  <2> DEFINE r == IF mlCanary = "off" THEN MlIdle ELSE [pc |-> "snapshot"]
  <2>1. r \in MlProgress /\ r.pc \in {"idle", "snapshot"}
    BY Zenon DEF MlProgress, MlIdle
  <2>2. mlOracle' \in BOOLEAN
    BY <1>0, <1>11, Zenon DEF ObserveOracleError, MlTypeOK
  <2>3. /\ mlFeed[h].pc = "oracle" /\ UNCHANGED <<mlBootVars, mlBundleVars, mlGuard>> /\ mlFeed' = [mlFeed EXCEPT ![h] = r]
        /\ mlHumans' \in Nat /\ mlHumans' >= mlHumans
        /\ mlOver' \in BOOLEAN /\ mlMimic' \in BOOLEAN /\ mlPSI' \in BOOLEAN /\ mlSolves' \in BOOLEAN
    BY <1>0, <1>11 DEF ObserveOracleError, MlTypeOK
  <2>4. mlBoot = "serving"
    BY <1>4, <2>3, Zenon
  <2> HIDE DEF r
  <2> QED BY <2>1, <2>2, <2>3, <2>4, MlFeedMoves, Zenon
<1>12. ASSUME NEW h \in MlFeeds, TakesSnapshot(h) PROVE MlInv'
  <2> DEFINE r == [pc |-> "gate", humans |-> mlHumans, over |-> mlOver]
  <2>1. r \in MlProgress /\ r.pc = "gate"
    BY <1>0, Zenon DEF MlProgress, MlTypeOK
  <2>2. /\ mlFeed[h].pc = "snapshot" /\ UNCHANGED <<mlBootVars, mlBundleVars, mlMonitors, mlGuard>>
        /\ mlFeed' = [mlFeed EXCEPT ![h] = r]
    BY <1>12, Zenon DEF TakesSnapshot
  <2>3. mlHumans' \in Nat /\ mlHumans' >= mlHumans /\ r.humans <= mlHumans'
    BY <1>0, <2>2 DEF MlTypeOK
  <2>4. mlBoot = "serving"
    BY <1>4, <2>2, Zenon
  <2>5. mlOver' \in BOOLEAN /\ mlMimic' \in BOOLEAN /\ mlOracle' \in BOOLEAN /\ mlPSI' \in BOOLEAN /\ mlSolves' \in BOOLEAN
    BY <1>0, <2>2, Zenon DEF MlTypeOK
  <2> HIDE DEF r
  <2> QED BY <2>1, <2>2, <2>3, <2>4, <2>5, MlFeedMoves, Zenon
<1>13. ASSUME NEW h \in MlFeeds, ReadsGate(h) PROVE MlInv'
  <2> DEFINE r == [pc |-> "evaluate", humans |-> mlFeed[h].humans, over |-> mlFeed[h].over, fired |-> Gate]
  <2>1. /\ mlFeed[h].pc = "gate" /\ UNCHANGED <<mlBootVars, mlBundleVars, mlMonitors, mlGuard>>
        /\ mlFeed' = [mlFeed EXCEPT ![h] = r]
    BY <1>13, Zenon DEF ReadsGate
  <2>2. mlFeed[h] \in [pc : {"gate"}, humans : Nat, over : BOOLEAN] /\ Gate \in BOOLEAN
    BY <1>0, <2>1 DEF MlTypeOK, MlProgress, Gate
  <2>3. r \in MlProgress /\ r.pc = "evaluate"
    BY <2>2, Zenon DEF MlProgress
  <2>4. mlHumans' \in Nat /\ mlHumans' >= mlHumans /\ r.humans <= mlHumans'
    BY <1>0, <2>1 DEF MlTypeOK, JudgeInv
  <2>5. mlBoot = "serving"
    BY <1>4, <2>1, Zenon
  <2>6. mlOver' \in BOOLEAN /\ mlMimic' \in BOOLEAN /\ mlOracle' \in BOOLEAN /\ mlPSI' \in BOOLEAN /\ mlSolves' \in BOOLEAN
    BY <1>0, <2>1, Zenon DEF MlTypeOK
  <2> HIDE DEF r
  <2> QED BY <2>1, <2>3, <2>4, <2>5, <2>6, MlFeedMoves, Zenon
<1>14. ASSUME NEW h \in MlFeeds, evaluate(h) PROVE MlInv'
  <2> DEFINE since == mlFeed[h].humans - mlArmedAt
             trip == (since >= MinCanaryObserve /\ mlFeed[h].over) \/ mlFeed[h].fired \/ mlSolves
  <2>1. /\ mlFeed[h] \in [pc : {"evaluate"}, humans : Nat, over : BOOLEAN, fired : BOOLEAN]
        /\ mlFeed[h].humans <= mlHumans /\ mlBoot = "serving" /\ mlFeed[h].pc = "evaluate"
    BY <1>0, <1>4, <1>14, Zenon DEF evaluate, MlTypeOK, MlProgress, JudgeInv
  <2>2. /\ mlCanary' = IF ~Judges THEN mlCanary
                       ELSE IF trip THEN "tripped" ELSE IF since >= ProbationHumans THEN "graduated" ELSE mlCanary
        /\ mlFeed' = [mlFeed EXCEPT ![h] = IF Judges /\ trip THEN [pc |-> "rollback"] ELSE MlIdle]
        /\ UNCHANGED <<mlBootVars, mlBundleVars, mlMonitors, mlArmedAt, mlRollbacks>>
    BY <1>14, Zenon DEF evaluate
  <2> HIDE DEF trip
  <2>3. MlTypeOK'
    BY <1>0, <2>2, ZenonT(30) DEF MlTypeOK, MlProgress, MlIdle
  <2>4. StartInv' /\ ServedInv'
    BY <1>0, <2>1, <2>2, Zenon DEF StartInv, ServedInv, Verified
  <2>5. \A g \in MlFeeds : mlFeed'[g] = IF g = h THEN IF Judges /\ trip THEN [pc |-> "rollback"] ELSE MlIdle ELSE mlFeed[g]
    BY <1>0, <2>2, Zenon DEF MlTypeOK
  <2>6. JudgeInv'
    BY <1>0, <2>1, <2>2, <2>5, CanaryAssumption DEF JudgeInv, MlTypeOK, MlIdle
  <2>7. RollbackInv'
    <3>1. CASE Judges /\ trip
      BY <1>0, <2>1, <2>2, <2>5, <3>1, SMTT(30) DEF RollbackInv, Judges
    <3>2. CASE ~(Judges /\ trip)
      <4>1. \A g \in MlFeeds : RollingBack(g)' = RollingBack(g) /\ (RollingBack(g) => mlFeed'[g] = mlFeed[g])
        BY <2>1, <2>5, <3>2 DEF MlIdle
      <4>2. mlCanary' = mlCanary \/ (mlCanary = "armed" /\ mlCanary' = "graduated")
        BY <2>2, <3>2, Zenon DEF Judges
      <4> QED BY <1>0, <2>1, <2>2, <4>1, <4>2, ZenonT(30) DEF RollbackInv
    <3> QED BY <3>1, <3>2, Zenon
  <2> QED BY <2>3, <2>4, <2>6, <2>7, Zenon DEF MlInv
<1>15. ASSUME NEW h \in MlFeeds, Rollback(h) PROVE MlInv'
  <2>1. /\ mlBoot = "serving" /\ mlCanary = "tripped" /\ mlRollbacks = 0
        /\ \A g \in MlFeeds : RollingBack(g) => g = h
    BY <1>0, <1>4, <1>15, Zenon DEF Rollback, RollbackInv
  <2>2. MlTypeOK'
    BY <1>0, <1>15 DEF Rollback, MlTypeOK, MlProgress
  <2>3. StartInv' /\ ServedInv' /\ mlSeam' = NoModel
    BY <1>0, <1>15, <2>1, Zenon DEF Rollback, StartInv, ServedInv
  <2>4. \A g \in MlFeeds : mlFeed'[g] = IF g = h THEN [pc |-> "unshadow"] ELSE mlFeed[g]
    BY <1>0, <1>15, Zenon DEF Rollback, MlTypeOK
  <2>5. JudgeInv'
    BY <1>0, <1>15, <2>4, SMTT(30) DEF Rollback, JudgeInv
  <2>6. RollbackInv'
    BY <1>15, <2>1, <2>3, <2>4, SMTT(30) DEF Rollback, RollbackInv
  <2> QED BY <2>2, <2>3, <2>5, <2>6, Zenon DEF MlInv
<1>16. ASSUME NEW h \in MlFeeds, DropsShadow(h) PROVE MlInv'
  <2>1. /\ mlBoot = "serving" /\ mlCanary = "tripped" /\ mlRollbacks = 1 /\ mlSeam = NoModel
        /\ \A g \in MlFeeds : RollingBack(g) => g = h
    BY <1>0, <1>4, <1>16, Zenon DEF DropsShadow, RollbackInv
  <2>2. MlTypeOK'
    BY <1>0, <1>16 DEF DropsShadow, MlTypeOK, MlProgress, MlIdle
  <2>3. StartInv' /\ ServedInv'
    BY <1>0, <1>16, <2>1, Zenon DEF DropsShadow, StartInv, ServedInv, Verified
  <2>4. \A g \in MlFeeds : mlFeed'[g] = IF g = h THEN MlIdle ELSE mlFeed[g]
    BY <1>0, <1>16, Zenon DEF DropsShadow, MlTypeOK
  <2>5. JudgeInv'
    BY <1>0, <1>16, <2>4, SMTT(30) DEF DropsShadow, JudgeInv, MlIdle
  <2>6. RollbackInv'
    BY <1>16, <2>1, <2>4 DEF DropsShadow, RollbackInv, MlIdle
  <2> QED BY <2>2, <2>3, <2>5, <2>6, Zenon DEF MlInv
<1>17. CASE UNCHANGED mlVars
  <2>1. MlTypeOK' /\ StartInv'
    BY <1>0, <1>17, ZenonT(30) DEF mlVars, MlTypeOK, StartInv, Verified
  <2>2. ServedInv' /\ JudgeInv'
    BY <1>0, <1>17, Zenon DEF mlVars, ServedInv, JudgeInv, Verified
  <2>3. RollbackInv'
    BY <1>0, <1>17, Zenon DEF mlVars, RollbackInv
  <2> QED BY <2>1, <2>2, <2>3, Zenon DEF MlInv
<1>18. ASSUME NEW h \in MlFeeds,
              \/ feedPassOutcome(h) \/ ScoresPass(h) \/ Predicts(h)
              \/ ObserveMimic(h) \/ Calibrates(h) \/ ReadsThreshold(h) \/ ObserveOracleError(h)
              \/ TakesSnapshot(h) \/ ReadsGate(h) \/ evaluate(h) \/ Rollback(h) \/ DropsShadow(h)
       PROVE  MlInv'
  BY <1>5, <1>6, <1>7, <1>8, <1>9, <1>10, <1>11, <1>12, <1>13, <1>14, <1>15, <1>16, <1>18, Zenon
<1> QED BY <1>1, <1>2, <1>3, <1>17, <1>18, Zenon DEF CanaryNext

\* However many handlers feed outcomes at once, and whatever bundles, keys and
\* thresholds there are: the guard rolls back once, nothing is served after the
\* callback, nothing graduates early, and what is served was admitted.
THEOREM ProbationHoldsAlways == CanarySpec => []ProbationHolds
<1>1. MlInv => ProbationHolds
  BY DEF MlInv, MlTypeOK, ServedInv, JudgeInv, RollbackInv, RollingBack, ProbationHolds
<1> QED BY <1>1, MlInitially, MlStep, PTL DEF CanarySpec

-----------------------------------------------------------------------------
(***************************************************************************)
(* The traffic log: what a session is charged with is its own.             *)
(***************************************************************************)
TlHellos == {q.hello : q \in TlRequests} \cup {NoHello}
TlRecords == [tls : TlHellos, ua : {q.ua : q \in TlRequests}, subnet : {q.subnet : q \in TlRequests},
              proto : {q.proto : q \in TlRequests}, addr : {q.addr : q \in TlRequests}, own : TlHellos, alone : BOOLEAN]
TlProgress == [pc : {"idle"}] \cup [pc : {"tls", "http"}, q : TlRequests, ts : Nat, alone : BOOLEAN]

TlTypeOK ==
  /\ tlNow \in Nat
  /\ tlSessions \in [Sids -> Seq(TlRecords)]
  /\ tlReq \in [TlHandlers -> TlProgress]
  /\ DOMAIN tlCame = Sids /\ \A s \in Sids : IsFiniteSet(tlCame[s])

\* A handshake that a request of the address brought, and that its session came over.
Brought(addr, tls) ==
  \E q \in TlRequests : q.addr = addr /\ q.hello = tls /\ (q.sid # NoSid => tls \in tlCame[q.sid])

InFlightInv ==
  \A h \in TlHandlers : tlReq[h].pc # "idle" =>
    LET r == tlReq[h]
    IN  /\ r.q.sid # NoSid => r.q.hello \in tlCame[r.q.sid]
        /\ r.pc = "http" => r.q.sid # NoSid
        /\ r.pc = "http" /\ r.alone /\ r.q.hello # NoHello /\ r.q.addr \in DOMAIN tlByAddr =>
             tlByAddr[r.q.addr].tls = r.q.hello

AddressInv == \A a \in DOMAIN tlByAddr : Brought(a, tlByAddr[a].tls)

\* A record names an address of its session, and its handshake is one of the address.
Sound(s, r) ==
  /\ \E q \in TlRequests : q.sid = s /\ q.addr = r.addr
  /\ r.tls = NoHello \/ Brought(r.addr, r.tls)
  /\ r.alone /\ r.own # NoHello => r.tls \in {r.own, NoHello}

RecordInv == \A s \in Sids : \A i \in DOMAIN tlSessions[s] : Sound(s, tlSessions[s][i])

TlInv == TlTypeOK /\ InFlightInv /\ AddressInv /\ RecordInv

\* The ring keeps what it had, but for the oldest, and what it is given.
LEMMA AppendedKeeps ==
  ASSUME NEW S, NEW recs \in Seq(S), NEW rec \in S
  PROVE  /\ Appended(recs, rec) \in Seq(S)
         /\ \A i \in DOMAIN Appended(recs, rec) :
              Appended(recs, rec)[i] = rec \/ \E j \in DOMAIN recs : Appended(recs, rec)[i] = recs[j]
<1> DEFINE base == IF Len(recs) >= MaxPerSession THEN Tail(recs) ELSE recs
<1>1. base \in Seq(S) /\ \A i \in 1..Len(base) : \E j \in 1..Len(recs) : base[i] = recs[j]
  <2>1. CASE Len(recs) >= MaxPerSession
    <3>1. recs # <<>>
      BY <2>1, TrafficAssumption
    <3>2. Tail(recs) \in Seq(S) /\ Len(Tail(recs)) = Len(recs) - 1 /\ \A i \in 1..Len(Tail(recs)) : Tail(recs)[i] = recs[i + 1]
      BY <3>1
    <3>3. Len(recs) \in Nat
      OBVIOUS
    <3>4. \A i \in 1..Len(Tail(recs)) : i + 1 \in 1..Len(recs)
      BY <3>2, <3>3
    <3> QED BY <2>1, <3>2, <3>4, Zenon
  <2>2. CASE ~(Len(recs) >= MaxPerSession)
    BY <2>2, Zenon
  <2> QED BY <2>1, <2>2, Zenon
<1>2. Appended(recs, rec) = Append(base, rec)
  BY Zenon DEF Appended
<1> HIDE DEF base
<1>3. Append(base, rec) \in Seq(S) /\ DOMAIN Append(base, rec) = 1..Len(base) + 1 /\ DOMAIN recs = 1..Len(recs)
  BY <1>1
<1>4. \A i \in 1..Len(base) + 1 : Append(base, rec)[i] = IF i = Len(base) + 1 THEN rec ELSE base[i]
  BY <1>1
<1>5. ASSUME NEW i \in 1..Len(base) + 1, i # Len(base) + 1 PROVE i \in 1..Len(base)
  BY <1>1, <1>5
<1> QED BY <1>1, <1>2, <1>3, <1>4, <1>5, Zenon

LEMMA TlInitially == TrafficInit => TlInv
<1> SUFFICES ASSUME TrafficInit PROVE TlInv
  BY Zenon
<1>1. TlTypeOK
  BY FS_EmptySet DEF TrafficInit, TlTypeOK, TlProgress, TlIdle
<1>2. InFlightInv
  BY Zenon DEF TrafficInit, InFlightInv, TlIdle
<1>3. AddressInv /\ RecordInv
  BY DEF TrafficInit, AddressInv, RecordInv
<1> QED BY <1>1, <1>2, <1>3, Zenon DEF TlInv

\* What a session came over is never forgotten.
LEMMA TlCameKept ==
  ASSUME TlInv, \A s \in Sids : tlCame[s] \subseteq tlCame'[s]
  PROVE  /\ \A a, t : Brought(a, t) => Brought(a, t)'
         /\ \A s, r : Sound(s, r) => Sound(s, r)'
<1>1. \A q \in TlRequests : q.sid # NoSid => q.sid \in Sids
  BY Zenon DEF Sids
<1>2. \A a, t : Brought(a, t) => Brought(a, t)'
  BY <1>1, Zenon DEF Brought
<1> QED BY <1>2, Zenon DEF Sound

LEMMA TlStep == TlInv /\ [TrafficNext]_tlVars => TlInv'
<1> SUFFICES ASSUME TlInv, [TrafficNext]_tlVars
             PROVE  TlInv'
  BY Zenon
<1>0. TlTypeOK /\ InFlightInv /\ AddressInv /\ RecordInv
  BY Zenon DEF TlInv
<1>a. ASSUME NEW h \in TlHandlers, tlReq[h].pc # "idle"
      PROVE  tlReq[h] \in [pc : {"tls", "http"}, q : TlRequests, ts : Nat, alone : BOOLEAN]
  BY <1>0, <1>a, Zenon DEF TlTypeOK, TlProgress
<1>1. ASSUME NEW h \in TlHandlers, RequestArrives(h) PROVE TlInv'
  <2>1. PICK q \in TlRequests :
          /\ tlReq' = [tlReq EXCEPT ![h] = [pc |-> "tls", q |-> q, ts |-> tlNow, alone |-> TRUE]]
          /\ tlCame' = [s \in Sids |-> IF s = q.sid THEN tlCame[s] \cup {q.hello} ELSE tlCame[s]]
    BY <1>1, Zenon DEF RequestArrives
  <2>2. UNCHANGED <<tlNow, tlByAddr, tlSessions, tlSeen>>
    BY <1>1, Zenon DEF RequestArrives
  <2>3. /\ \A s \in Sids : tlCame[s] \subseteq tlCame'[s]
        /\ q.sid # NoSid => q.sid \in Sids /\ q.hello \in tlCame'[q.sid]
    BY <2>1, Zenon DEF Sids
  <2>4. TlTypeOK'
    <3>1. \A s \in Sids : IsFiniteSet(tlCame'[s])
      BY <1>0, <2>1, FS_AddElement, Zenon DEF TlTypeOK
    <3>2. tlReq' \in [TlHandlers -> TlProgress]
      BY <1>0, <2>1, Zenon DEF TlTypeOK, TlProgress
    <3> QED BY <1>0, <2>1, <2>2, <3>1, <3>2, Zenon DEF TlTypeOK
  <2>5. InFlightInv'
    <3> SUFFICES ASSUME NEW g \in TlHandlers, tlReq'[g].pc # "idle"
                 PROVE  LET r == tlReq'[g]
                        IN  /\ r.q.sid # NoSid => r.q.hello \in tlCame'[r.q.sid]
                            /\ r.pc = "http" => r.q.sid # NoSid
                            /\ r.pc = "http" /\ r.alone /\ r.q.hello # NoHello /\ r.q.addr \in DOMAIN tlByAddr' =>
                                 tlByAddr'[r.q.addr].tls = r.q.hello
      BY Zenon DEF InFlightInv
    <3>1. CASE g = h
      BY <1>0, <2>1, <2>3, <3>1, Zenon DEF TlTypeOK
    <3>2. CASE g # h
      <4>1. tlReq'[g] = tlReq[g] /\ tlReq[g].q \in TlRequests
        BY <1>0, <1>a, <2>1, <3>2, Zenon DEF TlTypeOK
      <4>2. tlReq[g].q.sid # NoSid => tlReq[g].q.sid \in Sids
        BY <4>1, Zenon DEF Sids
      <4> QED BY <1>0, <2>2, <2>3, <4>1, <4>2, Zenon DEF InFlightInv
    <3> QED BY <3>1, <3>2, Zenon
  <2>6. AddressInv' /\ RecordInv'
    BY <1>0, <2>2, <2>3, TlCameKept, Zenon DEF AddressInv, RecordInv
  <2> QED BY <2>4, <2>5, <2>6, Zenon DEF TlInv
<1>2. ASSUME NEW h \in TlHandlers, HandshakeRecorded(h) PROVE TlInv'
  <2> DEFINE r == tlReq[h]
             new == IF r.q.sid = NoSid THEN TlIdle ELSE [r EXCEPT !.pc = "http"]
  <2>1. r.pc = "tls" /\ r \in [pc : {"tls", "http"}, q : TlRequests, ts : Nat, alone : BOOLEAN]
    BY <1>2, <1>a, Zenon DEF HandshakeRecorded, TlAt
  <2>2. UNCHANGED <<tlNow, tlSessions, tlSeen, tlCame>>
    BY <1>2, Zenon DEF HandshakeRecorded
  <2>3. new \in TlProgress /\ (new.pc # "idle" => new.pc = "http" /\ new.q = r.q /\ r.q.sid # NoSid)
    BY <2>1, Zenon DEF TlProgress, TlIdle
  <2>4. \A g \in TlHandlers :
          tlReq'[g] = IF g = h THEN new
                      ELSE IF r.q.hello # NoHello /\ TlAt(g, "http") /\ tlReq[g].q.addr = r.q.addr
                           THEN [tlReq[g] EXCEPT !.alone = FALSE] ELSE tlReq[g]
    BY <1>0, <1>2, Zenon DEF HandshakeRecorded, Overtaken, TlTypeOK
  <2>5. DOMAIN tlReq' = TlHandlers /\ tlReq' = [g \in TlHandlers |-> tlReq'[g]]
    BY <1>0, <1>2, Zenon DEF HandshakeRecorded, Overtaken, TlTypeOK
  <2>6. ASSUME NEW g \in TlHandlers, tlReq[g].pc = "http"
        PROVE  /\ [tlReq[g] EXCEPT !.alone = FALSE] \in TlProgress
               /\ LET x == [tlReq[g] EXCEPT !.alone = FALSE] IN x.pc = "http" /\ x.q = tlReq[g].q /\ ~x.alone
    <3>1. tlReq[g] \in [pc : {"tls", "http"}, q : TlRequests, ts : Nat, alone : BOOLEAN]
      BY <1>a, <2>6, Zenon
    <3>2. [tlReq[g] EXCEPT !.alone = FALSE] \in [pc : {"tls", "http"}, q : TlRequests, ts : Nat, alone : BOOLEAN]
      BY <3>1, Zenon
    <3>3. LET x == [tlReq[g] EXCEPT !.alone = FALSE] IN x.pc = "http" /\ x.q = tlReq[g].q /\ x.alone = FALSE
      BY <2>6, <3>1, Zenon
    <3> QED BY <3>2, <3>3, Zenon DEF TlProgress
  <2>7. \A a : a \in DOMAIN tlByAddr' =>
          \/ a \in DOMAIN tlByAddr /\ tlByAddr'[a] = tlByAddr[a] /\ (r.q.hello # NoHello => a # r.q.addr)
          \/ a = r.q.addr /\ r.q.hello # NoHello /\ tlByAddr'[a].tls = r.q.hello
    BY <1>2, Zenon DEF HandshakeRecorded, RecordTLS, With
  <2> HIDE DEF new
  <2>8. TlTypeOK'
    <3>1. \A g \in TlHandlers : tlReq'[g] \in TlProgress
      BY <1>0, <2>3, <2>4, <2>6, Zenon DEF TlTypeOK, TlAt
    <3> QED BY <1>0, <2>2, <2>5, <3>1, Zenon DEF TlTypeOK
  <2>9. InFlightInv'
    <3> SUFFICES ASSUME NEW g \in TlHandlers, tlReq'[g].pc # "idle"
                 PROVE  /\ tlReq'[g].q.sid # NoSid => tlReq'[g].q.hello \in tlCame'[tlReq'[g].q.sid]
                        /\ tlReq'[g].pc = "http" => tlReq'[g].q.sid # NoSid
                        /\ tlReq'[g].pc = "http" /\ tlReq'[g].alone /\ tlReq'[g].q.hello # NoHello /\ tlReq'[g].q.addr \in DOMAIN tlByAddr' =>
                             tlByAddr'[tlReq'[g].q.addr].tls = tlReq'[g].q.hello
      BY Zenon DEF InFlightInv
    <3>1. CASE g = h
      <4>1. tlReq'[g] = new
        BY <2>4, <3>1, Zenon
      <4>2. new.pc = "http" /\ new.q = r.q /\ r.q.sid # NoSid
        BY <2>3, <4>1, Zenon
      <4>3. r.q.hello \in tlCame'[r.q.sid]
        BY <1>0, <2>1, <2>2, <4>2, Zenon DEF InFlightInv
      <4>4. r.q.hello # NoHello /\ r.q.addr \in DOMAIN tlByAddr' => tlByAddr'[r.q.addr].tls = r.q.hello
        BY <2>7, Zenon
      <4> QED BY <4>1, <4>2, <4>3, <4>4, Zenon
    <3>2. CASE g # h /\ r.q.hello # NoHello /\ TlAt(g, "http") /\ tlReq[g].q.addr = r.q.addr
      <4>1. tlReq'[g].pc = "http" /\ tlReq'[g].q = tlReq[g].q /\ ~tlReq'[g].alone /\ tlReq[g].pc = "http"
        BY <2>4, <2>6, <3>2, Zenon DEF TlAt
      <4> QED BY <1>0, <2>2, <4>1, Zenon DEF InFlightInv
    <3>3. CASE g # h /\ ~(r.q.hello # NoHello /\ TlAt(g, "http") /\ tlReq[g].q.addr = r.q.addr)
      <4>1. tlReq'[g] = tlReq[g]
        BY <2>4, <3>3, Zenon
      <4> QED BY <1>0, <2>2, <2>7, <3>3, <4>1, ZenonT(30) DEF InFlightInv, TlAt
    <3> QED BY <3>1, <3>2, <3>3, Zenon
  <2>10. AddressInv'
    <3>1. r.q.hello # NoHello => Brought(r.q.addr, r.q.hello)
      BY <1>0, <2>1, Zenon DEF Brought, InFlightInv
    <3>2. \A a, t : Brought(a, t) => Brought(a, t)'
      BY <2>2, TlCameKept, Zenon
    <3> QED BY <1>0, <2>7, <3>1, <3>2, Zenon DEF AddressInv
  <2>11. RecordInv'
    BY <1>0, <2>2, TlCameKept, Zenon DEF RecordInv
  <2> QED BY <2>8, <2>9, <2>10, <2>11, Zenon DEF TlInv
<1>3. ASSUME NEW h \in TlHandlers, RequestRecorded(h) PROVE TlInv'
  <2> DEFINE r == tlReq[h]
             q == r.q
             rec == [tls |-> Attached(q.addr), ua |-> q.ua, subnet |-> q.subnet, proto |-> q.proto,
                     addr |-> q.addr, own |-> q.hello, alone |-> r.alone]
             ring == Appended(tlSessions[q.sid], rec)
  <2>1. r.pc = "http" /\ r \in [pc : {"tls", "http"}, q : TlRequests, ts : Nat, alone : BOOLEAN]
    BY <1>3, <1>a, Zenon DEF RequestRecorded, TlAt
  <2>2. q \in TlRequests /\ q.sid # NoSid /\ q.sid \in Sids
    BY <1>0, <2>1, Zenon DEF InFlightInv, Sids
  <2>3. UNCHANGED <<tlNow, tlByAddr, tlCame>>
    BY <1>3, Zenon DEF RequestRecorded
  <2>4. tlReq' = [tlReq EXCEPT ![h] = TlIdle] /\ tlSessions' = [tlSessions EXCEPT ![q.sid] = ring]
    BY <1>3, Zenon DEF RequestRecorded, RecordHTTP
  <2>5. Attached(q.addr) = NoHello \/ (q.addr \in DOMAIN tlByAddr /\ Attached(q.addr) = tlByAddr[q.addr].tls)
    BY Zenon DEF Attached
  <2>6. Attached(q.addr) \in TlHellos /\ (Attached(q.addr) = NoHello \/ Brought(q.addr, Attached(q.addr)))
    BY <1>0, <2>5 DEF AddressInv, Brought, TlHellos
  <2>7. rec \in TlRecords
    BY <2>1, <2>2, <2>6, Zenon DEF TlRecords, TlHellos
  <2>8. Sound(q.sid, rec)
    <3>1. r.alone /\ q.hello # NoHello => Attached(q.addr) \in {q.hello, NoHello}
      BY <1>0, <2>1, <2>5, Zenon DEF InFlightInv
    <3> QED BY <2>2, <2>6, <3>1, Zenon DEF Sound
  <2>9. tlSessions[q.sid] \in Seq(TlRecords)
    BY <1>0, <2>2, Zenon DEF TlTypeOK
  <2> HIDE DEF rec
  <2>10. /\ ring \in Seq(TlRecords)
         /\ \A i \in DOMAIN ring : ring[i] = rec \/ \E j \in DOMAIN tlSessions[q.sid] : ring[i] = tlSessions[q.sid][j]
    <3>1. ASSUME NEW recs \in Seq(TlRecords), NEW x \in TlRecords
          PROVE  /\ Appended(recs, x) \in Seq(TlRecords)
                 /\ \A i \in DOMAIN Appended(recs, x) :
                      Appended(recs, x)[i] = x \/ \E j \in DOMAIN recs : Appended(recs, x)[i] = recs[j]
      BY AppendedKeeps
    <3> QED BY <2>7, <2>9, <3>1, Zenon
  <2>11. \A i \in DOMAIN ring : Sound(q.sid, ring[i])
    BY <1>0, <2>2, <2>8, <2>10, Zenon DEF RecordInv
  <2> HIDE DEF ring
  <2>12. TlTypeOK'
    BY <1>0, <2>3, <2>4, <2>10, ZenonT(40) DEF TlTypeOK, TlProgress, TlIdle
  <2>13. InFlightInv'
    <3>1. \A g \in TlHandlers : tlReq'[g] = IF g = h THEN TlIdle ELSE tlReq[g]
      BY <1>0, <2>4, Zenon DEF TlTypeOK
    <3>2. ASSUME NEW g \in TlHandlers, tlReq'[g].pc # "idle" PROVE tlReq'[g] = tlReq[g]
      <4>1. TlIdle.pc = "idle"
        BY Zenon DEF TlIdle
      <4>2. g # h
        BY <3>1, <3>2, <4>1, Zenon
      <4> QED BY <3>1, <4>2, Zenon
    <3> QED BY <1>0, <2>3, <3>2, Zenon DEF InFlightInv
  <2>14. AddressInv'
    BY <1>0, <2>3, TlCameKept, Zenon DEF AddressInv
  <2>15. RecordInv'
    <3>1. \A s \in Sids : tlSessions'[s] = IF s = q.sid THEN ring ELSE tlSessions[s]
      BY <1>0, <2>4, Zenon DEF TlTypeOK
    <3>2. \A s, x : Sound(s, x) => Sound(s, x)'
      BY <2>3, TlCameKept, Zenon
    <3> QED BY <1>0, <2>11, <3>1, <3>2, Zenon DEF RecordInv
  <2> QED BY <2>12, <2>13, <2>14, <2>15, Zenon DEF TlInv
<1>4. ASSUME UNCHANGED <<tlReq, tlCame>>, tlNow' \in Nat,
             DOMAIN tlByAddr' \subseteq DOMAIN tlByAddr, \A a \in DOMAIN tlByAddr' : tlByAddr'[a] = tlByAddr[a],
             tlSessions' \in [Sids -> Seq(TlRecords)], \A s \in Sids : tlSessions'[s] \in {tlSessions[s], <<>>}
      PROVE  TlInv'
  <2>1. TlTypeOK'
    BY <1>0, <1>4, Zenon DEF TlTypeOK
  <2>2. InFlightInv'
    BY <1>0, <1>4, Zenon DEF InFlightInv
  <2>3. (\A a, t : Brought(a, t) => Brought(a, t)') /\ (\A s, x : Sound(s, x) => Sound(s, x)')
    BY <1>4, TlCameKept, Zenon
  <2>4. AddressInv'
    BY <1>0, <1>4, <2>3, ZenonT(30) DEF AddressInv
  <2>5. RecordInv'
    <3>1. DOMAIN <<>> = {}
      BY ONLY TRUE
    <3>2. ASSUME NEW s \in Sids, NEW i \in DOMAIN tlSessions'[s]
          PROVE  tlSessions'[s] = tlSessions[s]
      BY <1>4, <3>1, <3>2, Zenon
    <3> QED BY <1>0, <2>3, <3>2, Zenon DEF RecordInv
  <2> QED BY <2>1, <2>2, <2>4, <2>5, Zenon DEF TlInv
<1>b. <<>> \in Seq(TlRecords) /\ tlNow \in Nat /\ \A s \in Sids : tlSessions[s] \in Seq(TlRecords)
  BY <1>0 DEF TlTypeOK
<1>5. CASE TrafficGC
  <2> DEFINE idle == {s \in DOMAIN tlSeen : tlNow - tlSeen[s] > TlTTL}
  <2>1. /\ tlSessions' = [s \in Sids |-> IF s \in idle THEN <<>> ELSE tlSessions[s]]
        /\ tlByAddr' = Without(tlByAddr, {a \in DOMAIN tlByAddr : tlNow - tlByAddr[a].ts > TlTTL})
        /\ UNCHANGED <<tlNow, tlReq, tlCame>>
    BY <1>5, ZenonT(30) DEF TrafficGC
  <2> HIDE DEF idle
  <2> QED BY <1>4, <1>b, <2>1, Zenon DEF Without
<1>6. CASE TrafficReset
  BY <1>4, <1>6, <1>b, SMTT(30) DEF TrafficReset
<1>7. CASE TrafficTick
  BY <1>0, <1>4, <1>7 DEF TrafficTick, TlTypeOK
<1>8. CASE UNCHANGED tlVars
  BY <1>0, <1>4, <1>8, Zenon DEF tlVars, TlTypeOK
<1> QED BY <1>1, <1>2, <1>3, <1>5, <1>6, <1>7, <1>8, Zenon DEF TrafficNext

\* The values that the records of a session show are among those it came over.
LEMMA TlReal ==
  ASSUME TlInv, NEW s \in Sids, Unshared(s)
  PROVE  Real(s)
<1> DEFINE recs == tlSessions[s]
           engines == Values([i \in DOMAIN recs |-> recs[i].tls.engine])
           came == {t.engine : t \in tlCame[s]}
<1>1. SUFFICES ASSUME "l5.traffic.engine_rotation" \in Check(recs)
               PROVE  Cardinality(came \ {""}) > 1
  BY Zenon DEF Real
<1>2. Cardinality(engines) > 1
  BY <1>1, Zenon DEF Check
<1>3. engines \subseteq came \ {""}
  <2> SUFFICES ASSUME NEW i \in DOMAIN recs, recs[i].tls.engine # "" PROVE recs[i].tls.engine \in came
    BY ZenonT(30) DEF Values
  <2>1. Sound(s, recs[i]) /\ recs[i].tls # NoHello
    <3>1. NoHello.engine = ""
      BY Zenon DEF NoHello
    <3>2. recs[i].tls # NoHello
      BY <3>1, Zenon
    <3> QED BY <3>2, Zenon DEF TlInv, RecordInv
  <2>2. PICK q \in TlRequests : q.addr = recs[i].addr /\ q.hello = recs[i].tls /\ (q.sid # NoSid => recs[i].tls \in tlCame[q.sid])
    BY <2>1, Zenon DEF Sound, Brought
  <2>3. q.sid = s /\ s # NoSid
    BY <2>1, <2>2, Zenon DEF Sound, Unshared, Sids
  <2> QED BY <2>2, <2>3, Zenon
<1>4. IsFiniteSet(came \ {""})
  <2>1. IsFiniteSet(tlCame[s])
    BY Zenon DEF TlInv, TlTypeOK
  <2>2. [t \in tlCame[s] |-> t.engine] \in Surjection(tlCame[s], came)
    BY Zenon DEF Surjection
  <2>3. IsFiniteSet(came)
    BY <2>1, <2>2, FS_Surjection, Zenon
  <2> QED BY <2>3, FS_Subset, Zenon
<1>5. IsFiniteSet(engines) /\ Cardinality(engines) <= Cardinality(came \ {""})
  BY <1>3, <1>4, FS_Subset, Zenon
<1>6. Cardinality(engines) \in Nat /\ Cardinality(came \ {""}) \in Nat
  BY <1>4, <1>5, FS_CardinalityType, Zenon
<1> HIDE DEF engines, came
<1>7. \A a, b \in Nat : a > 1 /\ a <= b => b > 1
  BY SMTT(30)
<1> QED BY <1>2, <1>5, <1>6, <1>7, Zenon

\* However many requests are between the two halves of the middleware, and
\* whatever the ring, the sweep and resets drop: a record that nothing overtook
\* has its own handshake, and a session that shares no address is charged with no
\* rotation but its own.
THEOREM RotationObservedAlways == TrafficSpec => []RotationObserved
<1>1. TlInv => RotationObserved
  BY TlReal, Zenon DEF RotationObserved, TlInv, RecordInv, Sound
<1> QED BY <1>1, TlInitially, TlStep, PTL DEF TrafficSpec

-----------------------------------------------------------------------------
\* A set of naturals has a least element.
LEMMA LeastOf ==
  ASSUME NEW T, T \subseteq Nat, T # {}
  PROVE  \E m \in T : \A k \in T : m <= k
<1> DEFINE R == {ss \in Nat \X Nat : ss[1] < ss[2]}
<1>1. IsWellFoundedOn(R, Nat)
  BY NatLessThanWellFounded, Zenon DEF OpToRel
<1>2. \A x, y \in Nat : ~(<<y, x>> \in R) => x <= y
  <2> TAKE x, y \in Nat
  <2>1. y < x => <<y, x>> \in R
    BY Zenon
  <2> HIDE DEF R
  <2> QED BY <2>1
<1> HIDE DEF R
<1>3. PICK x \in T : \A y \in T : ~(<<y, x>> \in R)
  BY <1>1, WFMin, ZenonT(30)
<1> QED BY <1>2, <1>3, Zenon

(***************************************************************************)
(* Correlation: a reported fan-out happened.                               *)
(***************************************************************************)
\* The subnets and the sessions the fingerprint came with, the former since a time.
SubnetsSince(x) == {t.subnet : t \in {u \in coTrue : u.at >= x}}
AllSubnets == {t.subnet : t \in coTrue}
AllSessions == {t.session : t \in coTrue}
Horizon(at) == at - VelWindow - CoMaxLate

CoTypeOK ==
  /\ coNow \in Nat /\ IsFiniteSet(coTrue) /\ \A t \in coTrue : t.at \in Nat
  /\ DOMAIN coEntry = CoNodes

\* A caller's observation happened, its clock is not too late, and the rate it
\* carries was counted.
CallerInv ==
  \A q \in coReq :
    /\ q.node \in CoNodes /\ q.at \in Nat /\ q.at <= coNow /\ coNow - q.at <= CoMaxLate
    /\ \E t \in coTrue : t.subnet = q.subnet /\ t.at = q.at
    /\ q.pc = "lock" => [subnet |-> q.subnet, session |-> q.session, at |-> q.at] \in coTrue
    /\ q.pc = "fleet" => q.vel \in Nat /\ q.vel <= Cardinality(SubnetsSince(Horizon(q.at)))

\* Each arrival is that of a subnet of its own, and arrivals are as unordered as
\* the clocks of their callers are late.
Arrived(subnets, arrivals) ==
  /\ arrivals \in Seq(Nat)
  /\ \A i \in 1..Len(arrivals) : arrivals[i] <= coNow
  /\ \A i, j \in 1..Len(arrivals) : i < j => arrivals[i] - CoMaxLate <= arrivals[j]
  /\ \E f \in [1..Len(arrivals) -> subnets] :
       /\ \A i, j \in 1..Len(arrivals) : f[i] = f[j] => i = j
       /\ \A i \in 1..Len(arrivals) : \E t \in coTrue : t.subnet = f[i] /\ t.at = arrivals[i]

EntryInv ==
  \A node \in CoNodes : \A e \in coEntry[node] :
    e.subnets \subseteq AllSubnets /\ e.sessions \subseteq AllSessions /\ Arrived(e.subnets, e.arrivals)

\* The coordinator has one stamp per subnet, the time of an observation.
StampInv ==
  /\ \A z \in coZset.members : \E t \in coTrue : t.subnet = z.subnet /\ t.at = z.score
  /\ \A y, z \in coZset.members : y.subnet = z.subnet => y = z

CoInv == CoTypeOK /\ CallerInv /\ EntryInv /\ StampInv /\ FanoutReal

LEMMA CoInitially == CorrelationInit => CoInv
<1> SUFFICES ASSUME CorrelationInit PROVE CoInv
  BY Zenon
<1>1. coNow \in Nat
  BY DEF CorrelationInit
<1>2. CoTypeOK
  BY <1>1, FS_EmptySet, Zenon DEF CorrelationInit, CoTypeOK
<1>3. coReq = {} /\ coEmitted = {} /\ coZset.members = {} /\ \A n \in CoNodes : coEntry[n] = {}
  BY Zenon DEF CorrelationInit
<1>4. CallerInv /\ EntryInv
  BY <1>3, Zenon DEF CallerInv, EntryInv
<1>5. StampInv /\ FanoutReal
  BY <1>3, Zenon DEF StampInv, FanoutReal
<1> QED BY <1>2, <1>4, <1>5, Zenon DEF CoInv

\* The views of a finite set of observations.
LEMMA FiniteViews ==
  ASSUME NEW T, IsFiniteSet(T)
  PROVE  /\ IsFiniteSet({t.subnet : t \in T}) /\ IsFiniteSet({t.session : t \in T})
         /\ \A x : IsFiniteSet({t.subnet : t \in {u \in T : u.at >= x}})
<1> DEFINE subnets == {t.subnet : t \in T}
           sessions == {t.session : t \in T}
<1>1. [t \in T |-> t.subnet] \in Surjection(T, subnets)
  BY Zenon DEF Surjection
<1>2. [t \in T |-> t.session] \in Surjection(T, sessions)
  BY Zenon DEF Surjection
<1>3. IsFiniteSet(subnets)
  BY <1>1, FS_Surjection, Zenon
<1>4. IsFiniteSet(sessions)
  BY <1>2, FS_Surjection, Zenon
<1>5. \A x : {t.subnet : t \in {u \in T : u.at >= x}} \subseteq subnets
  BY Zenon
<1> QED BY <1>3, <1>4, <1>5, FS_Subset, Zenon

LEMMA CoFinite ==
  ASSUME CoTypeOK
  PROVE  /\ IsFiniteSet(AllSubnets) /\ IsFiniteSet(AllSessions)
         /\ \A x : IsFiniteSet(SubnetsSince(x)) /\ Cardinality(SubnetsSince(x)) \in Nat
<1>1. IsFiniteSet(coTrue)
  BY Zenon DEF CoTypeOK
<1>2. IsFiniteSet(AllSubnets) /\ IsFiniteSet(AllSessions) /\ \A x : IsFiniteSet(SubnetsSince(x))
  BY <1>1, FiniteViews, Zenon DEF AllSubnets, AllSessions, SubnetsSince
<1> QED BY <1>2, FS_CardinalityType, Zenon

\* What happened stays true, and later counts are no smaller.
LEMMA CoGrows ==
  ASSUME IsFiniteSet(coTrue'), coTrue \subseteq coTrue'
  PROVE  /\ AllSubnets \subseteq AllSubnets' /\ AllSessions \subseteq AllSessions'
         /\ \A x : Cardinality(SubnetsSince(x)) <= Cardinality(SubnetsSince(x)')
<1>1. AllSubnets \subseteq AllSubnets' /\ AllSessions \subseteq AllSessions'
  BY Zenon DEF AllSubnets, AllSessions
<1>2. \A x : SubnetsSince(x) \subseteq SubnetsSince(x)'
  BY Zenon DEF SubnetsSince
<1>3. \A x : IsFiniteSet(SubnetsSince(x)')
  BY FiniteViews, Zenon DEF SubnetsSince
<1> QED BY <1>1, <1>2, <1>3, FS_Subset, Zenon

\* A suffix of a sequence of numbers.
LEMMA SuffixOf ==
  ASSUME NEW s \in Seq(Nat), NEW k \in 1..Len(s)
  PROVE  /\ SubSeq(s, k, Len(s)) \in Seq(Nat) /\ Len(SubSeq(s, k, Len(s))) = Len(s) - k + 1
         /\ \A i \in 1..Len(s) - k + 1 : SubSeq(s, k, Len(s))[i] = s[k + i - 1]
<1>1. Len(SubSeq(s, k, Len(s))) = Len(s) - k + 1
  OBVIOUS
<1>2. \A i \in 1..Len(s) - k + 1 : SubSeq(s, k, Len(s))[i] = s[k + i - 1]
  OBVIOUS
<1>3. SubSeq(s, k, Len(s)) \in Seq(Nat)
  OBVIOUS
<1> QED BY <1>1, <1>2, <1>3, Zenon

\* What the entry keeps of its arrivals is still one per subnet, and recent.
LEMMA PrunedArrived ==
  ASSUME CoTypeOK, NEW subnets, NEW arrivals, Arrived(subnets, arrivals), NEW now \in Nat
  PROVE  /\ Arrived(subnets, Pruned(arrivals, now))
         /\ \A i \in 1..Len(Pruned(arrivals, now)) : Pruned(arrivals, now)[i] >= Horizon(now)
<1> DEFINE recent == {i \in DOMAIN arrivals : arrivals[i] >= now - VelWindow}
           n == Len(arrivals)
<1>0. /\ VelWindow \in Nat /\ CoMaxLate \in Nat
      /\ arrivals \in Seq(Nat) /\ n \in Nat /\ DOMAIN arrivals = 1..n /\ \A i \in 1..n : arrivals[i] \in Nat
  BY CorrelationAssumption, SMTT(30) DEF Arrived
<1>1. CASE recent = {}
  <2>1. Pruned(arrivals, now) = <<>>
    BY <1>1, Zenon DEF Pruned
  <2>2. Len(<<>>) = 0 /\ <<>> \in Seq(Nat) /\ 1..0 = {}
    OBVIOUS
  <2>3. [i \in 1..0 |-> 0] \in [1..0 -> subnets]
    BY <2>2, Zenon
  <2> QED BY <2>1, <2>2, <2>3, Zenon DEF Arrived
<1>2. CASE recent # {}
  <2> DEFINE k == CHOOSE i \in recent : \A j \in recent : i <= j
             kept == SubSeq(arrivals, k, n)
  <2>1. Pruned(arrivals, now) = kept
    BY <1>2, Zenon DEF Pruned
  <2>2. \E i \in recent : \A j \in recent : i <= j
    <3>1. recent \subseteq Nat
      BY <1>0
    <3> HIDE DEF recent
    <3> QED BY <1>2, <3>1, LeastOf, Zenon
  <2>3. k \in recent
    BY <2>2, Zenon
  <2> HIDE DEF k
  <2>4. k \in 1..n /\ arrivals[k] >= now - VelWindow /\ k \in Nat /\ k <= n
    BY <1>0, <2>3
  <2>5. /\ kept \in Seq(Nat) /\ Len(kept) = n - k + 1
        /\ \A i \in 1..n - k + 1 : kept[i] = arrivals[k + i - 1]
    BY <1>0, <2>4, SuffixOf, Zenon
  <2>6. \A i \in 1..n - k + 1 : k + i - 1 \in 1..n /\ i \in Nat
    BY <1>0, <2>4
  <2> HIDE DEF kept, recent, n
  <2>7. \A i \in 1..Len(kept) : kept[i] >= Horizon(now)
    <3> SUFFICES ASSUME NEW i \in 1..Len(kept) PROVE kept[i] >= Horizon(now)
      BY Zenon
    <3>1. kept[i] = arrivals[k + i - 1] /\ k + i - 1 \in 1..n /\ i \in 1..n - k + 1
      BY <2>5, <2>6, Zenon
    <3>2. CASE i = 1
      BY <1>0, <2>4, <3>1, <3>2, SMTT(30) DEF Horizon
    <3>3. CASE i # 1
      <4>1. k < k + i - 1
        BY <1>0, <2>4, <3>1, <3>3, SMTT(30)
      <4>2. arrivals[k] - CoMaxLate <= arrivals[k + i - 1]
        BY <1>0, <2>4, <3>1, <4>1, Zenon DEF Arrived, n
      <4>3. arrivals[k] \in Nat /\ arrivals[k + i - 1] \in Nat
        BY <1>0, <2>4, <3>1, Zenon
      <4> QED BY <1>0, <2>4, <3>1, <4>2, <4>3, SMTT(30) DEF Horizon
    <3> QED BY <3>2, <3>3, Zenon
  <2>8. Arrived(subnets, kept)
    <3>1. PICK f \in [1..n -> subnets] :
            /\ \A i, j \in 1..n : f[i] = f[j] => i = j
            /\ \A i \in 1..n : \E t \in coTrue : t.subnet = f[i] /\ t.at = arrivals[i]
      BY Zenon DEF Arrived, n
    <3> DEFINE g == [i \in 1..n - k + 1 |-> f[k + i - 1]]
    <3>2. g \in [1..Len(kept) -> subnets]
      <4>1. \A i \in 1..n - k + 1 : f[k + i - 1] \in subnets
        BY <2>6, Zenon
      <4> QED BY <2>5, <4>1, Zenon
    <3>3. \A i, j \in 1..Len(kept) : g[i] = g[j] => i = j
      <4> SUFFICES ASSUME NEW i \in 1..n - k + 1, NEW j \in 1..n - k + 1, f[k + i - 1] = f[k + j - 1] PROVE i = j
        BY <2>5, Zenon
      <4>1. k + i - 1 = k + j - 1
        BY <2>6, <3>1, Zenon
      <4> QED BY <2>4, <2>6, <4>1, SMTT(30)
    <3>4. \A i \in 1..Len(kept) : \E t \in coTrue : t.subnet = g[i] /\ t.at = kept[i]
      <4>1. \A i \in 1..n - k + 1 : g[i] = f[k + i - 1]
        BY Zenon
      <4> HIDE DEF g
      <4> SUFFICES ASSUME NEW i \in 1..n - k + 1 PROVE \E t \in coTrue : t.subnet = g[i] /\ t.at = kept[i]
        BY <2>5, Zenon
      <4>2. PICK t \in coTrue : t.subnet = f[k + i - 1] /\ t.at = arrivals[k + i - 1]
        BY <2>6, <3>1, Zenon
      <4> QED BY <2>5, <4>1, <4>2, Zenon
    <3>5. \A i \in 1..Len(kept) : kept[i] <= coNow
      BY <2>5, <2>6, Zenon DEF Arrived, n
    <3>6. \A i, j \in 1..Len(kept) : i < j => kept[i] - CoMaxLate <= kept[j]
      <4> SUFFICES ASSUME NEW i \in 1..n - k + 1, NEW j \in 1..n - k + 1, i < j PROVE kept[i] - CoMaxLate <= kept[j]
        BY <2>5, Zenon
      <4>1. k + i - 1 < k + j - 1
        BY <2>4, <2>6
      <4> QED BY <2>5, <2>6, <4>1, Zenon DEF Arrived, n
    <3> HIDE DEF g
    <3> QED BY <2>5, <3>2, <3>3, <3>4, <3>5, <3>6, Zenon DEF Arrived
  <2> QED BY <2>1, <2>7, <2>8, Zenon
<1> QED BY <1>1, <1>2, Zenon

\* A new subnet's arrival, and an old one's.
LEMMA ArrivedAlso ==
  ASSUME NEW subnets, NEW arrivals, Arrived(subnets, arrivals), NEW subnet
  PROVE  Arrived(subnets \cup {subnet}, arrivals)
<1> DEFINE n == Len(arrivals)
<1>1. PICK f \in [1..n -> subnets] :
        /\ \A i, j \in 1..n : f[i] = f[j] => i = j
        /\ \A i \in 1..n : \E t \in coTrue : t.subnet = f[i] /\ t.at = arrivals[i]
  BY Zenon DEF Arrived
<1>2. f \in [1..n -> subnets \cup {subnet}]
  BY Zenon
<1> QED BY <1>1, <1>2, Zenon DEF Arrived

LEMMA ArrivedNew ==
  ASSUME CoTypeOK, NEW subnets, NEW arrivals, Arrived(subnets, arrivals), NEW subnet, subnet \notin subnets,
         NEW at \in Nat, at <= coNow, coNow - at <= CoMaxLate, \E t \in coTrue : t.subnet = subnet /\ t.at = at
  PROVE  Arrived(subnets \cup {subnet}, Append(arrivals, at))
<1> DEFINE n == Len(arrivals)
           more == Append(arrivals, at)
<1>0. /\ coNow \in Nat /\ CoMaxLate \in Nat
      /\ arrivals \in Seq(Nat) /\ n \in Nat /\ \A i \in 1..n : arrivals[i] \in Nat
  <2>1. arrivals \in Seq(Nat)
    BY Zenon DEF Arrived
  <2>2. CoMaxLate \in Nat
    BY CorrelationAssumption, Zenon
  <2> QED BY <2>1, <2>2 DEF CoTypeOK
<1>1. PICK f \in [1..n -> subnets] :
        /\ \A i, j \in 1..n : f[i] = f[j] => i = j
        /\ \A i \in 1..n : \E t \in coTrue : t.subnet = f[i] /\ t.at = arrivals[i]
  BY Zenon DEF Arrived
<1> DEFINE g == [i \in 1..n + 1 |-> IF i = n + 1 THEN subnet ELSE f[i]]
<1>2. more \in Seq(Nat) /\ Len(more) = n + 1 /\ more[n + 1] = at /\ \A i \in 1..n : more[i] = arrivals[i]
  BY <1>0, SMTT(30)
<1>3. \A i \in 1..n + 1 : i \in 1..n \/ i = n + 1
  BY <1>0, SMTT(30)
<1>4. \A i \in 1..n : i # n + 1 /\ i \in 1..n + 1
  BY <1>0
<1> HIDE DEF more
<1>5. /\ \A i \in 1..n : g[i] = f[i] /\ g[i] \in subnets
      /\ g[n + 1] = subnet /\ g \in [1..n + 1 -> subnets \cup {subnet}]
  <2>1. n + 1 \in 1..n + 1
    BY <1>0
  <2> QED BY <1>3, <1>4, <2>1, Zenon
<1> HIDE DEF g
<1>6. \A i, j \in 1..n + 1 : g[i] = g[j] => i = j
  BY <1>1, <1>3, <1>5, Zenon
<1>7. ASSUME NEW i \in 1..n + 1 PROVE \E t \in coTrue : t.subnet = g[i] /\ t.at = more[i]
  <2>1. CASE i \in 1..n
    <3>1. g[i] = f[i] /\ more[i] = arrivals[i]
      BY <1>2, <1>5, <2>1, Zenon
    <3> QED BY <1>1, <2>1, <3>1, Zenon
  <2>2. CASE i = n + 1
    <3>1. g[i] = subnet /\ more[i] = at
      BY <1>2, <1>5, <2>2, Zenon
    <3> QED BY <3>1, Zenon
  <2> QED BY <1>3, <2>1, <2>2, Zenon
<1>8. \A i \in 1..n + 1 : more[i] <= coNow
  BY <1>2, <1>3, Zenon DEF Arrived
<1>9. \A i, j \in 1..n + 1 : i < j => more[i] - CoMaxLate <= more[j]
  <2> SUFFICES ASSUME NEW i \in 1..n + 1, NEW j \in 1..n + 1, i < j PROVE more[i] - CoMaxLate <= more[j]
    BY Zenon
  <2>1. i \in 1..n
    BY <1>0
  <2>2. CASE j \in 1..n
    BY <1>2, <2>1, <2>2, ZenonT(30) DEF Arrived
  <2>3. CASE j = n + 1
    <3>1. more[i] = arrivals[i] /\ arrivals[i] <= coNow /\ arrivals[i] \in Nat /\ more[j] = at
      BY <1>0, <1>2, <2>1, <2>3, Zenon DEF Arrived
    <3> QED BY <1>0, <3>1, SMTT(30)
  <2> QED BY <1>3, <2>2, <2>3, Zenon
<1>10. \E h \in [1..Len(more) -> subnets \cup {subnet}] :
         /\ \A i, j \in 1..Len(more) : h[i] = h[j] => i = j
         /\ \A i \in 1..Len(more) : \E t \in coTrue : t.subnet = h[i] /\ t.at = more[i]
  <2>1. \A i \in 1..n + 1 : \E t \in coTrue : t.subnet = g[i] /\ t.at = more[i]
    BY <1>7, Zenon
  <2>2. /\ g \in [1..Len(more) -> subnets \cup {subnet}]
        /\ \A i, j \in 1..Len(more) : g[i] = g[j] => i = j
        /\ \A i \in 1..Len(more) : \E t \in coTrue : t.subnet = g[i] /\ t.at = more[i]
    BY <1>2, <1>5, <1>6, <2>1, Zenon
  <2> QED BY <2>2, Zenon
<1>11. Arrived(subnets \cup {subnet}, more)
  BY <1>2, <1>8, <1>9, <1>10, Zenon DEF Arrived
<1> QED BY <1>11, Zenon DEF more

\* Recent arrivals are no more than the subnets seen since.
LEMMA ArrivalsCounted ==
  ASSUME CoTypeOK, NEW subnets, NEW arrivals, Arrived(subnets, arrivals), NEW x \in Int,
         \A i \in 1..Len(arrivals) : arrivals[i] >= x
  PROVE  Len(arrivals) \in Nat /\ Len(arrivals) <= Cardinality(SubnetsSince(x))
<1> DEFINE n == Len(arrivals)
<1>0. n \in Nat
  BY DEF Arrived
<1>1. PICK f \in [1..n -> subnets] :
        /\ \A i, j \in 1..n : f[i] = f[j] => i = j
        /\ \A i \in 1..n : \E t \in coTrue : t.subnet = f[i] /\ t.at = arrivals[i]
  BY Zenon DEF Arrived
<1>2. \A i \in 1..n : f[i] \in SubnetsSince(x)
  BY <1>1, Zenon DEF SubnetsSince
<1>3. f \in Injection(1..n, SubnetsSince(x))
  BY <1>1, <1>2, Zenon DEF Injection, IsInjective
<1>4. Cardinality(1..n) = n
  <2>1. Cardinality(1..n) = IF 1 > n THEN 0 ELSE n - 1 + 1
    BY <1>0, FS_Interval, SMTT(30)
  <2> QED BY <1>0, <2>1, SMTT(30)
<1>5. IsFiniteSet(SubnetsSince(x))
  BY CoFinite, Zenon
<1>6. Cardinality(1..n) <= Cardinality(SubnetsSince(x))
  BY <1>3, <1>5, FS_Injection, Zenon
<1> QED BY <1>0, <1>4, <1>6, Zenon

\* The rates a caller carries stay true.
LEMMA CoCallersKept ==
  ASSUME CoInv, CoTypeOK', coTrue \subseteq coTrue', NEW q \in coReq, coNow' >= coNow, coNow' - q.at <= CoMaxLate
  PROVE  /\ q.node \in CoNodes /\ q.at \in Nat /\ q.at <= coNow' /\ coNow' - q.at <= CoMaxLate
         /\ \E t \in coTrue' : t.subnet = q.subnet /\ t.at = q.at
         /\ q.pc = "lock" => [subnet |-> q.subnet, session |-> q.session, at |-> q.at] \in coTrue'
         /\ q.pc = "fleet" => q.vel \in Nat /\ q.vel <= Cardinality(SubnetsSince(Horizon(q.at))')
<1>1. /\ q.node \in CoNodes /\ q.at \in Nat /\ q.at <= coNow
      /\ \E t \in coTrue : t.subnet = q.subnet /\ t.at = q.at
      /\ q.pc = "lock" => [subnet |-> q.subnet, session |-> q.session, at |-> q.at] \in coTrue
      /\ q.pc = "fleet" => q.vel \in Nat /\ q.vel <= Cardinality(SubnetsSince(Horizon(q.at)))
  BY ZenonT(30) DEF CoInv, CallerInv
<1>2. q.at <= coNow'
  <2>1. q.at \in Nat /\ q.at <= coNow /\ coNow \in Nat /\ coNow' \in Nat /\ coNow' >= coNow
    BY <1>1, Zenon DEF CoInv, CoTypeOK
  <2> QED BY ONLY <2>1
<1>3. IsFiniteSet(coTrue') /\ IsFiniteSet(coTrue)
  BY Zenon DEF CoInv, CoTypeOK
<1>4. Cardinality(SubnetsSince(Horizon(q.at))) <= Cardinality(SubnetsSince(Horizon(q.at))')
  BY <1>3, CoGrows, Zenon DEF Horizon
<1>5. Cardinality(SubnetsSince(Horizon(q.at))) \in Nat /\ Cardinality(SubnetsSince(Horizon(q.at))') \in Nat
  <2>1. IsFiniteSet(SubnetsSince(Horizon(q.at))) /\ IsFiniteSet(SubnetsSince(Horizon(q.at))')
    BY <1>3, FiniteViews, Zenon DEF SubnetsSince, Horizon
  <2> QED BY <2>1, FS_CardinalityType, Zenon
<1>6. \A a, b, c \in Nat : a <= b /\ b <= c => a <= c
  OBVIOUS
<1> QED BY <1>1, <1>2, <1>4, <1>5, <1>6, Zenon

LEMMA CoEntriesKept ==
  ASSUME CoInv, coTrue \subseteq coTrue', coNow' \in Nat, coNow' >= coNow
  PROVE  /\ \A subnets, arrivals : Arrived(subnets, arrivals) => Arrived(subnets, arrivals)'
         /\ AllSubnets \subseteq AllSubnets' /\ AllSessions \subseteq AllSessions'
<1>1. ASSUME NEW subnets, NEW arrivals, Arrived(subnets, arrivals) PROVE Arrived(subnets, arrivals)'
  <2>1. /\ arrivals \in Seq(Nat) /\ \A i \in 1..Len(arrivals) : arrivals[i] <= coNow /\ arrivals[i] \in Nat
        /\ \A i, j \in 1..Len(arrivals) : i < j => arrivals[i] - CoMaxLate <= arrivals[j]
    BY <1>1 DEF Arrived
  <2>2. PICK f \in [1..Len(arrivals) -> subnets] :
          /\ \A i, j \in 1..Len(arrivals) : f[i] = f[j] => i = j
          /\ \A i \in 1..Len(arrivals) : \E t \in coTrue : t.subnet = f[i] /\ t.at = arrivals[i]
    BY <1>1, Zenon DEF Arrived
  <2>3. \A i \in 1..Len(arrivals) : \E t \in coTrue' : t.subnet = f[i] /\ t.at = arrivals[i]
    BY <2>2, Zenon
  <2>4. \A i \in 1..Len(arrivals) : arrivals[i] <= coNow'
    BY <2>1 DEF CoInv, CoTypeOK
  <2> QED BY <2>1, <2>2, <2>3, <2>4, ZenonT(30) DEF Arrived
<1> QED BY <1>1, Zenon DEF AllSubnets, AllSessions

\* Steps that emit nothing and only add observations or drop state.
LEMMA CoQuiet ==
  ASSUME CoInv, CoTypeOK', coTrue \subseteq coTrue', coNow' >= coNow, coEmitted' = {} \/ UNCHANGED <<coTrue, coEmitted>>,
         UNCHANGED coZset, \A n \in CoNodes : coEntry'[n] \subseteq coEntry[n],
         CallerInv'
  PROVE  CoInv'
<1>1. EntryInv'
  <2>1. \A subnets, arrivals : Arrived(subnets, arrivals) => Arrived(subnets, arrivals)'
    BY CoEntriesKept, Zenon DEF CoTypeOK
  <2>2. AllSubnets \subseteq AllSubnets' /\ AllSessions \subseteq AllSessions'
    BY CoEntriesKept, Zenon DEF CoTypeOK
  <2> QED BY <2>1, <2>2, Zenon DEF CoInv, EntryInv
<1>2. StampInv'
  BY Zenon DEF CoInv, StampInv
<1>3. FanoutReal'
  BY Zenon DEF CoInv, FanoutReal
<1> QED BY <1>1, <1>2, <1>3, Zenon DEF CoInv

\* A caller is answered: what it reports was counted.
LEMMA CoRates ==
  ASSUME CoInv, NEW q \in coReq, NEW new, NEW vel, Rated(q, new, vel), vel \in Nat,
         vel <= Cardinality(SubnetsSince(Horizon(q.at))), StampInv'
  PROVE  CoInv'
<1>1. /\ coReq' = coReq \ {q} /\ UNCHANGED <<coNow, coEntry, coTrue>>
      /\ coEmitted' \in {{}, {Emission("ip_velocity", vel, q.at)}}
  BY Zenon DEF Rated
<1>2. CoTypeOK' /\ CallerInv' /\ EntryInv'
  <2>1. CoTypeOK'
    BY <1>1, Zenon DEF CoInv, CoTypeOK
  <2>2. CallerInv'
    BY <1>1, Zenon DEF CoInv, CallerInv, SubnetsSince, Horizon
  <2>3. \A subnets, arrivals : Arrived(subnets, arrivals)' = Arrived(subnets, arrivals)
    BY <1>1, Zenon DEF Arrived
  <2>4. EntryInv'
    BY <1>1, <2>3, Zenon DEF CoInv, EntryInv, AllSubnets, AllSessions
  <2> QED BY <2>1, <2>2, <2>4, Zenon
<1>3. FanoutReal'
  <2>1. SubnetsSince(Horizon(q.at)) = {t.subnet : t \in {t \in coTrue' : t.at >= q.at - VelWindow - CoMaxLate}}
    BY <1>1, Zenon DEF SubnetsSince, Horizon
  <2>2. ASSUME NEW e \in coEmitted' PROVE e.id = "ip_velocity" /\ e.n = vel /\ e.at = q.at
    BY <1>1, <2>2 DEF Emission
  <2> QED BY <2>1, <2>2, Zenon DEF FanoutReal
<1> QED BY <1>2, <1>3, Zenon DEF CoInv

\* The absolute counts raise two signals, each with its own count.
LEMMA FanoutKinds ==
  ASSUME NEW subnets, NEW sessions, NEW now, NEW e \in Fanout(subnets, sessions, now)
  PROVE  \/ e.id = "proxy_rotation" /\ e.n = subnets
         \/ e.id = "shared_fingerprint" /\ e.n = sessions
<1>1. e \in {Emission("proxy_rotation", subnets, now), Emission("shared_fingerprint", sessions, now)}
  BY Zenon DEF Fanout
<1> QED BY <1>1 DEF Emission

LEMMA CoStep == CoInv /\ [CorrelationNext]_coVars => CoInv'
<1> SUFFICES ASSUME CoInv, [CorrelationNext]_coVars
             PROVE  CoInv'
  BY Zenon
<1>0. CoTypeOK /\ CallerInv /\ EntryInv /\ StampInv /\ FanoutReal
  BY Zenon DEF CoInv
<1>a. coNow \in Nat /\ CoMaxLate \in Nat /\ VelWindow \in Nat
  BY <1>0, CorrelationAssumption, Zenon DEF CoTypeOK
<1>1. CASE ObserveBegins
  <2>1. PICK node \in CoNodes, v \in CoVisitors :
          /\ coReq' = coReq \cup {[pc |-> "lock", node |-> node, subnet |-> v.subnet, session |-> v.session, at |-> coNow]}
          /\ coTrue' = coTrue \cup {[subnet |-> v.subnet, session |-> v.session, at |-> coNow]}
    BY <1>1, Zenon DEF ObserveBegins
  <2>2. UNCHANGED <<coNow, coEntry, coZset>> /\ coEmitted' = {}
    BY <1>1, Zenon DEF ObserveBegins
  <2> DEFINE q == [pc |-> "lock", node |-> node, subnet |-> v.subnet, session |-> v.session, at |-> coNow]
             t == [subnet |-> v.subnet, session |-> v.session, at |-> coNow]
  <2>3. CoTypeOK'
    <3>1. IsFiniteSet(coTrue')
      BY <1>0, <2>1, FS_AddElement, Zenon DEF CoTypeOK
    <3> QED BY <1>0, <2>1, <2>2, <3>1, SMTT(30) DEF CoTypeOK
  <2>4. CallerInv'
    <3>1. ASSUME NEW r \in coReq
          PROVE  /\ r.node \in CoNodes /\ r.at \in Nat /\ r.at <= coNow' /\ coNow' - r.at <= CoMaxLate
                 /\ \E u \in coTrue' : u.subnet = r.subnet /\ u.at = r.at
                 /\ r.pc = "lock" => [subnet |-> r.subnet, session |-> r.session, at |-> r.at] \in coTrue'
                 /\ r.pc = "fleet" => r.vel \in Nat /\ r.vel <= Cardinality(SubnetsSince(Horizon(r.at))')
      <4>1. coNow' >= coNow /\ coNow' - r.at <= CoMaxLate
        <5>1. coNow - r.at <= CoMaxLate /\ coNow' = coNow
          BY <1>0, <2>2, ZenonT(30) DEF CallerInv
        <5> QED BY <1>a, <5>1
      <4> QED BY <2>1, <2>3, <4>1, CoCallersKept, Zenon
    <3>2. /\ q.node \in CoNodes /\ q.at \in Nat /\ q.at <= coNow' /\ coNow' - q.at <= CoMaxLate /\ q.pc = "lock"
          /\ [subnet |-> q.subnet, session |-> q.session, at |-> q.at] \in coTrue'
      <4>1. coNow <= coNow /\ coNow - coNow <= CoMaxLate
        BY ONLY <1>a
      <4> QED BY <1>a, <2>1, <2>2, <4>1, Zenon
    <3>3. t \in coTrue' /\ t.subnet = q.subnet /\ t.at = q.at
      BY <2>1, Zenon
    <3>4. coReq' = coReq \cup {q}
      BY <2>1, Zenon
    <3> HIDE DEF q, t
    <3> QED BY <3>1, <3>2, <3>3, <3>4, Zenon DEF CallerInv, SubnetsSince, Horizon
  <2>5. coTrue \subseteq coTrue' /\ \A n \in CoNodes : coEntry'[n] \subseteq coEntry[n]
    BY <2>1, <2>2, Zenon
  <2>6. coNow' >= coNow
    BY <1>a, <2>2
  <2> QED BY <2>2, <2>3, <2>4, <2>5, <2>6, CoQuiet, Zenon
<1>2. ASSUME NEW q \in coReq, Observe(q) PROVE CoInv'
  <2> DEFINE old == EntryOf(q.node, q.at)
             new == Observed(old, q.subnet, q.session, q.at)
             r == [pc |-> "fleet", node |-> q.node, subnet |-> q.subnet, at |-> q.at,
                   new |-> q.subnet \notin old.subnets, vel |-> Len(new.arrivals)]
  <2>1. /\ q.pc = "lock" /\ coEntry' = [coEntry EXCEPT ![q.node] = {new}]
        /\ coEmitted' = Fanout(Cardinality(new.subnets), Cardinality(new.sessions), q.at)
        /\ coReq' = (coReq \ {q}) \cup {r}
        /\ UNCHANGED <<coNow, coZset, coTrue>>
    BY <1>2, Zenon DEF Observe
  <2>2. /\ q.node \in CoNodes /\ q.at \in Nat /\ q.at <= coNow /\ coNow - q.at <= CoMaxLate
        /\ [subnet |-> q.subnet, session |-> q.session, at |-> q.at] \in coTrue
        /\ \E t \in coTrue : t.subnet = q.subnet /\ t.at = q.at
    BY <1>0, <2>1, Zenon DEF CallerInv
  <2>3. q.subnet \in AllSubnets /\ q.session \in AllSessions
    <3> DEFINE t == [subnet |-> q.subnet, session |-> q.session, at |-> q.at]
    <3>1. t \in coTrue /\ t.subnet = q.subnet /\ t.session = q.session
      BY <2>2, Zenon
    <3> HIDE DEF t
    <3> QED BY <3>1, Zenon DEF AllSubnets, AllSessions
  <2>4. old.subnets \subseteq AllSubnets /\ old.sessions \subseteq AllSessions /\ Arrived(old.subnets, old.arrivals)
    <3>1. CASE coEntry[q.node] = {}
      <4>1. old.subnets = {} /\ old.sessions = {} /\ old.arrivals = <<>>
        BY <3>1, Zenon DEF EntryOf
      <4>2. <<>> \in Seq(Nat) /\ Len(<<>>) = 0 /\ 1..0 = {}
        OBVIOUS
      <4>3. [i \in 1..0 |-> 0] \in [1..0 -> {}]
        BY <4>2, Zenon
      <4>4. Arrived({}, <<>>)
        BY <4>2, <4>3, Zenon DEF Arrived
      <4> QED BY <4>1, <4>4, Zenon
    <3>2. CASE coEntry[q.node] # {}
      <4>1. old \in coEntry[q.node]
        BY <3>2, Zenon DEF EntryOf
      <4> QED BY <1>0, <2>2, <4>1, Zenon DEF EntryInv
    <3> QED BY <3>1, <3>2, Zenon
  <2> HIDE DEF old
  <2> DEFINE more == IF q.subnet \in old.subnets \/ Len(old.arrivals) >= VelRingCap THEN old.arrivals ELSE Append(old.arrivals, q.at)
  <2>5. Arrived(old.subnets \cup {q.subnet}, more)
    <3>1. CASE q.subnet \in old.subnets \/ Len(old.arrivals) >= VelRingCap
      BY <2>4, <3>1, ArrivedAlso, Zenon
    <3>2. CASE ~(q.subnet \in old.subnets \/ Len(old.arrivals) >= VelRingCap)
      BY <1>0, <2>2, <2>4, <3>2, ArrivedNew, Zenon
    <3> QED BY <3>1, <3>2, Zenon
  <2>6. /\ new.subnets = old.subnets \cup {q.subnet} /\ new.sessions = old.sessions \cup {q.session}
        /\ new.arrivals = Pruned(more, q.at)
    BY Zenon DEF Observed
  <2> HIDE DEF more, new
  <2>7. /\ Arrived(new.subnets, new.arrivals)
        /\ \A i \in 1..Len(new.arrivals) : new.arrivals[i] >= Horizon(q.at)
    <3>1. /\ Arrived(old.subnets \cup {q.subnet}, Pruned(more, q.at))
          /\ \A i \in 1..Len(Pruned(more, q.at)) : Pruned(more, q.at)[i] >= Horizon(q.at)
      BY <1>0, <2>2, <2>5, PrunedArrived, Zenon
    <3> QED BY <2>6, <3>1, Zenon
  <2>8. Len(new.arrivals) \in Nat /\ Len(new.arrivals) <= Cardinality(SubnetsSince(Horizon(q.at)))
    <3>1. Horizon(q.at) \in Int
      BY <1>a, <2>2 DEF Horizon
    <3> QED BY <1>0, <2>7, <3>1, ArrivalsCounted, Zenon
  <2>9. r.node = q.node /\ r.at = q.at /\ r.pc = "fleet" /\ r.subnet = q.subnet /\ r.vel = Len(new.arrivals)
    BY Zenon
  <2> HIDE DEF r
  <2>10. CoTypeOK'
    BY <1>0, <2>1, Zenon DEF CoTypeOK
  <2>11. CallerInv'
    BY <1>0, <2>1, <2>2, <2>8, <2>9, ZenonT(30) DEF CallerInv, SubnetsSince, Horizon
  <2>12. EntryInv'
    <3>1. \A subnets, arrivals : Arrived(subnets, arrivals)' = Arrived(subnets, arrivals)
      BY <2>1, ZenonT(30) DEF Arrived
    <3>2. AllSubnets' = AllSubnets /\ AllSessions' = AllSessions
      BY <2>1, Zenon DEF AllSubnets, AllSessions
    <3>3. new.subnets \subseteq AllSubnets /\ new.sessions \subseteq AllSessions
      BY <2>3, <2>4, <2>6, Zenon
    <3>4. ASSUME NEW node \in CoNodes, NEW e \in coEntry'[node]
          PROVE  e = new \/ e \in coEntry[node]
      BY <1>0, <2>1, <3>4, Zenon DEF CoTypeOK
    <3>5. ASSUME NEW node \in CoNodes, NEW e \in coEntry'[node]
          PROVE  e.subnets \subseteq AllSubnets /\ e.sessions \subseteq AllSessions /\ Arrived(e.subnets, e.arrivals)
      BY <1>0, <2>7, <3>3, <3>4, Zenon DEF EntryInv
    <3> QED BY <3>1, <3>2, <3>5, Zenon DEF EntryInv
  <2>13. StampInv'
    BY <1>0, <2>1, Zenon DEF StampInv
  <2>14. FanoutReal'
    <3>1. Cardinality(new.subnets) <= Cardinality(AllSubnets) /\ Cardinality(new.sessions) <= Cardinality(AllSessions)
      BY <1>0, <2>3, <2>4, <2>6, CoFinite, FS_Subset, ZenonT(30)
    <3>2. ASSUME NEW e \in coEmitted'
          PROVE  \/ e.id = "proxy_rotation" /\ e.n = Cardinality(new.subnets)
                 \/ e.id = "shared_fingerprint" /\ e.n = Cardinality(new.sessions)
      BY <2>1, <3>2, FanoutKinds, Zenon
    <3>3. AllSubnets = {t.subnet : t \in {t \in coTrue' : TRUE}} /\ AllSessions = {t.session : t \in {t \in coTrue' : TRUE}}
      BY <2>1, Zenon DEF AllSubnets, AllSessions
    <3> QED BY <3>1, <3>2, <3>3, Zenon DEF FanoutReal
  <2> QED BY <2>10, <2>11, <2>12, <2>13, <2>14, Zenon DEF CoInv
<1>3. ASSUME NEW q \in coReq, FleetFallback(q) PROVE CoInv'
  <2>1. q.vel \in Nat /\ q.vel <= Cardinality(SubnetsSince(Horizon(q.at)))
    BY <1>0, <1>3, Zenon DEF FleetFallback, CallerInv
  <2>2. StampInv'
    BY <1>0, <1>3, Zenon DEF FleetFallback, Rated, StampInv
  <2> QED BY <1>3, <2>1, <2>2, CoRates, Zenon DEF FleetFallback
<1>4. ASSUME NEW q \in coReq, observeFleet(q) PROVE CoInv'
  <2> DEFINE added == q.subnet \notin Live(coSet)
             stamp == [subnet |-> q.subnet, score |-> q.at]
             stamped == IF added THEN {z \in Live(coZset) : z.subnet # q.subnet} \cup {stamp} ELSE Live(coZset)
             kept == WindowOf(stamped, q.at)
  <2>1. coZset' = [members |-> kept, until |-> coNow + CoTTL] /\ Rated(q, added, Cardinality(kept)) /\ coTrue' = coTrue
    BY <1>4, Zenon DEF observeFleet, Rated
  <2>2. Live(coZset) \subseteq coZset.members
    BY Zenon DEF Live
  <2>3. q.at \in Nat /\ \E t \in coTrue : t.subnet = q.subnet /\ t.at = q.at
    BY <1>0, Zenon DEF CallerInv
  <2>4. stamp.subnet = q.subnet /\ stamp.score = q.at
    BY Zenon
  <2> HIDE DEF stamp
  <2>5. /\ \A z \in stamped : \E t \in coTrue : t.subnet = z.subnet /\ t.at = z.score
        /\ \A y, z \in stamped : y.subnet = z.subnet => y = z
    BY <1>0, <2>2, <2>3, <2>4, Zenon DEF StampInv
  <2>6. \A z \in kept : z \in stamped /\ z.score > q.at - VelWindow
    BY Zenon DEF WindowOf
  <2> HIDE DEF kept, stamped, added
  <2>7. StampInv'
    BY <2>1, <2>5, <2>6, Zenon DEF StampInv
  <2>8. ASSUME NEW z \in kept PROVE z.subnet \in SubnetsSince(Horizon(q.at))
    <3>1. PICK t \in coTrue : t.subnet = z.subnet /\ t.at = z.score
      BY <2>5, <2>6, Zenon
    <3>2. t.at \in Nat /\ t.at > q.at - VelWindow
      BY <1>0, <2>6, <3>1, Zenon DEF CoTypeOK
    <3>3. t.at >= Horizon(q.at)
      BY <1>a, <2>3, <3>2, SMTT(30) DEF Horizon
    <3> QED BY <3>1, <3>3, Zenon DEF SubnetsSince
  <2>9. [z \in kept |-> z.subnet] \in Injection(kept, SubnetsSince(Horizon(q.at)))
    BY <2>5, <2>6, <2>8, Zenon DEF Injection, IsInjective
  <2>10. IsFiniteSet(SubnetsSince(Horizon(q.at)))
    BY <1>0, CoFinite, Zenon
  <2>11. IsFiniteSet(kept) /\ Cardinality(kept) <= Cardinality(SubnetsSince(Horizon(q.at)))
    BY <2>9, <2>10, FS_Injection, Zenon
  <2>12. Cardinality(kept) \in Nat
    BY <2>11, FS_CardinalityType, Zenon
  <2> QED BY <2>1, <2>7, <2>11, <2>12, CoRates, Zenon
<1>5. ASSUME NEW n \in CoNodes, CorrelationGC(n) \/ CorrelationReset(n) PROVE CoInv'
  <2>1. /\ UNCHANGED <<coNow, coZset, coReq, coTrue>> /\ coEmitted' = {}
        /\ DOMAIN coEntry' = CoNodes /\ \A m \in CoNodes : coEntry'[m] \subseteq coEntry[m]
    BY <1>0, <1>5, Zenon DEF CorrelationGC, CorrelationReset, CoTypeOK
  <2>2. CoTypeOK' /\ CallerInv'
    BY <1>0, <2>1, Zenon DEF CoTypeOK, CallerInv, SubnetsSince, Horizon
  <2>3. coNow >= coNow
    BY ONLY <1>a
  <2>4. coNow' >= coNow /\ coTrue \subseteq coTrue'
    BY <2>1, <2>3, Zenon
  <2> QED BY <2>1, <2>2, <2>4, CoQuiet, Zenon
<1>6. CASE CorrelationTick
  <2>1. /\ coNow' = coNow + 1 /\ UNCHANGED <<coEntry, coZset, coReq, coTrue>> /\ coEmitted' = {}
        /\ \A q \in coReq : coNow - q.at < CoMaxLate
    BY <1>6, Zenon DEF CorrelationTick
  <2>2. CoTypeOK'
    BY <1>0, <2>1 DEF CoTypeOK
  <2>3. CallerInv'
    <3>1. \A q \in coReq : q.at \in Nat /\ q.at <= coNow
      BY <1>0, Zenon DEF CallerInv
    <3>2. \A q \in coReq : q.at <= coNow' /\ coNow' - q.at <= CoMaxLate
      BY <1>a, <2>1, <3>1, SMTT(30)
    <3> QED BY <1>0, <2>1, <3>2, Zenon DEF CallerInv, SubnetsSince, Horizon
  <2> QED BY <1>a, <2>1, <2>2, <2>3, CoQuiet, SMTT(30)
<1>7. CASE UNCHANGED coVars
  <2>1. UNCHANGED <<coNow, coEntry, coZset, coReq, coTrue, coEmitted>>
    BY <1>7, Zenon DEF coVars
  <2>2. CoTypeOK' /\ CallerInv'
    BY <1>0, <2>1, Zenon DEF CoTypeOK, CallerInv, SubnetsSince, Horizon
  <2> QED BY <1>a, <2>1, <2>2, CoQuiet, SMTT(30)
<1> QED
  BY <1>1, <1>2, <1>3, <1>4, <1>5, <1>6, <1>7, ZenonT(30) DEF CorrelationNext

\* Whatever the nodes, the windows and the number of callers between their clock,
\* the lock and the coordinator's script: no count of subnets or sessions that is
\* reported exceeds those there were, nor a rate those of its window.
THEOREM FanoutRealAlways == CorrelationSpec => []FanoutReal
<1>1. CoInv => FanoutReal
  BY Zenon DEF CoInv
<1> QED BY <1>1, CoInitially, CoStep, PTL DEF CorrelationSpec

=============================================================================
