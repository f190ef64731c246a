--------------------------- MODULE CheckWaitProofs ---------------------------
(***************************************************************************)
(* Theorems about CheckWait, for any checks, times and number of pushes.   *)
(***************************************************************************)
EXTENDS CheckWait, TLAPS

USE RequiredChecks, PollPositive, TimesNat, DeadlinesNat

(***************************************************************************)
(* Types.                                                                  *)
(***************************************************************************)

LEMMA BucketType == \A state \in CheckState \ {"absent"} : Bucket(state) \in BucketNames
  BY DEF CheckState, Bucket, BucketNames

LEMMA AnswerType ==
  ASSUME TypeOK, NEW asked \in SUBSET Checks
  PROVE  {Bucket(github[c]) : c \in Shown(asked)} \in SUBSET BucketNames
  <1>1. \A c \in Shown(asked) : github[c] \in CheckState \ {"absent"}
    BY DEF TypeOK, Shown
  <1> QED
    BY <1>1, BucketType

LEMMA WakeUpType ==
  ASSUME TypeOK
  PROVE  /\ WakeUp \in Nat
         /\ WakeUp <= deadline
         /\ WakeUp <= Timeout
  BY DEF TypeOK, WakeUp, Least

LEMMA TypeStep ==
  ASSUME TypeOK, [Next]_vars
  PROVE  TypeOK'
<1> USE DEF TypeOK
<1>1. CASE Look /\ UNCHANGED envVars
  BY <1>1 DEF Look, envVars
<1>2. CASE AskRequired /\ UNCHANGED envVars
  <2>1. buckets' \in SUBSET BucketNames
    BY <1>2, AnswerType DEF AskRequired, Answer
  <2>2. pc' = "decide" /\ required' => buckets' # {}
    BY <1>2 DEF AskRequired, Answer
  <2>3. now' \in Nat
    BY <1>2 DEF AskRequired, Answer
  <2>4. pc' \in {"decide", "all"} /\ required' \in BOOLEAN
    BY <1>2 DEF AskRequired
  <2> QED
    BY <1>2, <2>1, <2>2, <2>3, <2>4 DEF AskRequired, Answer, envVars
<1>3. CASE AskAll /\ UNCHANGED envVars
  <2>1. buckets' \in SUBSET BucketNames
    BY <1>3, AnswerType DEF AskAll, Answer
  <2>2. now' \in Nat
    BY <1>3 DEF AskAll, Answer
  <2> QED
    BY <1>3, <2>1, <2>2 DEF AskAll, Answer, envVars
<1>4. CASE RateLimited /\ UNCHANGED envVars
  BY <1>4 DEF RateLimited, Least, waitVars, envVars
<1>5. CASE QueryFails /\ UNCHANGED envVars
  BY <1>5 DEF QueryFails, Return, envVars
<1>6. CASE CutOff /\ UNCHANGED envVars
  BY <1>6 DEF CutOff, Return, envVars
<1>7. CASE Green /\ UNCHANGED envVars
  BY <1>7 DEF Green, Return, envVars
<1>8. CASE Red /\ UNCHANGED envVars
  BY <1>8 DEF Red, Return, envVars
<1>9. CASE NextPoll /\ UNCHANGED envVars
  BY <1>9, WakeUpType DEF NextPoll, Return, envVars
<1>10. CASE RequiredShow
  BY <1>10 DEF RequiredShow, waitVars, CheckState
<1>11. CASE HeadMoves
  <2>1. github' \in [Checks -> CheckState]
    BY <1>11 DEF HeadMoves, CheckState
  <2>2. inTime' \in BOOLEAN
    BY <1>11, Zenon DEF HeadMoves
  <2>3. pushes' = pushes + 1 /\ UNCHANGED <<now, deadline, waitVars>>
    BY <1>11, Zenon DEF HeadMoves
  <2> QED
    BY <2>1, <2>2, <2>3 DEF waitVars
<1>12. CASE \E c \in Checks : OptionalShow(c) \/ Finish(c) \/ Rerun(c)
  <2>1. PICK c \in Checks : OptionalShow(c) \/ Finish(c) \/ Rerun(c)
    BY <1>12
  <2>2. github' \in [Checks -> CheckState]
    BY <2>1 DEF OptionalShow, Finish, Rerun, CheckState
  <2> QED
    BY <2>1, <2>2 DEF OptionalShow, Finish, Rerun, waitVars
<1>13. CASE UNCHANGED vars
  BY <1>13 DEF vars, waitVars, envVars
<1> QED
  BY <1>1, <1>2, <1>3, <1>4, <1>5, <1>6, <1>7, <1>8, <1>9, <1>10, <1>11, <1>12, <1>13
     DEF Next, WaitStep, EnvStep

LEMMA TypeInit == Init => TypeOK
<1> SUFFICES ASSUME Init PROVE TypeOK
  OBVIOUS
<1>1. github \in [Checks -> CheckState]
  BY DEF Init, CheckState
<1>2. inTime \in BOOLEAN
  BY Zenon DEF Init
<1> QED
  BY <1>1, <1>2 DEF Init, TypeOK

\* Types hold; an answer about required checks is never an empty one.
THEOREM TypeCorrect == Spec => []TypeOK
<1> QED
  BY TypeInit, TypeStep, PTL DEF Spec

(***************************************************************************)
(* Times.                                                                  *)
(***************************************************************************)
LEMMA TimesStep ==
  ASSUME TypeOK, TimesKept, [Next]_vars
  PROVE  TimesKept'
<1> USE DEF TimesKept, TypeOK
<1>1. CASE Look /\ UNCHANGED envVars
  BY <1>1 DEF Look
<1>2. CASE AskRequired \/ AskAll
  BY <1>2 DEF AskRequired, AskAll, Answer
<1>3. CASE RateLimited
  BY <1>3 DEF RateLimited, Least, waitVars
<1>4. CASE QueryFails \/ CutOff \/ Green \/ Red
  BY <1>4 DEF QueryFails, CutOff, Green, Red, Return
<1>5. CASE NextPoll
  BY <1>5, WakeUpType DEF NextPoll, Return
<1>6. CASE EnvStep \/ UNCHANGED vars
  BY <1>6 DEF EnvStep, RequiredShow, HeadMoves, OptionalShow, Finish, Rerun, vars, waitVars
<1> QED
  BY <1>1, <1>2, <1>3, <1>4, <1>5, <1>6 DEF Next, WaitStep

LEMMA TimesInit == Init => TimesKept
  BY DEF Init, TimesKept

\* The wait stays within the deadline, and no poll starts after the timeout.
THEOREM WaitBounded == Spec => []TimesKept
<1> QED
  BY TypeInit, TypeStep, TimesInit, TimesStep, PTL DEF Spec

(***************************************************************************)
(* What a green result rests on.                                           *)
(***************************************************************************)

\* The checks of the last query.
Asked == IF required THEN Required ELSE Checks

\* The answer in hand is the snapshot's.
AnswerInv ==
  pc = "decide" => buckets = {Bucket(snap[c]) : c \in {d \in Asked : snap[d] # "absent"}}

\* Required checks are reported all at once, and those reported in time are there.
ReportInv ==
  /\ (\A c \in Required : github[c] = "absent") \/ (\A c \in Required : github[c] # "absent")
  /\ inTime => \A c \in Required : github[c] # "absent"

\* An answer with required checks has them all; one without, that comes after the
\* grace window, missed none that was in time.
WindowInv ==
  pc = "decide" =>
    /\ required => \A c \in Required : snap[c] # "absent"
    /\ ~required /\ inTime /\ now >= Grace => \A c \in Required : snap[c] # "absent"

ResultInv == /\ outcome = "green" => pc = "done"
             /\ GreenHonest
             /\ RequiredAwaited

GreenInv == AnswerInv /\ ReportInv /\ WindowInv /\ ResultInv

LEMMA GreenInit == Init => GreenInv
  BY DEF Init, GreenInv, AnswerInv, ReportInv, WindowInv, ResultInv, GreenHonest, RequiredAwaited

\* A snapshot whose buckets are all green shows only fine checks.
LEMMA GreenBuckets ==
  ASSUME TypeOK, AnswerInv, pc = "decide", AllGreen, NEW c \in Asked, snap[c] # "absent"
  PROVE  snap[c] \in Fine
  <1>1. c \in Checks
    BY DEF Asked
  <1>2. Bucket(snap[c]) \in buckets
    BY DEF AnswerInv
  <1>3. Bucket(snap[c]) \in {"pass", "skipping"}
    BY <1>2 DEF AllGreen
  <1>4. snap[c] \in CheckState
    BY <1>1 DEF TypeOK
  <1> QED
    BY <1>3, <1>4 DEF Bucket, CheckState, Fine

LEMMA GreenStep ==
  ASSUME TypeOK, GreenInv, [Next]_vars
  PROVE  GreenInv'
<1> USE DEF TypeOK
<1>1. CASE Look /\ UNCHANGED envVars
  BY <1>1 DEF Look, envVars, GreenInv, AnswerInv, ReportInv, WindowInv, ResultInv,
              GreenHonest, RequiredAwaited
<1>2. CASE AskRequired /\ UNCHANGED envVars
  <2>1. AnswerInv'
    BY <1>2 DEF AskRequired, Answer, AnswerInv, Asked, Shown
  <2>2. ReportInv'
    BY <1>2 DEF envVars, GreenInv, ReportInv
  <2>3. WindowInv'
    BY <1>2 DEF AskRequired, Answer, Shown, GreenInv, ReportInv, WindowInv
  <2>4. ResultInv'
    BY <1>2 DEF AskRequired, Answer, GreenInv, ResultInv, GreenHonest, RequiredAwaited
  <2> QED
    BY <2>1, <2>2, <2>3, <2>4 DEF GreenInv
<1>3. CASE AskAll /\ UNCHANGED envVars
  <2>0. ~required'
    BY <1>3 DEF AskAll
  <2>1. AnswerInv'
    BY <1>3, <2>0 DEF AskAll, Answer, AnswerInv, Asked, Shown
  <2>2. ReportInv'
    BY <1>3 DEF envVars, GreenInv, ReportInv
  <2>3. WindowInv'
    BY <1>3, <2>0 DEF AskAll, Answer, envVars, GreenInv, ReportInv, WindowInv
  <2>4. ResultInv'
    BY <1>3 DEF AskAll, Answer, GreenInv, ResultInv, GreenHonest, RequiredAwaited
  <2> QED
    BY <2>1, <2>2, <2>3, <2>4 DEF GreenInv
<1>4. CASE RateLimited /\ UNCHANGED envVars
  BY <1>4 DEF RateLimited, waitVars, envVars, GreenInv, AnswerInv, Asked, ReportInv, WindowInv,
              ResultInv, GreenHonest, RequiredAwaited
<1>5. CASE (QueryFails \/ CutOff \/ Red) /\ UNCHANGED envVars
  BY <1>5 DEF QueryFails, CutOff, Red, Return, envVars, GreenInv, AnswerInv, ReportInv,
              WindowInv, ResultInv, GreenHonest, RequiredAwaited
<1>6. CASE Green /\ UNCHANGED envVars
  <2>1. pc = "decide" /\ AllGreen /\ AnswerInv
    BY <1>6 DEF Green, GreenNow, GreenInv
  <2>2. \A c \in Asked : snap[c] \in Fine \cup {"absent"}
    BY <2>1, GreenBuckets
  <2>3. GreenHonest'
    BY <1>6, <2>2 DEF Green, Return, GreenHonest, Asked
  <2>4. RequiredAwaited'
    <3> SUFFICES ASSUME inTime, NEW c \in Required
                 PROVE  snap[c] \in Fine
      BY <1>6 DEF Green, Return, envVars, RequiredAwaited
    <3>1. snap[c] # "absent"
      BY <1>6, <2>1 DEF Green, GreenNow, GreenInv, WindowInv
    <3>2. c \in Asked
      BY DEF Asked
    <3> QED
      BY <2>2, <3>1, <3>2
  <2> QED
    BY <1>6, <2>3, <2>4 DEF Green, Return, envVars, GreenInv, AnswerInv, ReportInv, WindowInv,
                            ResultInv
<1>7. CASE NextPoll /\ UNCHANGED envVars
  BY <1>7 DEF NextPoll, Return, envVars, GreenInv, AnswerInv, ReportInv, WindowInv, ResultInv,
              GreenHonest, RequiredAwaited
<1>8. CASE EnvStep
  <2>1. pc # "done" /\ UNCHANGED <<now, deadline, waitVars>>
    BY <1>8 DEF EnvStep, RequiredShow, HeadMoves, OptionalShow, Finish, Rerun
  <2>2. AnswerInv' /\ ResultInv'
    BY <2>1 DEF waitVars, GreenInv, AnswerInv, Asked, ResultInv, GreenHonest, RequiredAwaited
  <2>3. CASE RequiredShow
    <3>0. inTime' => now + MaxQuery < Grace
      BY <2>3, Zenon DEF RequiredShow
    <3>1. inTime' => now < Grace
      BY <3>0
    <3>2. WindowInv'
      BY <2>1, <3>1 DEF waitVars, GreenInv, WindowInv
    <3>3. ReportInv'
      BY <2>3 DEF RequiredShow, ReportInv
    <3> QED
      BY <2>2, <3>2, <3>3 DEF GreenInv
  <2>4. CASE HeadMoves
    BY <2>1, <2>2, <2>4 DEF HeadMoves, waitVars, GreenInv, WindowInv, ReportInv
  <2>5. CASE \E c \in Checks : OptionalShow(c) \/ Finish(c) \/ Rerun(c)
    <3>1. PICK c \in Checks : OptionalShow(c) \/ Finish(c) \/ Rerun(c)
      BY <2>5
    <3>2. inTime' = inTime
      BY <3>1 DEF OptionalShow, Finish, Rerun
    <3>3. \A d \in Required : github'[d] = "absent" <=> github[d] = "absent"
      BY <3>1 DEF OptionalShow, Finish, Rerun, CheckState
    <3>4. ReportInv' /\ WindowInv'
      BY <2>1, <3>2, <3>3 DEF waitVars, GreenInv, WindowInv, ReportInv
    <3> QED
      BY <2>2, <3>4 DEF GreenInv
  <2> QED
    BY <1>8, <2>3, <2>4, <2>5 DEF EnvStep
<1>9. CASE UNCHANGED vars
  BY <1>9 DEF vars, waitVars, envVars, GreenInv, AnswerInv, Asked, ReportInv, WindowInv,
              ResultInv, GreenHonest, RequiredAwaited
<1> QED
  BY <1>1, <1>2, <1>3, <1>4, <1>5, <1>6, <1>7, <1>8, <1>9 DEF Next, WaitStep

LEMMA GreenAlways == Spec => []GreenInv
<1> QED
  BY TypeInit, TypeStep, GreenInit, GreenStep, PTL DEF Spec

\* Green is only returned on an answer with nothing pending or failing in it.
THEOREM GreensHonest == Spec => []GreenHonest
<1>1. GreenInv => GreenHonest
  BY DEF GreenInv, ResultInv
<1> QED
  BY <1>1, GreenAlways, PTL

\* Required checks reported in time are waited for, wherever the pushes, the two
\* queries and the limits of the waiting fall.
THEOREM RequiredChecksAwaited == Spec => []RequiredAwaited
<1>1. GreenInv => RequiredAwaited
  BY DEF GreenInv, ResultInv
<1> QED
  BY <1>1, GreenAlways, PTL
===============================================================================
