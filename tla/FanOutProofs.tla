----------------------------- MODULE FanOutProofs -----------------------------
(***************************************************************************)
(* Theorems about FanOut, for any PRs, processes, backoffs and bounds.     *)
(***************************************************************************)
EXTENDS FanOut, TLAPS

USE NoneNot, BackoffsOrdered, TimesNat, BoundsNat

\* What a pass still has to visit is there to be visited.
TodoInv ==
  /\ pc = "list" => cooling = {} /\ \A pr \in PRs : children[pr] = None
  /\ pc = "spawn" => cooling = {} /\ \A pr \in todo : children[pr] = None
  /\ pc = "sweep" => \A pr \in todo : children[pr] # None
  /\ pc = "respawn" => todo \subseteq cooling

\* The pending backoff covers what the exits call for, and is no more but in a ramp.
OwedInv == \A pr \in PRs : /\ owed[pr] <= backoff[pr]
                           /\ failing[pr] \/ backoff[pr] <= owed[pr]
                           /\ pr \in cooling => backoff[pr] > 0

Inv == TypeOK /\ TodoInv /\ NoneUntold

(***************************************************************************)
(* Operators.                                                              *)
(***************************************************************************)
LEMMA GoneType == Gone \in ProcType /\ Gone.state = "gone"
  BY DEF Gone, ProcType, Codes

LEMMA NewType ==
  ASSUME NEW pr \in PRs
  PROVE  Started(pr) \in ProcType /\ Started(pr).pr = pr /\ Started(pr).state = "starting"
  BY DEF Started, ProcType, Codes

LEMMA ToldType ==
  ASSUME TypeOK, NEW p \in Procs
  PROVE  /\ Told(p) \in ProcType
         /\ Told(p).pr = proc[p].pr /\ Told(p).state = proc[p].state
         /\ Told(p).code = proc[p].code
         /\ p \in Tracked \/ proc[p].told => Told(p).told
  <1>1. proc[p] \in ProcType
    BY DEF TypeOK
  <1> QED
    BY <1>1 DEF Told, ProcType

\* Only the children are tracked, and each by its own PR.
LEMMA TrackedFact ==
  ASSUME TypeOK, NEW p \in Procs
  PROVE  /\ p \in Tracked <=> \E pr \in PRs : children[pr] = p
         /\ p \in Tracked => proc[p].state # "gone" /\ proc[p].pr \in PRs
                             /\ children[proc[p].pr] = p
  BY DEF TypeOK, Tracked

LEMMA BackoffType ==
  ASSUME TypeOK, NEW pr \in PRs, NEW p \in Procs
  PROVE  /\ BackoffAfter(pr, p) \in 0..EnvBackoff
         /\ Owed(pr, p) \in 0..EnvBackoff
         /\ OwedInv => Owed(pr, p) <= BackoffAfter(pr, p)
         /\ BackoffAfter(pr, p) > 0
         /\ ShortFailure(p) \/ BackoffAfter(pr, p) <= Owed(pr, p)
         /\ RespawnBackoff \in 0..EnvBackoff
  <1>1. backoff[pr] \in 0..EnvBackoff /\ owed[pr] \in 0..EnvBackoff
    BY DEF TypeOK
  <1>2. Prior(pr) \in Nat /\ backoff[pr] <= Prior(pr)
    BY <1>1 DEF Prior
  <1>3. OwedInv => owed[pr] <= Prior(pr)
    BY <1>1, <1>2 DEF OwedInv
  <1> QED
    BY <1>1, <1>2, <1>3 DEF BackoffAfter, Owed, Least, Greatest

(***************************************************************************)
(* The invariant.                                                          *)
(***************************************************************************)
LEMMA InvInit == Init => Inv
<1> SUFFICES ASSUME Init PROVE Inv
  OBVIOUS
<1>1. \A p \in Procs : proc[p] = Gone
  BY DEF Init
<1>2. TypeOK
  <2>1. /\ proc \in [Procs -> ProcType]
        /\ children \in [PRs -> Procs \cup {None}] /\ \A pr \in PRs : children[pr] = None
        /\ age \in [PRs -> 0..EnvBackoff] /\ backoff \in [PRs -> 0..EnvBackoff]
        /\ owed \in [PRs -> 0..EnvBackoff] /\ failing \in [PRs -> BOOLEAN]
    BY GoneType DEF Init, NoChildren
  <2>2. pc = "list" /\ todo = {} /\ cooling = {} /\ open \in SUBSET PRs /\ reloads \in Nat
    BY DEF Init
  <2>3. shutting \in BOOLEAN /\ reload \in BOOLEAN
    BY Zenon DEF Init
  <2> QED
    BY <2>1, <2>2, <2>3 DEF TypeOK, PcLabels
<1>3. TodoInv
  BY DEF Init, TodoInv, NoChildren
<1>4. NoneUntold
  BY <1>1, GoneType DEF NoneUntold, Alive
<1> QED
  BY <1>2, <1>3, <1>4 DEF Inv

\* Steps that only move the supervisor or GitHub.
LEMMA QuietStep ==
  ASSUME Inv, UNCHANGED <<children, proc, backoff, histVars>>,
         pc' \in PcLabels, todo' \in SUBSET PRs, cooling' = cooling,
         age' \in [PRs -> 0..EnvBackoff], shutting' \in BOOLEAN, reload' \in BOOLEAN,
         open' \in SUBSET PRs, reloads' \in Nat,
         TodoInv'
  PROVE  Inv'
  BY DEF Inv, TypeOK, NoneUntold, Tracked, Alive, histVars

LEMMA ListStep == ASSUME Inv, List \/ ListFails PROVE Inv'
<1>1. pc' \in PcLabels /\ todo' \in SUBSET PRs /\ pc' # "list" /\ pc' # "sweep" /\ pc' # "respawn"
  BY DEF List, ListFails, PcLabels, Inv, TypeOK
<1>2. UNCHANGED <<children, cooling, age, backoff, shutting, reload, proc, envVars, histVars>>
  BY DEF List, ListFails
<1>3. TodoInv'
  <2>1. cooling' = {} /\ \A pr \in PRs : children'[pr] = None
    BY <1>2 DEF List, ListFails, Inv, TodoInv
  <2> QED
    BY <1>1, <2>1 DEF TodoInv
<1> QED
  BY <1>1, <1>2, <1>3, QuietStep DEF Inv, TypeOK, envVars

LEMMA MoveStep ==
  ASSUME Inv, SpawnFails \/ Stop \/ SweepDone \/ RespawnDone \/ StopWaits
  PROVE  Inv'
<1>1. pc' \in PcLabels /\ todo' \in SUBSET PRs
  BY DEF SpawnFails, Stop, SweepDone, RespawnDone, StopWaits, PcLabels, Inv, TypeOK
<1>2. UNCHANGED <<children, cooling, age, backoff, shutting, reload, proc, envVars, histVars>>
  BY DEF SpawnFails, Stop, SweepDone, RespawnDone, StopWaits
<1>3. TodoInv'
  BY <1>2 DEF SpawnFails, Stop, SweepDone, RespawnDone, StopWaits, TodoInv
<1> QED
  BY <1>1, <1>2, <1>3, QuietStep DEF Inv, TypeOK, envVars

LEMMA VisitStep ==
  ASSUME Inv, NEW pr \in PRs, Leave(pr) \/ CoolStill(pr)
  PROVE  Inv'
<1>1. /\ todo' = todo \ {pr}
      /\ UNCHANGED <<pc, children, cooling, age, backoff, shutting, reload, proc, envVars, histVars>>
  BY DEF Leave, CoolStill, Visited
<1>2. TodoInv'
  BY <1>1 DEF TodoInv, Inv
<1> QED
  BY <1>1, <1>2, QuietStep DEF Inv, TypeOK, envVars

LEMMA EnvStep ==
  ASSUME Inv, RequestShutdown \/ RequestReload \/ \E pr \in PRs : OpenOrClose(pr)
  PROVE  Inv'
<1>1. UNCHANGED <<pc, todo, children, cooling, age, backoff, proc, histVars>>
  BY DEF RequestShutdown, RequestReload, OpenOrClose, supVars
<1>2. /\ shutting' \in BOOLEAN /\ reload' \in BOOLEAN
      /\ open' \in SUBSET PRs /\ reloads' \in Nat
  <2>1. CASE RequestShutdown
    <3>1. shutting' \in BOOLEAN
      BY <2>1, Zenon DEF RequestShutdown
    <3> QED
      BY <2>1, <3>1 DEF RequestShutdown, envVars, Inv, TypeOK
  <2>2. CASE RequestReload
    <3>1. shutting' \in BOOLEAN /\ reload' \in BOOLEAN
      BY <2>2, Zenon DEF RequestReload
    <3> QED
      BY <2>2, <3>1 DEF RequestReload, Inv, TypeOK
  <2>3. CASE \E pr \in PRs : OpenOrClose(pr)
    BY <2>3 DEF OpenOrClose, supVars, Inv, TypeOK
  <2> QED
    BY <2>1, <2>2, <2>3
<1>3. TodoInv'
  BY <1>1 DEF TodoInv, Inv
<1> QED
  BY <1>1, <1>2, <1>3, QuietStep DEF Inv, TypeOK

\* One process changes and stays its PR's.
LEMMA ProcStep ==
  ASSUME Inv, NEW p \in Procs, NEW new \in ProcType,
         proc' = [proc EXCEPT ![p] = new],
         UNCHANGED <<supVars, envVars, histVars>>,
         p \in Tracked => new.pr = proc[p].pr /\ new.state # "gone",
         Alive(p)' => p \in Tracked \/ new.told
  PROVE  Inv'
<1> USE DEF Inv, supVars, envVars, histVars
<1>1. proc' \in [Procs -> ProcType] /\ proc'[p] = new /\ \A q \in Procs \ {p} : proc'[q] = proc[q]
  BY DEF TypeOK
<1>2. Tracked' = Tracked
  BY DEF Tracked
<1>3. \A pr \in PRs : children[pr] # None =>
         proc'[children[pr]].pr = pr /\ proc'[children[pr]].state # "gone"
  <2> SUFFICES ASSUME NEW pr \in PRs, children[pr] # None
               PROVE  proc'[children[pr]].pr = pr /\ proc'[children[pr]].state # "gone"
    OBVIOUS
  <2>1. children[pr] \in Procs /\ proc[children[pr]].pr = pr /\ proc[children[pr]].state # "gone"
    BY DEF TypeOK
  <2>2. CASE children[pr] = p
    <3>1. p \in Tracked
      BY <2>1, <2>2, TrackedFact
    <3> QED
      BY <1>1, <2>1, <2>2, <3>1
  <2> QED
    BY <1>1, <2>1, <2>2
<1>4. TypeOK'
  BY <1>1, <1>3 DEF TypeOK
<1>5. TodoInv'
  BY DEF TodoInv
<1>6. NoneUntold'
  BY <1>1, <1>2 DEF NoneUntold, Alive
<1> QED
  BY <1>4, <1>5, <1>6

LEMMA ExitsStep ==
  ASSUME Inv, NEW p \in Procs, NEW c \in Codes, Exits(p, c), Alive(p),
         UNCHANGED <<supVars, envVars, histVars>>
  PROVE  Inv'
<1>1. proc[p] \in ProcType
  BY DEF Inv, TypeOK
<1>2. CASE p \in Tracked
  <2> DEFINE new == [proc[p] EXCEPT !.state = "exited", !.code = c]
  <2>1. new \in ProcType /\ new.pr = proc[p].pr /\ new.state = "exited"
    BY <1>1 DEF ProcType
  <2>2. proc' = [proc EXCEPT ![p] = new]
    BY <1>2 DEF Exits
  <2> HIDE DEF new
  <2> QED
    BY <1>2, <2>1, <2>2, ProcStep
<1>3. CASE p \notin Tracked
  <2>1. proc' = [proc EXCEPT ![p] = Gone]
    BY <1>3 DEF Exits
  <2>2. ~Alive(p)'
    BY <2>1, GoneType DEF Alive, Inv, TypeOK
  <2> QED
    BY <1>3, <2>1, <2>2, GoneType, ProcStep
<1> QED
  BY <1>2, <1>3

LEMMA EndStep == ASSUME Inv, NEW p \in Procs, End(p) PROVE Inv'
<1>1. PICK c \in Codes : Exits(p, c)
  BY DEF End, Codes
<1> QED
  BY <1>1, ExitsStep DEF End

LEMMA LockStep == ASSUME Inv, NEW p \in Procs, TakeLock(p) PROVE Inv'
<1>1. proc[p] \in ProcType /\ Alive(p)
  BY DEF Inv, TypeOK, TakeLock, Alive
<1>2. CASE LockBusy(p)
  <2>1. Exits(p, "64") /\ "64" \in Codes
    BY <1>2 DEF TakeLock, Codes
  <2> QED
    BY <1>1, <2>1, ExitsStep DEF TakeLock
<1>3. CASE ~LockBusy(p)
  <2> DEFINE new == [proc[p] EXCEPT !.state = "running"]
  <2>1. new \in ProcType /\ new.pr = proc[p].pr /\ new.state = "running" /\ new.told = proc[p].told
    BY <1>1 DEF ProcType
  <2>2. proc' = [proc EXCEPT ![p] = new]
    BY <1>3 DEF TakeLock
  <2>3. p \in Tracked \/ new.told
    BY <1>1, <2>1 DEF Inv, NoneUntold
  <2> HIDE DEF new
  <2> QED
    BY <2>1, <2>2, <2>3, ProcStep DEF TakeLock
<1> QED
  BY <1>2, <1>3

LEMMA SpawnStep ==
  ASSUME Inv, NEW pr \in PRs, children[pr] = None, Spawn(pr),
         todo' = todo \ {pr}, cooling' = cooling \ {pr},
         \/ pc = "spawn" /\ pc' \in {"spawn", "wait"}
         \/ pc = "respawn" /\ pc' = pc,
         UNCHANGED <<age, backoff, shutting, reload, envVars, histVars>>
  PROVE  Inv'
<1> USE DEF Inv
<1> DEFINE new == Started(pr)
<1>1. PICK p \in Procs : /\ proc[p].state = "gone"
                         /\ children' = [children EXCEPT ![pr] = p]
                         /\ proc' = [proc EXCEPT ![p] = new]
  <2>1. PICK r \in Procs : proc[r].state = "gone"
    BY DEF Spawn
  <2> DEFINE free == {x \in Procs : proc[x].state = "gone"}
  <2>2. (CHOOSE x \in free : TRUE) \in free
    BY <2>1
  <2> QED
    BY <2>2 DEF Spawn
<1>2. new \in ProcType /\ new.pr = pr /\ new.state = "starting"
  BY NewType
<1> HIDE DEF new
<1>3. /\ children' \in [PRs -> Procs \cup {None}] /\ children'[pr] = p
      /\ \A other \in PRs \ {pr} : children'[other] = children[other]
  BY <1>1 DEF TypeOK
<1>4. /\ proc' \in [Procs -> ProcType] /\ proc'[p] = new
      /\ \A q \in Procs \ {p} : proc'[q] = proc[q]
  BY <1>1, <1>2 DEF TypeOK
<1>5. \A other \in PRs : children[other] # p
  BY <1>1 DEF TypeOK
<1>6. TypeOK'
  <2>1. \A other \in PRs : children'[other] # None =>
           proc'[children'[other]].pr = other /\ proc'[children'[other]].state # "gone"
    <3> SUFFICES ASSUME NEW other \in PRs, children'[other] # None
                 PROVE  proc'[children'[other]].pr = other /\ proc'[children'[other]].state # "gone"
      OBVIOUS
    <3>1. CASE other = pr
      BY <1>2, <1>3, <1>4, <3>1
    <3>2. CASE other # pr
      BY <1>3, <1>4, <1>5, <3>2 DEF TypeOK
    <3> QED
      BY <3>1, <3>2
  <2>2. \A other \in cooling' : children'[other] = None
    BY <1>3 DEF TypeOK
  <2>3. /\ pc' \in PcLabels /\ todo' \in SUBSET PRs /\ cooling' \in SUBSET PRs
        /\ open' \in SUBSET PRs /\ reloads' \in Nat
    BY DEF TypeOK, PcLabels, envVars
  <2> QED
    BY <1>3, <1>4, <2>1, <2>2, <2>3 DEF TypeOK, histVars
<1>7. TodoInv'
  BY <1>3 DEF TodoInv, TypeOK
<1>8. NoneUntold'
  <2> SUFFICES ASSUME NEW q \in Procs, Alive(q)'
               PROVE  q \in Tracked' \/ proc'[q].told
    BY DEF NoneUntold
  <2>1. CASE q = p
    BY <1>1, <1>3, <2>1 DEF Tracked, TypeOK
  <2>2. CASE q # p
    <3>1. Alive(q) /\ proc'[q] = proc[q]
      BY <1>4, <2>2 DEF Alive
    <3>2. q \in Tracked => q \in Tracked'
      <4> SUFFICES ASSUME NEW other \in PRs, children[other] = q
                   PROVE  q \in Tracked'
        BY TrackedFact
      <4>1. children'[other] = q
        BY <1>3
      <4> QED
        BY <4>1 DEF Tracked
    <3> QED
      BY <3>1, <3>2 DEF NoneUntold
  <2> QED
    BY <2>1, <2>2
<1> QED
  BY <1>6, <1>7, <1>8

LEMMA LaunchStep == ASSUME Inv, NEW pr \in PRs, Launch(pr) PROVE Inv'
<1>1. children[pr] = None /\ cooling = {}
  BY DEF Launch, Inv, TodoInv
<1>2. cooling' = cooling \ {pr}
  BY <1>1 DEF Launch
<1> QED
  BY <1>1, <1>2, SpawnStep DEF Launch

LEMMA RespawnStep == ASSUME Inv, NEW pr \in PRs, Respawn(pr) PROVE Inv'
<1>1. children[pr] = None
  BY DEF Respawn, Inv, TodoInv, TypeOK
<1> QED
  BY <1>1, SpawnStep DEF Respawn, Visited

LEMMA WaitStep == ASSUME Inv, Wait PROVE Inv'
<1> USE DEF Inv
<1>1. PICK d \in 1..MaxWait :
        /\ age' = [pr \in PRs |-> IF pr \in cooling THEN Least(age[pr] + d, EnvBackoff) ELSE 0]
        /\ proc' = [p \in Procs |->
                     IF p \in Tracked /\ Alive(p)
                     THEN [proc[p] EXCEPT !.life = Least(@ + d, ShortLife)] ELSE proc[p]]
  BY DEF Wait
<1>2. age' \in [PRs -> 0..EnvBackoff]
  <2>1. \A pr \in PRs : age[pr] \in Nat /\ d \in Nat
    BY DEF TypeOK
  <2>2. \A pr \in PRs : Least(age[pr] + d, EnvBackoff) \in 0..EnvBackoff
    BY <2>1 DEF Least
  <2> QED
    BY <1>1, <2>2
<1>3. \A p \in Procs : /\ proc'[p] \in ProcType
                       /\ proc'[p].pr = proc[p].pr /\ proc'[p].state = proc[p].state
                       /\ proc'[p].told = proc[p].told
  <2> SUFFICES ASSUME NEW p \in Procs
               PROVE  /\ proc'[p] \in ProcType
                      /\ proc'[p].pr = proc[p].pr /\ proc'[p].state = proc[p].state
                      /\ proc'[p].told = proc[p].told
    OBVIOUS
  <2>1. proc[p] \in ProcType
    BY DEF TypeOK
  <2>2. CASE p \in Tracked /\ Alive(p)
    <3>1. proc'[p] = [proc[p] EXCEPT !.life = Least(proc[p].life + d, ShortLife)]
      BY <1>1, <2>2
    <3>2. Least(proc[p].life + d, ShortLife) \in 0..ShortLife
      BY <2>1 DEF ProcType, Least
    <3> QED
      BY <2>1, <3>1, <3>2 DEF ProcType
  <2>3. CASE ~(p \in Tracked /\ Alive(p))
    BY <1>1, <2>1, <2>3
  <2> QED
    BY <2>2, <2>3
<1>4. /\ pc' = "sweep" /\ todo' = {pr \in PRs : children[pr] # None}
      /\ UNCHANGED <<children, cooling, backoff, shutting, reload, envVars, histVars>>
  BY DEF Wait
<1>5. proc' \in [Procs -> ProcType]
  <2>1. proc' = [p \in Procs |-> proc'[p]]
    BY <1>1
  <2> QED
    BY <1>3, <2>1
<1>6. TypeOK'
  <2>1. \A pr \in PRs : children'[pr] # None =>
           proc'[children'[pr]].pr = pr /\ proc'[children'[pr]].state # "gone"
    BY <1>3, <1>4 DEF TypeOK
  <2> QED
    BY <1>2, <1>4, <1>5, <2>1 DEF TypeOK, PcLabels, envVars, histVars
<1>7. TodoInv'
  BY <1>4 DEF TodoInv
<1>8. NoneUntold'
  BY <1>3, <1>4 DEF NoneUntold, Alive, Tracked
<1> QED
  BY <1>6, <1>7, <1>8

\* A child that is visited in a sweep is forgotten, dead or told.
LEMMA CoolStep ==
  ASSUME Inv, NEW pr \in PRs, NEW wait \in 0..EnvBackoff, NEW new \in ProcType,
         pc = "sweep", pr \in todo, Cool(pr, wait), Visited(pr),
         proc' = [proc EXCEPT ![children[pr]] = new],
         new.state \in {"starting", "running"} => new.told,
         owed' \in [PRs -> 0..EnvBackoff], failing' \in [PRs -> BOOLEAN]
  PROVE  Inv'
<1> USE DEF Inv
<1> DEFINE p == children[pr]
<1>1. p \in Procs /\ proc[p].pr = pr
  BY DEF TypeOK, TodoInv
<1>2. /\ children' \in [PRs -> Procs \cup {None}] /\ children'[pr] = None
      /\ \A other \in PRs \ {pr} : children'[other] = children[other]
  BY DEF Cool, TypeOK
<1>3. /\ proc' \in [Procs -> ProcType] /\ proc'[p] = new
      /\ \A q \in Procs \ {p} : proc'[q] = proc[q]
  BY <1>1 DEF TypeOK
<1>4. /\ age' \in [PRs -> 0..EnvBackoff] /\ backoff' \in [PRs -> 0..EnvBackoff]
      /\ cooling' = cooling \cup {pr} /\ todo' = todo \ {pr}
      /\ UNCHANGED <<pc, shutting, reload, open, reloads>>
  BY DEF Cool, Visited, envVars, TypeOK
<1>5. TypeOK'
  <2>1. \A other \in PRs : children'[other] # None =>
           proc'[children'[other]].pr = other /\ proc'[children'[other]].state # "gone"
    <3> SUFFICES ASSUME NEW other \in PRs, children'[other] # None
                 PROVE  proc'[children'[other]].pr = other /\ proc'[children'[other]].state # "gone"
      OBVIOUS
    <3>1. other # pr /\ children'[other] = children[other]
      BY <1>2
    <3>2. children[other] \in Procs /\ proc[children[other]].pr = other
          /\ proc[children[other]].state # "gone"
      BY <3>1 DEF TypeOK
    <3>3. children[other] # p
      BY <1>1, <3>1, <3>2
    <3> QED
      BY <1>3, <3>1, <3>2, <3>3
  <2>2. \A other \in cooling' : children'[other] = None
    BY <1>2, <1>4 DEF TypeOK
  <2> QED
    BY <1>2, <1>3, <1>4, <2>1, <2>2 DEF TypeOK
<1>6. TodoInv'
  BY <1>2, <1>4 DEF TodoInv, TypeOK
<1>7. NoneUntold'
  <2> SUFFICES ASSUME NEW q \in Procs, Alive(q)'
               PROVE  q \in Tracked' \/ proc'[q].told
    BY DEF NoneUntold
  <2>1. CASE q = p
    BY <1>3, <2>1 DEF Alive
  <2>2. CASE q # p
    <3>1. Alive(q) /\ proc'[q] = proc[q]
      BY <1>3, <2>2 DEF Alive
    <3>2. q \in Tracked => q \in Tracked'
      <4> SUFFICES ASSUME NEW other \in PRs, children[other] = q
                   PROVE  q \in Tracked'
        BY TrackedFact
      <4>1. children'[other] = q
        BY <1>2, <2>2
      <4> QED
        BY <4>1 DEF Tracked
    <3> QED
      BY <3>1, <3>2 DEF NoneUntold
  <2> QED
    BY <2>1, <2>2
<1> QED
  BY <1>5, <1>6, <1>7

LEMMA ReapStep == ASSUME Inv, NEW pr \in PRs, Reap(pr) PROVE Inv'
<1> DEFINE p == children[pr]
<1>1. p \in Procs
  BY DEF Reap, Inv, TypeOK, TodoInv
<1>2. BackoffAfter(pr, p) \in 0..EnvBackoff /\ Owed(pr, p) \in 0..EnvBackoff
  BY <1>1, BackoffType DEF Inv
<1>3. ShortFailure(p) \in BOOLEAN
  BY DEF ShortFailure
<1>4. owed' \in [PRs -> 0..EnvBackoff] /\ failing' \in [PRs -> BOOLEAN]
  BY <1>2, <1>3 DEF Reap, Inv, TypeOK
<1>5. /\ pc = "sweep" /\ pr \in todo /\ Cool(pr, BackoffAfter(pr, p)) /\ Visited(pr)
      /\ proc' = [proc EXCEPT ![p] = Gone]
  BY DEF Reap
<1> QED
  BY <1>2, <1>4, <1>5, GoneType, CoolStep

LEMMA StuckStep == ASSUME Inv, NEW pr \in PRs, Stuck(pr) PROVE Inv'
<1> DEFINE p == children[pr]
           told == [proc[p] EXCEPT !.told = TRUE]
<1>1. p \in Procs /\ proc[p] \in ProcType
  BY DEF Stuck, Inv, TypeOK, TodoInv
<1>2. told \in ProcType /\ told.told
  BY <1>1 DEF ProcType
<1>3. RespawnBackoff \in 0..EnvBackoff
  OBVIOUS
<1>4. owed' \in [PRs -> 0..EnvBackoff] /\ failing' \in [PRs -> BOOLEAN]
  BY <1>3 DEF Stuck, Inv, TypeOK
<1>5. pc = "sweep" /\ pr \in todo /\ Cool(pr, RespawnBackoff) /\ Visited(pr)
  BY DEF Stuck
<1>6. CASE proc' = [proc EXCEPT ![p] = Gone]
  BY <1>3, <1>4, <1>5, <1>6, GoneType, CoolStep
<1>7. CASE proc' = [proc EXCEPT ![p] = told]
  <2> HIDE DEF told
  <2> QED
    BY <1>2, <1>3, <1>4, <1>5, <1>7, CoolStep
<1>8. proc' = [proc EXCEPT ![p] = Gone] \/ proc' = [proc EXCEPT ![p] = told]
  BY DEF Stuck
<1> QED
  BY <1>6, <1>7, <1>8

LEMMA DropStep == ASSUME Inv, NEW pr \in PRs, Drop(pr) PROVE Inv'
<1> USE DEF Inv
<1>1. /\ pc = "respawn" /\ pr \in todo /\ cooling' = cooling \ {pr} /\ todo' = todo \ {pr}
      /\ UNCHANGED <<children, age, proc, pc, shutting, reload, open, reloads>>
  BY DEF Drop, Visited, envVars
<1>2. /\ backoff' \in [PRs -> 0..EnvBackoff] /\ owed' \in [PRs -> 0..EnvBackoff]
      /\ failing' \in [PRs -> BOOLEAN]
  BY DEF Drop, TypeOK
<1>3. TypeOK'
  BY <1>1, <1>2 DEF TypeOK
<1>4. TodoInv'
  BY <1>1 DEF TodoInv
<1>5. NoneUntold'
  BY <1>1 DEF NoneUntold, Tracked, Alive
<1> QED
  BY <1>3, <1>4, <1>5

LEMMA ReExecStep == ASSUME Inv, ReExec PROVE Inv'
<1> USE DEF Inv
<1>1. /\ pc' = "list" /\ todo' = {} /\ cooling' = {} /\ children' = NoChildren
      /\ age' = [pr \in PRs |-> 0] /\ backoff' = [pr \in PRs |-> 0]
      /\ shutting' = FALSE /\ reload' = FALSE
      /\ failing' = [pr \in PRs |-> FALSE] /\ owed' = [pr \in PRs |-> 0]
      /\ UNCHANGED <<open, reloads>>
  BY DEF ReExec, envVars
<1>2. proc' = [p \in Procs |-> IF Alive(p) THEN Told(p) ELSE Gone]
  BY DEF ReExec
<1>3. \A p \in Procs : /\ proc'[p] \in ProcType
                       /\ proc'[p].state \in {"starting", "running"} => proc'[p].told
  <2> SUFFICES ASSUME NEW p \in Procs
               PROVE  /\ proc'[p] \in ProcType
                      /\ proc'[p].state \in {"starting", "running"} => proc'[p].told
    OBVIOUS
  <2>1. CASE Alive(p)
    BY <1>2, <2>1, ToldType DEF NoneUntold
  <2>2. CASE ~Alive(p)
    BY <1>2, <2>2, GoneType
  <2> QED
    BY <2>1, <2>2
<1>4. proc' \in [Procs -> ProcType]
  <2>1. proc' = [p \in Procs |-> proc'[p]]
    BY <1>2
  <2> QED
    BY <1>3, <2>1
<1>5. TypeOK'
  <2>1. \A pr \in PRs : children'[pr] = None
    BY <1>1 DEF NoChildren
  <2>2. /\ children' \in [PRs -> Procs \cup {None}]
        /\ age' \in [PRs -> 0..EnvBackoff] /\ backoff' \in [PRs -> 0..EnvBackoff]
        /\ owed' \in [PRs -> 0..EnvBackoff] /\ failing' \in [PRs -> BOOLEAN]
    BY <1>1 DEF NoChildren
  <2>3. shutting' \in BOOLEAN /\ reload' \in BOOLEAN
    BY <1>1, Zenon
  <2>4. pc' = "list" /\ todo' = {} /\ cooling' = {} /\ UNCHANGED <<open, reloads>>
    BY <1>1, Zenon
  <2> QED
    BY <1>4, <2>1, <2>2, <2>3, <2>4 DEF TypeOK, PcLabels
<1>6. TodoInv'
  <2>1. pc' = "list" /\ cooling' = {} /\ \A pr \in PRs : children'[pr] = None
    BY <1>1 DEF NoChildren
  <2> QED
    BY <2>1 DEF TodoInv
<1>7. NoneUntold'
  BY <1>3 DEF NoneUntold, Alive
<1> QED
  BY <1>5, <1>6, <1>7

LEMMA TerminateStep == ASSUME Inv, Terminate PROVE Inv'
<1> USE DEF Inv
<1>1. /\ pc' = "stopping"
      /\ UNCHANGED <<todo, children, cooling, age, backoff, shutting, reload, open, reloads, failing,
                     owed>>
  BY DEF Terminate, envVars, histVars
<1>2. proc' = [p \in Procs |-> IF Alive(p) THEN Told(p) ELSE proc[p]]
  BY DEF Terminate
<1>3. \A p \in Procs : /\ proc'[p] \in ProcType
                       /\ proc'[p].pr = proc[p].pr /\ proc'[p].state = proc[p].state
                       /\ proc'[p].state \in {"starting", "running"} => proc'[p].told
  <2> SUFFICES ASSUME NEW p \in Procs
               PROVE  /\ proc'[p] \in ProcType
                      /\ proc'[p].pr = proc[p].pr /\ proc'[p].state = proc[p].state
                      /\ proc'[p].state \in {"starting", "running"} => proc'[p].told
    OBVIOUS
  <2>1. CASE Alive(p)
    BY <1>2, <2>1, ToldType DEF NoneUntold
  <2>2. CASE ~Alive(p)
    BY <1>2, <2>2 DEF TypeOK, Alive
  <2> QED
    BY <2>1, <2>2
<1>4. proc' \in [Procs -> ProcType]
  <2>1. proc' = [p \in Procs |-> proc'[p]]
    BY <1>2
  <2> QED
    BY <1>3, <2>1
<1>5. TypeOK'
  <2>1. \A pr \in PRs : children'[pr] # None =>
           proc'[children'[pr]].pr = pr /\ proc'[children'[pr]].state # "gone"
    BY <1>1, <1>3 DEF TypeOK
  <2> QED
    BY <1>1, <1>4, <2>1 DEF TypeOK, PcLabels
<1>6. TodoInv'
  BY <1>1 DEF TodoInv
<1>7. NoneUntold'
  BY <1>3 DEF NoneUntold, Alive
<1> QED
  BY <1>5, <1>6, <1>7

LEMMA InvStep == ASSUME Inv, [Next]_vars PROVE Inv'
<1>1. CASE UNCHANGED vars
  <2>1. UNCHANGED <<supVars, proc, envVars, histVars>>
    BY <1>1 DEF vars
  <2>2. TodoInv'
    BY <2>1 DEF supVars, TodoInv, Inv
  <2> QED
    BY <2>1, <2>2, QuietStep DEF supVars, envVars, Inv, TypeOK
<1>2. CASE Supervise
  BY <1>2, ListStep, MoveStep, VisitStep, WaitStep, LaunchStep, RespawnStep, ReapStep, StuckStep,
     DropStep, ReExecStep, TerminateStep DEF Supervise
<1>3. CASE \E p \in Procs : TakeLock(p) \/ End(p)
  BY <1>3, LockStep, EndStep
<1>4. CASE RequestShutdown \/ RequestReload \/ \E pr \in PRs : OpenOrClose(pr)
  BY <1>4, EnvStep
<1> QED
  BY <1>1, <1>2, <1>3, <1>4 DEF Next

(***************************************************************************)
(* The backoff.                                                            *)
(***************************************************************************)
\* Steps that forget nothing of a backoff and owe nothing new.
LEMMA OwedQuiet ==
  ASSUME OwedInv, UNCHANGED <<backoff, owed, failing>>, cooling' \subseteq cooling
  PROVE  OwedInv'
  BY DEF OwedInv

LEMMA OwedCool ==
  ASSUME Inv, OwedInv, NEW pr \in PRs, NEW wait \in 0..EnvBackoff, NEW due \in 0..wait,
         NEW ramp \in BOOLEAN, wait > 0, ramp \/ wait <= due,
         Cool(pr, wait), owed' = [owed EXCEPT ![pr] = due],
         failing' = [failing EXCEPT ![pr] = ramp]
  PROVE  OwedInv'
<1> USE DEF Inv
<1>1. \A other \in PRs :
         /\ backoff'[other] = IF other = pr THEN wait ELSE backoff[other]
         /\ owed'[other] = IF other = pr THEN due ELSE owed[other]
         /\ failing'[other] = IF other = pr THEN ramp ELSE failing[other]
         /\ other # pr /\ other \in cooling' => other \in cooling
  BY DEF Cool, TypeOK
<1> QED
  BY <1>1 DEF OwedInv

LEMMA OwedStep == ASSUME Inv, OwedInv, [Next]_vars PROVE OwedInv'
<1>1. CASE UNCHANGED vars
  BY <1>1, OwedQuiet DEF vars, supVars, histVars
<1>2. CASE \/ List \/ ListFails \/ SpawnFails \/ Stop \/ Wait \/ SweepDone \/ RespawnDone
           \/ Terminate \/ StopWaits
  BY <1>2, OwedQuiet
  DEF List, ListFails, SpawnFails, Stop, Wait, SweepDone, RespawnDone, Terminate, StopWaits, histVars
<1>3. CASE \E pr \in PRs : Launch(pr) \/ Leave(pr) \/ CoolStill(pr) \/ Respawn(pr)
  BY <1>3, OwedQuiet DEF Launch, Leave, CoolStill, Respawn, histVars
<1>4. CASE \E pr \in PRs : Reap(pr)
  <2>1. PICK pr \in PRs : Reap(pr)
    BY <1>4
  <2> DEFINE p == children[pr]
  <2>2. p \in Procs
    BY <2>1 DEF Reap, Inv, TypeOK, TodoInv
  <2>3. /\ BackoffAfter(pr, p) \in 0..EnvBackoff
        /\ Owed(pr, p) \in 0..BackoffAfter(pr, p)
        /\ BackoffAfter(pr, p) > 0
        /\ ShortFailure(p) \/ BackoffAfter(pr, p) <= Owed(pr, p)
        /\ ShortFailure(p) \in BOOLEAN
    BY <2>2, BackoffType DEF Inv, ShortFailure
  <2>4. /\ Cool(pr, BackoffAfter(pr, p)) /\ owed' = [owed EXCEPT ![pr] = Owed(pr, p)]
        /\ failing' = [failing EXCEPT ![pr] = ShortFailure(p)]
    BY <2>1 DEF Reap
  <2> QED
    BY <2>3, <2>4, OwedCool
<1>5. CASE \E pr \in PRs : Stuck(pr)
  <2>1. PICK pr \in PRs : Stuck(pr)
    BY <1>5
  <2>2. /\ Cool(pr, RespawnBackoff) /\ owed' = [owed EXCEPT ![pr] = RespawnBackoff]
        /\ failing' = [failing EXCEPT ![pr] = FALSE]
    BY <2>1 DEF Stuck
  <2>3. /\ RespawnBackoff \in 0..EnvBackoff /\ RespawnBackoff \in 0..RespawnBackoff
        /\ RespawnBackoff > 0 /\ RespawnBackoff <= RespawnBackoff /\ FALSE \in BOOLEAN
    OBVIOUS
  <2> QED
    BY <2>2, <2>3, OwedCool
<1>6. CASE \E pr \in PRs : Drop(pr)
  <2>1. PICK pr \in PRs : Drop(pr)
    BY <1>6
  <2>2. /\ backoff' = [backoff EXCEPT ![pr] = 0] /\ owed' = [owed EXCEPT ![pr] = 0]
        /\ failing' = [failing EXCEPT ![pr] = FALSE] /\ cooling' = cooling \ {pr}
        /\ backoff \in [PRs -> 0..EnvBackoff] /\ owed \in [PRs -> 0..EnvBackoff]
        /\ failing \in [PRs -> BOOLEAN]
    BY <2>1 DEF Drop, Inv, TypeOK
  <2> QED
    BY <2>2 DEF OwedInv
<1>7. CASE ReExec
  BY <1>7 DEF ReExec, OwedInv
<1>8. CASE \/ \E p \in Procs : TakeLock(p) \/ End(p)
           \/ RequestShutdown \/ RequestReload
           \/ \E pr \in PRs : OpenOrClose(pr)
  BY <1>8, OwedQuiet DEF TakeLock, End, RequestShutdown, RequestReload, OpenOrClose, supVars, histVars
<1> QED
  BY <1>1, <1>2, <1>3, <1>4, <1>5, <1>6, <1>7, <1>8 DEF Next, Supervise

\* The one step that passes over a PR is CoolStill.
LEMMA PassStep ==
  ASSUME Inv, OwedInv, [Next]_vars, NEW pr \in PRs, PassedOver(pr)
  PROVE  age[pr] < IF failing[pr] THEN EnvBackoff ELSE owed[pr]
<1>1. pc = "respawn" /\ pc' = "respawn" /\ pr \in todo /\ pr \notin todo' /\ pr \in cooling'
  BY DEF PassedOver
<1>2. CASE \E other \in PRs : Drop(other) \/ Respawn(other)
  <2>1. PICK other \in PRs : todo' = todo \ {other} /\ cooling' = cooling \ {other}
    BY <1>2 DEF Drop, Respawn, Visited
  <2> QED
    BY <1>1, <2>1
<1>3. CASE \E other \in PRs : CoolStill(other)
  <2>1. PICK other \in PRs : CoolStill(other)
    BY <1>3
  <2>2. other = pr /\ pr \in cooling
    BY <1>1, <2>1 DEF CoolStill, Visited
  <2>3. age[pr] < Prior(pr)
    BY <2>1, <2>2 DEF CoolStill
  <2>4. /\ age[pr] \in Nat /\ owed[pr] \in Nat /\ backoff[pr] \in 0..EnvBackoff
        /\ backoff[pr] > 0 /\ (failing[pr] \/ backoff[pr] <= owed[pr])
    BY <2>2 DEF Inv, TypeOK, OwedInv
  <2>5. Prior(pr) = backoff[pr]
    BY <2>4 DEF Prior
  <2> QED
    BY <2>3, <2>4, <2>5
<1>4. \/ UNCHANGED todo \/ pc # "respawn" \/ pc' # "respawn"
      \/ \E other \in PRs : Drop(other) \/ Respawn(other) \/ CoolStill(other)
  BY DEF Next, Supervise, vars, supVars, List, ListFails, SpawnFails, Stop, Wait, SweepDone,
         RespawnDone, ReExec, Terminate, StopWaits, Launch, Reap, Stuck, Leave, TakeLock, End,
         RequestShutdown, RequestReload, OpenOrClose
<1> QED
  BY <1>1, <1>2, <1>3, <1>4

\* The one step that gives a waiting PR a process is Respawn.
LEMMA RetryStep ==
  ASSUME Inv, OwedInv, [Next]_vars, NEW pr \in PRs, pr \in cooling, children'[pr] # None
  PROVE  age[pr] >= owed[pr]
<1>1. children[pr] = None
  BY DEF Inv, TypeOK
<1>2. CASE UNCHANGED children
  BY <1>1, <1>2
<1>3. CASE \E other \in PRs : Reap(other) \/ Stuck(other)
  <2>1. PICK other \in PRs : children' = [children EXCEPT ![other] = None]
    BY <1>3 DEF Reap, Stuck, Cool
  <2> QED
    BY <1>1, <2>1 DEF Inv, TypeOK
<1>4. CASE \E other \in PRs : Launch(other)
  BY <1>4 DEF Launch, Inv, TodoInv
<1>5. CASE \E other \in PRs : Respawn(other)
  <2>1. PICK other \in PRs : Respawn(other)
    BY <1>5
  <2>2. other = pr
    BY <1>1, <2>1 DEF Respawn, Spawn, Inv, TypeOK
  <2>3. age[pr] >= Prior(pr) /\ age[pr] \in Nat
    BY <2>1, <2>2 DEF Respawn, Inv, TypeOK
  <2>4. owed[pr] \in Nat /\ backoff[pr] \in Nat /\ owed[pr] <= backoff[pr]
    BY DEF OwedInv, Inv, TypeOK
  <2>5. Prior(pr) \in Nat /\ backoff[pr] <= Prior(pr)
    BY <2>4 DEF Prior
  <2> QED
    BY <2>3, <2>4, <2>5
<1>6. CASE ReExec
  BY <1>6 DEF ReExec, NoChildren
<1>7. \/ UNCHANGED children
      \/ \E other \in PRs : Reap(other) \/ Stuck(other) \/ Launch(other) \/ Respawn(other)
      \/ ReExec
  BY DEF Next, Supervise, vars, supVars, List, ListFails, SpawnFails, Stop, Wait, SweepDone, RespawnDone,
         Terminate, StopWaits, Leave, CoolStill, Drop, TakeLock, End, RequestShutdown, RequestReload,
         OpenOrClose
<1> QED
  BY <1>2, <1>3, <1>4, <1>5, <1>6, <1>7

LEMMA InvAlways == Spec => []Inv
<1> QED
  BY InvInit, InvStep, PTL DEF Spec

(***************************************************************************)
(* The supervisor from outside.  Whether a loop is untold is known from     *)
(* NoneUntold where the supervisor ends or starts anew, and must be kept     *)
(* while it is no more than a list of PRs or has ended; and a supervisor     *)
(* that starts anew has forgotten the signals.                              *)
(***************************************************************************)
Untold == \E p \in Procs : Alive(p) /\ ~proc[p].told

AtWork == PcLabels \ {"list", "stopping", "exited", "failed"}

StageInv == /\ pc = "list" => ~shutting
            /\ reload => shutting
            /\ pc \notin AtWork => ~Untold

LEMMA StageAtWork ==
  /\ pc \in AtWork => Stage = IF shutting THEN "asked" ELSE "up"
  /\ pc = "list" => Stage = "listing"
  /\ pc \in {"exited", "failed"} => Stage = "ended"
  /\ pc = "stopping" => Stage = "stopping"
BY DEF Stage, AtWork, PcLabels

\* A step of the supervision, signals apart.
LEMMA WorkStep ==
  ASSUME StageInv, pc \in AtWork, pc' \in AtWork, UNCHANGED <<shutting, reload>>
  PROVE  StageInv' /\ SV!Next
<1>1. Stage' = Stage /\ Stage \in {"up", "asked"}
  <2>1. Stage = IF shutting THEN "asked" ELSE "up"
    BY StageAtWork
  <2>2. Stage' = IF shutting' THEN "asked" ELSE "up"
    BY DEF Stage, AtWork, PcLabels
  <2> QED
    BY <2>1, <2>2
<1>2. SV!Work
  BY <1>1 DEF SV!Work
<1>3. StageInv'
  BY DEF StageInv, AtWork, PcLabels
<1> QED
  BY <1>2, <1>3 DEF SV!Next

\* Processes take their lock and end; none comes back to life.
LEMMA NoneComesBack ==
  ASSUME Inv, NEW p \in Procs, TakeLock(p) \/ End(p)
  PROVE  Untold' => Untold
<1>1. proc \in [Procs -> ProcType]
  BY DEF Inv, TypeOK
<1>2. \A q \in Procs \ {p} : proc'[q] = proc[q]
  BY <1>1 DEF TakeLock, End, Exits
<1>3. Alive(p) /\ (Alive(p)' => proc'[p].told = proc[p].told)
  <2>1. Alive(p)
    BY DEF TakeLock, End, Alive
  <2>2. ASSUME NEW c \in Codes, Exits(p, c) PROVE ~(Alive(p)')
    <3>1. proc'[p] = IF p \in Tracked THEN [proc[p] EXCEPT !.state = "exited", !.code = c] ELSE Gone
      BY <1>1, <2>2 DEF Exits
    <3>2. proc'[p].state \in {"exited", "gone"}
      BY <1>1, <3>1 DEF Gone, ProcType
    <3> QED
      BY <3>2 DEF Alive
  <2>3. CASE proc' = [proc EXCEPT ![p].state = "running"]
    <3>1. proc'[p] = [proc[p] EXCEPT !.state = "running"]
      BY <1>1, <2>3
    <3>2. proc'[p].told = proc[p].told
      BY <1>1, <3>1 DEF ProcType
    <3> QED
      BY <2>1, <3>2
  <2>4. (\E c \in Codes : Exits(p, c)) \/ proc' = [proc EXCEPT ![p].state = "running"]
    BY DEF TakeLock, End, Codes
  <2> QED
    BY <2>1, <2>2, <2>3, <2>4
<1> QED
  BY <1>2, <1>3 DEF Untold, Alive

LEMMA StageStep ==
  ASSUME Inv, StageInv, [Next]_vars
  PROVE  StageInv' /\ [SV!Next]_(SV!vars)
<1>1. CASE UNCHANGED vars
  BY <1>1 DEF vars, supVars, StageInv, Untold, Alive, SV!vars, Stage
<1>2. CASE List \/ ListFails
  <2>1. pc = "list" /\ pc' \in {"exited", "failed", "spawn"} /\ UNCHANGED <<shutting, reload, proc>>
    BY <1>2 DEF List, ListFails
  <2>2. ~shutting /\ ~Untold /\ ~Untold' /\ Stage = "listing"
    BY <2>1, StageAtWork DEF StageInv, AtWork, Untold, Alive
  <2>3. Stage' = IF pc' = "spawn" THEN "up" ELSE "ended"
    BY <2>1, <2>2 DEF Stage
  <2>4. SV!Begin \/ SV!GiveUp
    BY <2>2, <2>3 DEF SV!Begin, SV!GiveUp, Untold
  <2>5. StageInv'
    BY <2>1, <2>2 DEF StageInv, AtWork, PcLabels
  <2> QED
    BY <2>4, <2>5 DEF SV!Next
<1>3. CASE \/ SpawnFails \/ Stop \/ Wait \/ SweepDone \/ RespawnDone
           \/ \E pr \in PRs : \/ Launch(pr) \/ Reap(pr) \/ Stuck(pr) \/ Leave(pr)
                              \/ CoolStill(pr) \/ Drop(pr) \/ Respawn(pr)
  <2>1. pc \in AtWork /\ pc' \in AtWork /\ UNCHANGED <<shutting, reload>>
    BY <1>3 DEF SpawnFails, Stop, Wait, SweepDone, RespawnDone, Launch, Reap, Stuck, Leave, CoolStill,
                Drop, Respawn, Visited, AtWork, PcLabels
  <2> QED
    BY <2>1, WorkStep
<1>4. CASE ReExec \/ Terminate
  <2>1. \A p \in Procs : Alive(p)' => proc'[p].told
    <3> SUFFICES ASSUME NEW p \in Procs, Alive(p)' PROVE proc'[p].told
      OBVIOUS
    <3>1. Alive(p)
      BY <1>4 DEF ReExec, Terminate, Alive, Gone
    <3>2. proc'[p] = Told(p)
      BY <1>4, <3>1 DEF ReExec, Terminate
    <3> QED
      BY <3>1, <3>2, ToldType DEF Inv, NoneUntold
  <2>2. ~Untold'
    BY <2>1 DEF Untold
  <2>3. pc \in AtWork
    BY <1>4 DEF ReExec, Terminate, AtWork, PcLabels
  <2>4. CASE ReExec
    <3>1. pc' = "list" /\ shutting /\ ~shutting' /\ ~reload'
      BY <2>4 DEF ReExec, StageInv
    <3>2. Stage = "asked" /\ Stage' = "listing"
      BY <2>3, <3>1, StageAtWork DEF Stage
    <3> QED
      BY <2>2, <3>1, <3>2 DEF StageInv, SV!Next, SV!Reload, Untold
  <2>5. CASE Terminate
    <3>1. pc' = "stopping" /\ UNCHANGED <<shutting, reload>>
      BY <2>5 DEF Terminate
    <3>2. Stage \in {"up", "asked"} /\ Stage' = "stopping"
      BY <2>3, <3>1, StageAtWork DEF Stage
    <3> QED
      BY <2>2, <3>1, <3>2 DEF StageInv, SV!Next, SV!Tell, Untold
  <2> QED
    BY <1>4, <2>4, <2>5
<1>5. CASE StopWaits
  <2>1. pc = "stopping" /\ pc' = "exited" /\ UNCHANGED <<shutting, reload, proc>>
    BY <1>5 DEF StopWaits
  <2>2. ~Untold /\ ~Untold' /\ Stage = "stopping" /\ Stage' = "ended"
    BY <2>1, StageAtWork DEF StageInv, AtWork, Untold, Alive, Stage
  <2> QED
    BY <2>1, <2>2 DEF StageInv, SV!Next, SV!Gone, Untold
<1>6. CASE RequestShutdown \/ RequestReload
  <2>1. /\ pc \notin {"list", "exited", "failed"} /\ shutting' /\ UNCHANGED <<pc, proc>>
    BY <1>6 DEF RequestShutdown, RequestReload, Handled
  <2>2. (Untold' <=> Untold) /\ StageInv'
    BY <2>1 DEF StageInv, Untold, Alive
  <2>3. CASE pc = "stopping"
    <3>1. Stage = "stopping" /\ Stage' = "stopping"
      BY <2>1, <2>3 DEF Stage
    <3> QED
      BY <2>2, <3>1 DEF SV!vars, Untold
  <2>4. CASE pc # "stopping"
    <3>1. Stage = (IF shutting THEN "asked" ELSE "up") /\ Stage' = "asked"
      BY <2>1, <2>4 DEF Stage
    <3> QED
      BY <2>2, <3>1 DEF SV!vars, SV!Next, SV!Ask, Untold
  <2> QED
    BY <2>3, <2>4
<1>7. CASE \E p \in Procs : TakeLock(p) \/ End(p)
  <2>1. PICK p \in Procs : TakeLock(p) \/ End(p)
    BY <1>7
  <2>2. UNCHANGED supVars
    BY <2>1 DEF TakeLock, End
  <2>3. CASE pc \in AtWork
    BY <2>2, <2>3, WorkStep DEF supVars
  <2>4. CASE pc \notin AtWork
    <3>1. ~Untold /\ ~Untold'
      BY <2>1, <2>4, NoneComesBack DEF StageInv
    <3>2. Stage' = Stage /\ StageInv'
      BY <2>2, <3>1 DEF supVars, Stage, StageInv
    <3> QED
      BY <3>1, <3>2 DEF SV!vars, Untold
  <2> QED
    BY <2>3, <2>4
<1>8. CASE \E pr \in PRs : OpenOrClose(pr)
  <2>1. UNCHANGED <<supVars, proc>>
    BY <1>8 DEF OpenOrClose
  <2> QED
    BY <2>1 DEF supVars, StageInv, Untold, Alive, Stage, SV!vars
<1> QED
  BY <1>1, <1>2, <1>3, <1>4, <1>5, <1>6, <1>7, <1>8 DEF Next, Supervise

LEMMA StageInit == Init => StageInv /\ SV!Init
BY DEF Init, StageInv, Untold, Alive, Gone, Stage, SV!Init

\* Types hold; a PR is never both running and waiting to be tried again.
THEOREM TypeCorrect == Spec => []TypeOK
<1>1. Inv => TypeOK
  BY DEF Inv
<1> QED
  BY <1>1, InvAlways, PTL

\* Whatever ends the supervision, no process of it is left running untold.
THEOREM NoProcessLeft == Spec => []NoneUntold
<1>1. Inv => NoneUntold
  BY DEF Inv
<1> QED
  BY <1>1, InvAlways, PTL

\* A PR whose last exits call for a wait is not tried again before it has passed, and
\* waits no longer, or no longer than the longest wait while it fails shortly.
THEOREM BackoffsKept == Spec => BackoffKept
<1>1. Init => OwedInv
  BY DEF Init, OwedInv
<1>2. Inv /\ OwedInv /\ [Next]_vars => OwedInv'
  BY OwedStep
<1>3. Inv /\ OwedInv /\ [Next]_vars
        => [\A pr \in PRs :
              /\ pr \in cooling /\ children'[pr] # None => age[pr] >= owed[pr]
              /\ PassedOver(pr) => age[pr] < IF failing[pr] THEN EnvBackoff ELSE owed[pr]]_vars
  BY RetryStep, PassStep
<1> QED
  BY <1>1, <1>2, <1>3, InvAlways, PTL DEF Spec, BackoffKept

\* The supervisor is what the launcher of several takes it for: it never ends nor starts
\* itself anew with a loop process that was not told to end.
THEOREM SupervisorRefined == Spec => ImplementsSupervisor
<1>1. Init => StageInv /\ SV!Init
  BY StageInit
<1>2. Inv /\ StageInv /\ [Next]_vars => StageInv' /\ [SV!Next]_(SV!vars)
  BY StageStep
<1> QED
  BY <1>1, <1>2, InvAlways, PTL DEF Spec, ImplementsSupervisor, SV!Spec
===============================================================================
