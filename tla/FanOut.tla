-------------------------------- MODULE FanOut --------------------------------
(***************************************************************************)
(* The fan-out supervisor, ralph_loop/cli.py _fan_out_all_prs: it lists    *)
(* the open PRs, runs one loop process per PR, sweeps over them, backs off *)
(* and respawns, and on a signal stops them or starts itself anew, while   *)
(* the processes run, fail and hang and PRs are closed and reopened.       *)
(*                                                                         *)
(* The per-PR lock (module LoopLock) is assumed to work.  Time is counted  *)
(* in units of a sweep's wait, as the differences the code takes.          *)
(***************************************************************************)
EXTENDS Naturals, FiniteSets

CONSTANTS PRs,
          Procs, None,      \* loop processes; bound: alive at once
          RespawnBackoff,   \* --fan-out-respawn-backoff-seconds
          EnvBackoff,       \* --fan-out-env-failure-backoff-seconds
          MinRamp,          \* 30 s
          ShortLife,        \* 60 s; a stuck timeout is no shorter
          MaxWait,          \* bound: length of one round, queries included
          MaxReloads,       \* bound: SIGHUPs
          MaxUndead         \* bound: processes that outlive SIGKILL by 5 s

ASSUME NoneNot == None \notin Procs \cup PRs
ASSUME BackoffsOrdered == RespawnBackoff \in Nat \ {0} /\ EnvBackoff \in Nat /\ RespawnBackoff <= EnvBackoff
ASSUME TimesNat == MinRamp \in Nat \ {0} /\ ShortLife \in Nat \ {0} /\ MaxWait \in Nat \ {0}
ASSUME BoundsNat == MaxReloads \in Nat /\ MaxUndead \in Nat

VARIABLES pc,         \* where the supervisor is
          todo,       \* PRs the pass at hand has still to visit
          children,   \* the process of each PR, or None
          cooling,    \* keys of last_exit_at
          age,        \* now - last_exit_at[pr]
          backoff,    \* pending_backoff[pr], 0 if it has none
          shutting,   \* shutting_down
          reload,     \* reload_requested
          proc,       \* the loop processes: PR, state, exit code, now - spawned_at,
                      \* and whether it was sent SIGTERM
          open,       \* PRs GitHub has open
          reloads,    \* SIGHUPs so far
          failing,    \* history: the PR's last exit was a short-lived failure
          owed        \* history: the wait the last exit of each PR calls for

supVars == <<pc, todo, children, cooling, age, backoff, shutting, reload>>
envVars == <<open, reloads>>
histVars == <<failing, owed>>
vars == <<supVars, proc, envVars, histVars>>

PcLabels == {"list", "spawn", "wait", "sweep", "respawn", "finally", "raising", "stopping",
             "exited", "failed"}

\* "1" is any other failure, 143 and a signal's negative code included.
Codes == {"0", "1", "64", "65", "75"}

ProcType == [pr : PRs \cup {None}, state : {"gone", "starting", "running", "exited"},
             code : Codes, life : 0..ShortLife, told : BOOLEAN]
Gone == [pr |-> None, state |-> "gone", code |-> "0", life |-> 0, told |-> FALSE]

TypeOK == /\ pc \in PcLabels
          /\ todo \in SUBSET PRs
          /\ children \in [PRs -> Procs \cup {None}]
          /\ cooling \in SUBSET PRs
          /\ age \in [PRs -> 0..EnvBackoff]
          /\ backoff \in [PRs -> 0..EnvBackoff]
          /\ shutting \in BOOLEAN /\ reload \in BOOLEAN
          /\ proc \in [Procs -> ProcType]
          /\ open \in SUBSET PRs
          /\ reloads \in Nat
          /\ failing \in [PRs -> BOOLEAN]
          /\ owed \in [PRs -> 0..EnvBackoff]
          /\ \A pr \in cooling : children[pr] = None
          /\ \A pr \in PRs : children[pr] # None =>
                proc[children[pr]].pr = pr /\ proc[children[pr]].state # "gone"

Least(a, b) == IF a < b THEN a ELSE b
Greatest(a, b) == IF a < b THEN b ELSE a

NoChildren == [pr \in PRs |-> None]
Tracked == {children[pr] : pr \in PRs} \ {None}
Alive(p) == proc[p].state \in {"starting", "running"}

Init == /\ pc = "list" /\ todo = {}
        /\ children = NoChildren /\ cooling = {}
        /\ age = [pr \in PRs |-> 0] /\ backoff = [pr \in PRs |-> 0]
        /\ shutting = FALSE /\ reload = FALSE
        /\ proc = [p \in Procs |-> Gone]
        /\ open \in SUBSET PRs /\ reloads = 0
        /\ failing = [pr \in PRs |-> FALSE] /\ owed = [pr \in PRs |-> 0]

(***************************************************************************)
(* Start.                                                                  *)
(***************************************************************************)

\* _list_open_prs, _filter_to_still_open_prs: a PR whose state cannot be confirmed
\* is kept.
List ==
  /\ pc = "list"
  /\ \E listed \in SUBSET PRs :
       /\ open \subseteq listed
       /\ todo' = listed
       /\ pc' = IF listed = {} THEN "exited" ELSE "spawn"
  /\ UNCHANGED <<children, cooling, age, backoff, shutting, reload, proc, envVars, histVars>>

\* gh fails, or a signal meets the process before its handlers are installed.
ListFails ==
  /\ pc = "list"
  /\ pc' = "failed"
  /\ UNCHANGED <<todo, children, cooling, age, backoff, shutting, reload, proc, envVars, histVars>>

Started(pr) == [pr |-> pr, state |-> "starting", code |-> "0", life |-> 0, told |-> FALSE]

\* _spawn_child.
Spawn(pr) ==
  LET free == {p \in Procs : proc[p].state = "gone"}
      p == CHOOSE q \in free : TRUE
  IN /\ free # {}
     /\ children' = [children EXCEPT ![pr] = p]
     /\ proc' = [proc EXCEPT ![p] = Started(pr)]

Launch(pr) ==
  /\ pc = "spawn" /\ pr \in todo
  /\ Spawn(pr)
  /\ todo' = todo \ {pr}
  /\ pc' = IF todo' = {} THEN "wait" ELSE "spawn"
  /\ UNCHANGED <<cooling, age, backoff, shutting, reload, envVars, histVars>>

\* A spawn fails: the exception ends the supervision of every PR.
SpawnFails ==
  /\ pc \in {"spawn", "respawn"} /\ todo # {}
  /\ pc' = "raising" /\ todo' = {}
  /\ UNCHANGED <<children, cooling, age, backoff, shutting, reload, proc, envVars, histVars>>

(***************************************************************************)
(* The supervision loop.                                                   *)
(***************************************************************************)
LoopEnds == shutting \/ (Tracked = {} /\ cooling = {})

Stop ==
  /\ pc = "wait" /\ LoopEnds
  /\ pc' = "finally" /\ todo' = {}
  /\ UNCHANGED <<children, cooling, age, backoff, shutting, reload, proc, envVars, histVars>>

\* _supervisor_wait times out; the last round's own time is counted with it.
Wait ==
  /\ pc = "wait" /\ ~LoopEnds
  /\ \E d \in 1..MaxWait :
       /\ age' = [pr \in PRs |-> IF pr \in cooling THEN Least(age[pr] + d, EnvBackoff) ELSE 0]
       /\ proc' = [p \in Procs |->
                     IF p \in Tracked /\ Alive(p)
                     THEN [proc[p] EXCEPT !.life = Least(@ + d, ShortLife)] ELSE proc[p]]
  /\ pc' = "sweep" /\ todo' = {pr \in PRs : children[pr] # None}
  /\ UNCHANGED <<children, cooling, backoff, shutting, reload, envVars, histVars>>

Prior(pr) == IF backoff[pr] = 0 THEN RespawnBackoff ELSE backoff[pr]

LongCodes == {"64", "65", "75"}

ShortFailure(p) == proc[p].code = "1" /\ proc[p].life < ShortLife

\* Mutant: an ordinary exit does not end the ramp.
BackoffKeepsRamp(pr, p) ==
  IF proc[p].code \in LongCodes THEN EnvBackoff
  ELSE IF ShortFailure(p) THEN Least(EnvBackoff, Greatest(Prior(pr) * 2, MinRamp))
  ELSE Prior(pr)

\* The backoff of an exit: the long one, the ramp, or the ordinary one.
BackoffAfter(pr, p) ==
  IF proc[p].code \in LongCodes THEN EnvBackoff
  ELSE IF ShortFailure(p) THEN Least(EnvBackoff, Greatest(Prior(pr) * 2, MinRamp))
  ELSE RespawnBackoff

Cool(pr, wait) == /\ children' = [children EXCEPT ![pr] = None]
                  /\ cooling' = cooling \cup {pr}
                  /\ age' = [age EXCEPT ![pr] = 0]
                  /\ backoff' = [backoff EXCEPT ![pr] = wait]

Visited(pr) == todo' = todo \ {pr} /\ UNCHANGED <<pc, shutting, reload, envVars>>

\* History: the wait that an exit calls for.
Owed(pr, p) ==
  IF proc[p].code \in LongCodes THEN EnvBackoff
  ELSE IF ShortFailure(p) THEN Least(EnvBackoff, IF failing[pr] THEN 2 * owed[pr] ELSE MinRamp)
  ELSE RespawnBackoff

Reap(pr) ==
  LET p == children[pr]
  IN /\ pc = "sweep" /\ pr \in todo
     /\ proc[p].state = "exited"
     /\ Cool(pr, BackoffAfter(pr, p))
     /\ Visited(pr)
     /\ proc' = [proc EXCEPT ![p] = Gone]
     /\ owed' = [owed EXCEPT ![pr] = Owed(pr, p)]
     /\ failing' = [failing EXCEPT ![pr] = ShortFailure(p)]

\* Mutant: the log is closed and the child forgotten, but not terminated.
StuckLeft(pr) ==
  LET p == children[pr]
  IN /\ pc = "sweep" /\ pr \in todo
     /\ Alive(p) /\ proc[p].life = ShortLife
     /\ Cool(pr, RespawnBackoff)
     /\ Visited(pr)
     /\ owed' = [owed EXCEPT ![pr] = RespawnBackoff]
     /\ failing' = [failing EXCEPT ![pr] = FALSE]
     /\ UNCHANGED proc

Undead == {p \in Procs : Alive(p) /\ proc[p].told}

\* The log was idle for too long: terminate, wait, kill, wait, forget.  The log of
\* a process is not older than the process.
Stuck(pr) ==
  LET p == children[pr]
  IN /\ pc = "sweep" /\ pr \in todo
     /\ Alive(p) /\ proc[p].life = ShortLife
     /\ Cool(pr, RespawnBackoff)
     /\ Visited(pr)
     /\ \/ proc' = [proc EXCEPT ![p] = Gone]
        \/ MaxUndead > Cardinality(Undead) /\ proc' = [proc EXCEPT ![p].told = TRUE]
     /\ owed' = [owed EXCEPT ![pr] = RespawnBackoff]
     /\ failing' = [failing EXCEPT ![pr] = FALSE]

Leave(pr) ==
  /\ pc = "sweep" /\ pr \in todo
  /\ Alive(children[pr])
  /\ Visited(pr)
  /\ UNCHANGED <<children, cooling, age, backoff, proc, histVars>>

SweepDone ==
  /\ pc = "sweep" /\ todo = {}
  /\ IF shutting THEN pc' = "finally" /\ todo' = {}
                 ELSE pc' = "respawn" /\ todo' = cooling
  /\ UNCHANGED <<children, cooling, age, backoff, shutting, reload, proc, envVars, histVars>>

CoolStill(pr) ==
  /\ pc = "respawn" /\ pr \in todo
  /\ age[pr] < Prior(pr)
  /\ Visited(pr)
  /\ UNCHANGED <<children, cooling, age, backoff, proc, histVars>>

\* Mutant: a PR that cannot be confirmed is dropped, too.
DropUnsure(pr) ==
  /\ pc = "respawn" /\ pr \in todo
  /\ age[pr] >= Prior(pr)
  /\ cooling' = cooling \ {pr}
  /\ backoff' = [backoff EXCEPT ![pr] = 0]
  /\ Visited(pr)
  /\ failing' = [failing EXCEPT ![pr] = FALSE] /\ owed' = [owed EXCEPT ![pr] = 0]
  /\ UNCHANGED <<children, age, proc>>

\* GitHub says that the PR is not open.
Drop(pr) ==
  /\ pc = "respawn" /\ pr \in todo
  /\ age[pr] >= Prior(pr)
  /\ pr \notin open
  /\ cooling' = cooling \ {pr}
  /\ backoff' = [backoff EXCEPT ![pr] = 0]
  /\ Visited(pr)
  /\ failing' = [failing EXCEPT ![pr] = FALSE] /\ owed' = [owed EXCEPT ![pr] = 0]
  /\ UNCHANGED <<children, age, proc>>

\* Mutant: last_exit_at keeps the PR.
RespawnCooling(pr) ==
  /\ pc = "respawn" /\ pr \in todo
  /\ age[pr] >= Prior(pr)
  /\ Spawn(pr)
  /\ Visited(pr)
  /\ UNCHANGED <<cooling, age, backoff, histVars>>

\* Mutant: the respawn forgets the pending backoff.
RespawnAfresh(pr) ==
  /\ pc = "respawn" /\ pr \in todo
  /\ age[pr] >= Prior(pr)
  /\ Spawn(pr)
  /\ cooling' = cooling \ {pr}
  /\ backoff' = [backoff EXCEPT ![pr] = 0]
  /\ Visited(pr)
  /\ UNCHANGED <<age, histVars>>

\* The PR is open, or GitHub did not answer.  The pending backoff stays.
Respawn(pr) ==
  /\ pc = "respawn" /\ pr \in todo
  /\ age[pr] >= Prior(pr)
  /\ Spawn(pr)
  /\ cooling' = cooling \ {pr}
  /\ Visited(pr)
  /\ UNCHANGED <<age, backoff, histVars>>

RespawnDone ==
  /\ pc = "respawn" /\ todo = {}
  /\ pc' = "wait"
  /\ UNCHANGED <<todo, children, cooling, age, backoff, shutting, reload, proc, envVars, histVars>>

(***************************************************************************)
(* The end: re-exec, or terminate, wait, kill and wait.                    *)
(***************************************************************************)

\* proc.terminate().
Told(p) == IF p \in Tracked THEN [proc[p] EXCEPT !.told = TRUE] ELSE proc[p]

\* Mutant: the re-exec leaves the children running.
ReExecOnly ==
  /\ pc \in {"finally", "raising"} /\ reload
  /\ pc' = "list" /\ todo' = {}
  /\ children' = NoChildren /\ cooling' = {}
  /\ age' = [pr \in PRs |-> 0] /\ backoff' = [pr \in PRs |-> 0]
  /\ shutting' = FALSE /\ reload' = FALSE
  /\ failing' = [pr \in PRs |-> FALSE] /\ owed' = [pr \in PRs |-> 0]
  /\ proc' = [p \in Procs |-> IF Alive(p) THEN proc[p] ELSE Gone]
  /\ UNCHANGED envVars

\* Without waiting for the children.
ReExec ==
  /\ pc \in {"finally", "raising"} /\ reload
  /\ proc' = [p \in Procs |-> IF Alive(p) THEN Told(p) ELSE Gone]
  /\ pc' = "list" /\ todo' = {}
  /\ children' = NoChildren /\ cooling' = {}
  /\ age' = [pr \in PRs |-> 0] /\ backoff' = [pr \in PRs |-> 0]
  /\ shutting' = FALSE /\ reload' = FALSE
  /\ failing' = [pr \in PRs |-> FALSE] /\ owed' = [pr \in PRs |-> 0]
  /\ UNCHANGED envVars

\* Mutant: only the children that have their lock are told.
TerminateRunning ==
  /\ pc \in {"finally", "raising"} /\ ~reload
  /\ proc' = [p \in Procs |-> IF proc[p].state = "running" THEN Told(p) ELSE proc[p]]
  /\ pc' = "stopping"
  /\ UNCHANGED <<todo, children, cooling, age, backoff, shutting, reload, envVars, histVars>>

Terminate ==
  /\ pc \in {"finally", "raising"} /\ ~reload
  /\ proc' = [p \in Procs |-> IF Alive(p) THEN Told(p) ELSE proc[p]]
  /\ pc' = "stopping"
  /\ UNCHANGED <<todo, children, cooling, age, backoff, shutting, reload, envVars, histVars>>

StopWaits ==
  /\ pc = "stopping"
  /\ Cardinality({p \in Tracked : Alive(p)}) <= MaxUndead
  /\ pc' = "exited"
  /\ UNCHANGED <<todo, children, cooling, age, backoff, shutting, reload, proc, envVars, histVars>>

Supervise ==
  \/ List \/ ListFails \/ SpawnFails \/ Stop \/ Wait \/ SweepDone \/ RespawnDone
  \/ ReExec \/ Terminate \/ StopWaits
  \/ \E pr \in PRs : \/ Launch(pr) \/ Reap(pr) \/ Stuck(pr) \/ Leave(pr)
                     \/ CoolStill(pr) \/ Drop(pr) \/ Respawn(pr)

(***************************************************************************)
(* Signals, loop processes, GitHub.                                        *)
(***************************************************************************)
Handled == pc \notin {"list", "exited", "failed"}

RequestShutdown ==
  /\ Handled /\ ~shutting
  /\ shutting' = TRUE
  /\ UNCHANGED <<pc, todo, children, cooling, age, backoff, reload, proc, envVars, histVars>>

RequestReload ==
  /\ Handled /\ reloads < MaxReloads
  /\ shutting' = TRUE /\ reload' = TRUE /\ reloads' = reloads + 1
  /\ UNCHANGED <<pc, todo, children, cooling, age, backoff, proc, open, histVars>>

\* An exit is kept for the supervisor, unless it has forgotten the process.
Exits(p, c) == proc' = [proc EXCEPT ![p] = IF p \in Tracked
                                           THEN [@ EXCEPT !.state = "exited", !.code = c]
                                           ELSE Gone]

LockBusy(p) == \E q \in Procs : proc[q].pr = proc[p].pr /\ proc[q].state = "running"

\* The lock of the PR: free, or another process's (exit 64).
TakeLock(p) ==
  /\ proc[p].state = "starting"
  /\ IF LockBusy(p) THEN Exits(p, "64") ELSE proc' = [proc EXCEPT ![p].state = "running"]
  /\ UNCHANGED <<supVars, envVars, histVars>>

\* The process ends, of its own or by a signal.
End(p) ==
  /\ Alive(p)
  /\ \E c \in IF proc[p].told \/ proc[p].state = "starting" THEN {"1"} ELSE Codes : Exits(p, c)
  /\ UNCHANGED <<supVars, envVars, histVars>>

OpenOrClose(pr) ==
  /\ open' = IF pr \in open THEN open \ {pr} ELSE open \cup {pr}
  /\ UNCHANGED <<supVars, proc, reloads, histVars>>

Next == \/ Supervise
        \/ RequestShutdown \/ RequestReload
        \/ \E p \in Procs : TakeLock(p) \/ End(p)
        \/ \E pr \in PRs : OpenOrClose(pr)

\* The supervisor goes on, its commands being retried or cut off, and processes that
\* were told to end do.
Fairness == WF_vars(Supervise) /\ WF_vars(\E p \in Procs : proc[p].told /\ End(p))

Spec == Init /\ [][Next]_vars /\ Fairness

(***************************************************************************)
(* Properties.                                                             *)
(***************************************************************************)

\* No process is lost: each that lives is the supervisor's child or has been told to
\* end, over stuck children, reloads and shutdowns.
NoneUntold == \A p \in Procs : Alive(p) => p \in Tracked \/ proc[p].told

\* pr waits on, at a visit of the respawn pass.
PassedOver(pr) == /\ pc = "respawn" /\ pc' = "respawn"
                  /\ pr \in todo \ todo' /\ pr \in cooling'

\* A PR is not tried again before the wait its last exits call for: the long one
\* after 64, 65 and 75, and one that doubles with each short-lived failure in a row
\* (--fan-out-env-failure-backoff-seconds, and the comment on pending_backoff).  Nor does
\* it wait on after that: an exit of another kind ends the ramp, and a ramp its longest wait.
BackoffKept ==
  [][\A pr \in PRs :
       /\ pr \in cooling /\ children'[pr] # None => age[pr] >= owed[pr]
       /\ PassedOver(pr) => age[pr] < IF failing[pr] THEN EnvBackoff ELSE owed[pr]]_vars

Attended(pr) == \E p \in Procs : proc[p].pr = pr /\ Alive(p)

\* A PR that stays open is tried again and again until the supervisor is told to
\* stop, cannot list the PRs or cannot spawn, however its processes end and whatever
\* GitHub fails to answer.
KeepsTrying ==
  \A pr \in PRs : [](pr \in open /\ pc \notin {"failed", "raising"}) /\ <>[]~shutting => []<>Attended(pr)

\* SIGTERM and SIGINT stop the supervisor and every process, unless a SIGHUP comes
\* too, which wins.
Stops == shutting /\ ~reload ~> reload \/ (pc = "exited" /\ \A p \in Procs : ~Alive(p))

\* The supervisor from outside.
Stage == CASE pc = "list"                  -> "listing"
           [] pc \in {"exited", "failed"} -> "ended"
           [] pc = "stopping"              -> "stopping"
           [] OTHER                        -> IF shutting THEN "asked" ELSE "up"

SV == INSTANCE Supervisor WITH sup <- Stage,
                               untold <- \E p \in Procs : Alive(p) /\ ~proc[p].told

\* The supervisor is what it is taken for by the launcher of several: in particular it
\* neither exits nor starts itself anew before every loop process was told to end.
ImplementsSupervisor == SV!Spec
===============================================================================
