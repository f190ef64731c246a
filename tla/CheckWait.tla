------------------------------ MODULE CheckWait ------------------------------
(***************************************************************************)
(* One call of ralph_loop/checks.py _wait_for_required_checks_green: the   *)
(* polls, the two queries of each poll (required checks, then all), the    *)
(* no-checks grace window, the timeout and the wall-clock deadline, while  *)
(* GitHub reports, finishes and reruns checks and people push.             *)
(*                                                                         *)
(* Time is the clock of the call, 0 when it starts.  Only sleeps and       *)
(* queries take time.  An unlimited deadline is one the wait never meets.  *)
(***************************************************************************)
EXTENDS Naturals

CONSTANTS Checks,      \* checks GitHub may report
          Required,    \* those the base branch requires
          Poll,        \* --poll-seconds
          Timeout,     \* --checks-timeout-seconds
          Grace,       \* no_checks_grace_seconds
          Deadlines,   \* what --max-wall-clock-seconds may leave of the run
          MaxQuery,    \* bound: time of one query, transient retries included
          RateSleep,   \* _GH_RATE_LIMIT_SLEEP_SECONDS
          MaxPushes    \* bound: pushes to the PR during the wait

ASSUME RequiredChecks == Required \subseteq Checks
ASSUME PollPositive == Poll \in Nat \ {0} /\ RateSleep \in Nat \ {0}
ASSUME TimesNat == Timeout \in Nat /\ Grace \in Nat /\ MaxQuery \in Nat /\ MaxPushes \in Nat
ASSUME DeadlinesNat == Deadlines \subseteq Nat

VARIABLES now,        \* time.monotonic() - started
          deadline,   \* deadline - started
          pc,         \* where the wait is
          buckets,    \* buckets of the last answer, {} for an empty list
          required,   \* were_required
          outcome,    \* what the wait returned
          github,     \* each check of the PR head, as GitHub has it
          pushes,     \* pushes so far
          snap,       \* history: github when the last query was answered
          inTime      \* history: the head's required checks showed up in time

waitVars == <<pc, buckets, required, outcome, snap>>
envVars == <<github, pushes, inTime>>
vars == <<now, deadline, waitVars, envVars>>

\* "softfail" is the CodeRabbit failure that means no review credits.
CheckState == {"absent", "pending", "pass", "skipping", "fail", "softfail"}
BucketNames == {"pending", "pass", "skipping", "fail"}

TypeOK == /\ now \in Nat
          /\ deadline \in Deadlines
          /\ pc \in {"look", "required", "all", "decide", "done"}
          /\ buckets \in SUBSET BucketNames
          /\ required \in BOOLEAN
          /\ outcome \in {"none", "green", "red", "error"}
          /\ github \in [Checks -> CheckState]
          /\ pushes \in Nat
          /\ snap \in [Checks -> CheckState]
          /\ inTime \in BOOLEAN
          /\ pc = "all" => ~required
          /\ pc = "decide" /\ required => buckets # {}

Init == /\ now = 0 /\ deadline \in Deadlines
        /\ pc = "look" /\ buckets = {} /\ required = FALSE /\ outcome = "none"
        /\ github \in [Checks -> {"absent", "pass"}]
        /\ \A c, d \in Required : github[c] = github[d]
        /\ pushes = 0
        /\ snap = github
        /\ inTime = (\A c \in Required : github[c] # "absent")

Least(a, b) == IF a < b THEN a ELSE b

Return(result) == /\ pc' = "done" /\ outcome' = result
                  /\ UNCHANGED <<buckets, required, snap>>

(***************************************************************************)
(* The wait.                                                               *)
(***************************************************************************)

\* Mutant: no soft-fail filter.
BucketRaw(state) == state

\* _apply_soft_fail_filter.
Bucket(state) == IF state = "softfail" THEN "skipping" ELSE state

Shown(checks) == {c \in checks : github[c] # "absent"}

\* One gh pr checks: its answer is GitHub's state when it was asked.
Answer(checks) == /\ \E d \in 0..MaxQuery : now + d <= deadline /\ now' = now + d
                  /\ buckets' = {Bucket(github[c]) : c \in Shown(checks)}
                  /\ snap' = github
                  /\ UNCHANGED <<deadline, outcome>>

Look == /\ pc = "look" /\ now < deadline
        /\ pc' = "required"
        /\ UNCHANGED <<now, deadline, buckets, required, outcome, snap>>

AskRequired == /\ pc = "required" /\ now < deadline
               /\ Answer(Required)
               /\ required' = (Shown(Required) # {})
               /\ pc' = IF Shown(Required) # {} THEN "decide" ELSE "all"

AskAll == /\ pc = "all" /\ now < deadline
          /\ Answer(Checks)
          /\ pc' = "decide"
          /\ UNCHANGED required

\* Any number of times, each sleep cut off by the deadline.
RateLimited == /\ pc \in {"required", "all"} /\ now < deadline
               /\ now' = Least(now + RateSleep, deadline)
               /\ UNCHANGED <<deadline, waitVars>>

QueryFails == /\ pc \in {"required", "all"}
              /\ Return("error")
              /\ UNCHANGED <<now, deadline>>

\* _check_wall_clock, or a command or sleep cut off by the deadline.
CutOff == /\ pc \in {"look", "required", "all"}
          /\ now = deadline \/ (pc # "look" /\ now + MaxQuery >= deadline)
          /\ now' = deadline
          /\ Return("error")
          /\ UNCHANGED deadline

\* Mutant: pending checks are overlooked.
NoneFailed == "fail" \notin buckets

AllGreen == buckets \subseteq {"pass", "skipping"}

\* Mutant: the fallback needs no grace.
GreenNowEarly == AllGreen

GreenNow == AllGreen /\ (required \/ now >= Grace)

Green == /\ pc = "decide" /\ GreenNow
         /\ Return("green")
         /\ UNCHANGED <<now, deadline>>

\* Failing or cancelled, and nothing pending.
Red == /\ pc = "decide" /\ ~AllGreen /\ "pending" \notin buckets
       /\ Return("red")
       /\ UNCHANGED <<now, deadline>>

\* Mutant: the last sleep is not cut at the timeout.
WakeUpLate == Least(now + Poll, deadline)

\* Mutant: at the timeout exactly, one more look.
GiveUpLate == now > Timeout

WakeUp == Least(Least(now + Poll, Timeout), deadline)

GiveUp == now >= Timeout

\* sleep_for_next_poll, with the strict test before it: past the timeout it raises.
NextPoll == /\ pc = "decide" /\ ~GreenNow
            /\ AllGreen \/ "pending" \in buckets
            /\ IF GiveUp
               THEN Return("error") /\ UNCHANGED now
               ELSE /\ now' = WakeUp
                    /\ pc' = "look"
                    /\ UNCHANGED <<buckets, required, outcome, snap>>
            /\ UNCHANGED deadline

WaitStep == /\ \/ Look \/ AskRequired \/ AskAll \/ RateLimited \/ QueryFails \/ CutOff
               \/ Green \/ Red \/ NextPoll
            /\ UNCHANGED envVars

(***************************************************************************)
(* GitHub and people.  The required checks of a head are reported at once. *)
(***************************************************************************)
RequiredShow ==
  /\ Required # {} /\ \A c \in Required : github[c] = "absent"
  /\ github' = [c \in Checks |-> IF c \in Required THEN "pending" ELSE github[c]]
  /\ inTime' = (now + MaxQuery < Grace)
  /\ UNCHANGED <<now, deadline, waitVars, pushes>>

OptionalShow(c) ==
  /\ c \notin Required /\ github[c] = "absent"
  /\ github' = [github EXCEPT ![c] = "pending"]
  /\ UNCHANGED <<now, deadline, waitVars, pushes, inTime>>

Finish(c) ==
  /\ github[c] = "pending"
  /\ \E state \in CheckState \ {"absent", "pending"} : github' = [github EXCEPT ![c] = state]
  /\ UNCHANGED <<now, deadline, waitVars, pushes, inTime>>

Rerun(c) ==
  /\ github[c] \notin {"absent", "pending"}
  /\ github' = [github EXCEPT ![c] = "pending"]
  /\ UNCHANGED <<now, deadline, waitVars, pushes, inTime>>

\* The new head has no checks yet.
HeadMoves ==
  /\ pushes < MaxPushes
  /\ pushes' = pushes + 1
  /\ github' = [c \in Checks |-> "absent"]
  /\ inTime' = FALSE
  /\ UNCHANGED <<now, deadline, waitVars>>

EnvStep == /\ pc # "done"
           /\ \/ RequiredShow \/ HeadMoves
              \/ \E c \in Checks : OptionalShow(c) \/ Finish(c) \/ Rerun(c)

Next == WaitStep \/ EnvStep

\* Sleeps end and commands return or are cut off; nothing is assumed of GitHub.
Spec == Init /\ [][Next]_vars /\ WF_vars(WaitStep)

(***************************************************************************)
(* Properties.                                                             *)
(***************************************************************************)

Fine == {"pass", "skipping", "softfail"}

\* Green means that when GitHub was last asked, nothing it showed was pending or
\* failing; only optional checks may be, beside required ones (GUIDE.md, "The
\* result rules").
GreenHonest ==
  outcome = "green" =>
    \A c \in Checks : \/ snap[c] \in Fine \cup {"absent"}
                      \/ (required /\ c \notin Required)

\* Required checks that GitHub reports before the grace window ends, by more than
\* one query's time, are waited for: green means that they passed (README.md,
\* "This prevents a fresh commit from advancing before required checks have had
\* time to appear").
RequiredAwaited == outcome = "green" /\ inTime => \A c \in Required : snap[c] \in Fine

\* The wait never outlives the deadline, and no poll starts after the timeout,
\* however long the queries before it took.
TimesKept == now <= deadline /\ (pc = "look" => now <= Timeout)

\* The wait returns, at its exact limits too.
Returns == <>(pc = "done")

\* README.md: "Empty check results ... are treated as pending state, not success."
EmptyIsPending == outcome = "green" => \E c \in Checks : snap[c] # "absent"
===============================================================================
