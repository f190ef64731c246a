------------------------------- MODULE GhRetry --------------------------------
(***************************************************************************)
(* One gh command of a process, ralph_loop/gh_ops.py _gh_run_with_retry:   *)
(* an attempt is answered, or fails.  A failure that looks transient is    *)
(* tried again, MaxAttempts times in all, whether or not GitHub had carried *)
(* out the request before the answer got lost.  A rate limit is slept out  *)
(* and not counted: it changes nothing here.                               *)
(***************************************************************************)
EXTENDS Naturals

CONSTANT MaxAttempts

ASSUME MaxAttemptsPositive == MaxAttempts \in Nat \ {0}

VARIABLES pc,        \* the command under way
          attempt,   \* its attempts so far, with this one
          excused    \* history: what ends the run was not in the run's hands

callVars == <<pc, attempt, excused>>

\* The command is over, and the process goes on with next.
Over(next) == pc' = next /\ attempt' = 1

Answered(next) == Over(next) /\ UNCHANGED excused

\* Mutant: one attempt too many.
TryAgainOnce == attempt <= MaxAttempts /\ attempt' = attempt + 1 /\ UNCHANGED <<pc, excused>>

TryAgain == attempt < MaxAttempts /\ attempt' = attempt + 1 /\ UNCHANGED <<pc, excused>>

\* GitHub refuses for a reason of its own, or was tried often enough.
GivesUp(next) == Over(next) /\ excused' = TRUE

\* No answer, or an error that says nothing of the state of GitHub.
Errs(next) == TryAgain \/ GivesUp(next)
===============================================================================
