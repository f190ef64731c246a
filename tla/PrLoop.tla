-------------------------------- MODULE PrLoop --------------------------------
(***************************************************************************)
(* One PR's life under ralph_loop/cli.py main(): worktree, initial rebase,  *)
(* review rounds, CI rounds, final rebase and merge, among people who push, *)
(* merge, close and reopen, a base that moves, and processes that are       *)
(* killed and started again on the worktree and refs they left.            *)
(*                                                                         *)
(* The per-PR lock (module LoopLock) is assumed to work: at most one loop   *)
(* process exists.  Every command may fail or hit the deadline (Fail), and  *)
(* every answer of GitHub and Codex is a choice.                           *)
(***************************************************************************)
EXTENDS CommitAndPush

CONSTANTS FirstPatch,        \* the PR's commit when the model starts
          MaxReviewRounds,   \* --max-review-rounds, 0 is unlimited
          MaxCiRounds,       \* --max-ci-rounds, 0 is unlimited
          MaxBase,           \* bound: commits on the base branch
          MaxStarts,         \* bound: times the loop is started
          SharedFetches,     \* somebody fetches the branch in the shared repo
          WorktreesLost   \* the worktree directory goes between two starts

ASSUME FirstPatchHuman == FirstPatch \in HumanPatches
ASSUME RoundCapsNat == MaxReviewRounds \in Nat /\ MaxCiRounds \in Nat
ASSUME BoundsNat == MaxBase \in Nat /\ MaxStarts \in Nat
ASSUME SwitchesBoolean == SharedFetches \in BOOLEAN /\ WorktreesLost \in BOOLEAN

VARIABLES worktree,   \* the PR worktree directory exists
          base,       \* the base branch on GitHub
          pr,         \* the PR on GitHub
          unpushed,   \* commits people may still push
          approved,   \* commits approved by the Ralph user
          merged,     \* what was merged
          starts      \* processes started so far

gitVars == <<remote, tracking, head, tree, gated, reviewed>>
loopVars == <<pc, code, cp, run>>
envVars == <<base, pr, unpushed>>
restVars == <<worktree, envVars, approved, merged, starts>>
vars == <<gitVars, loopVars, restVars>>

PcLabels == {"off", "view", "worktree", "rebase", "lease", "review", "commit", "ci",
             "cifix", "ciwait", "finalwait", "fresh", "signoff", "merge", "delete"}

\* The locals of main(): the two switches, the phase and its loop's counter,
\* review_passed, and (history) the PR head last seen with green checks.
RunType == [skipRebase : BOOLEAN, skipMerge : BOOLEAN, phase : {"review", "ci"},
            round : Nat, passed : BOOLEAN, green : Commit \cup {NoCommit}]

\* "unfit": closed, draft or retargeted; _validate_pr_metadata refuses it.
PrStates == {"open", "unfit", "merged"}

TypeOK == /\ BranchTypeOK
          /\ pc \in PcLabels
          /\ code \in Codes
          /\ cp \in CpType
          /\ run \in RunType
          /\ worktree \in BOOLEAN
          /\ base \in Nat
          /\ pr \in PrStates
          /\ unpushed \in SUBSET HumanPatches
          /\ approved \in SUBSET Commit
          /\ merged \in Commit \cup {NoCommit}
          /\ starts \in Nat
          /\ pc \notin {"off", "view", "worktree"} => head # NoCommit
          /\ pc = "commit" => cp.pre # NoCommit

Init == /\ remote = [base |-> 0, log |-> <<FirstPatch>>]
        /\ tracking = NoCommit
        /\ head = NoCommit
        /\ tree = Clean
        /\ gated = {} /\ reviewed = {}
        /\ pc = "off" /\ code = "none" /\ cp = NoCall /\ run = NoRun
        /\ worktree = FALSE
        /\ base = 0
        /\ pr = "open"
        /\ unpushed = HumanPatches \ {FirstPatch}
        /\ approved = {} /\ merged = NoCommit
        /\ starts = 0

Goto(label) == pc' = label /\ UNCHANGED <<code, cp, run>>
Calls(call) == pc' = "commit" /\ cp' = call /\ UNCHANGED code

(***************************************************************************)
(* Start: resolve the PR, take the lock, prepare the worktree, rebase.     *)
(***************************************************************************)
Start ==
  /\ pc = "off"
  /\ starts < MaxStarts
  /\ starts' = starts + 1
  /\ pc' = "view" /\ code' = "none"
  /\ \E noRebase, noMerge \in BOOLEAN :
       run' = [NoRun EXCEPT !.skipRebase = noRebase, !.skipMerge = noMerge]
  /\ UNCHANGED <<gitVars, cp, worktree, envVars, approved, merged>>

\* _resolve_pr_data, _validate_pr_metadata.
View ==
  /\ pc = "view"
  /\ IF pr = "open" THEN Goto("worktree") ELSE Exit("failed")
  /\ UNCHANGED <<gitVars, restVars>>

\* Mutant: no fallback for a branch that is not fetchable.
BranchHead == remote

\* refs/pull/<n>/head, which outlives the branch of a merged PR.
PrHead == IF remote = NoCommit THEN merged ELSE remote

AfterWorktree == Goto(IF run.skipRebase THEN "review" ELSE "rebase")

\* _sync_existing_worktree: drop the files, refuse to drop commits.
SyncTo(start) ==
  IF Ancestor(head, start)
  THEN ResetTo(start) /\ AfterWorktree
  ELSE tree' = Clean /\ UNCHANGED head /\ Exit("failed")

\* _ensure_pr_worktree after _fetch_pr_branch_or_head.  When the branch is not
\* fetchable the PR's head ref is, and the tracking ref stays behind.  A local
\* branch without a worktree is checked out as it is.
EnsureWorktree ==
  /\ pc = "worktree"
  /\ tracking' \in {tracking, PrHead}
  /\ remote = NoCommit => tracking' = tracking
  /\ worktree' = TRUE
  /\ IF worktree
     THEN SyncTo(PrHead)
     ELSE /\ head' = IF head = NoCommit THEN PrHead ELSE head
          /\ tree' = Clean
          /\ AfterWorktree
  /\ UNCHANGED <<remote, gated, reviewed, envVars, approved, merged, starts>>

\* The branch is checked out in another worktree: the loop-already-running code.
BranchElsewhere ==
  /\ pc = "worktree"
  /\ Exit("64")
  /\ UNCHANGED <<gitVars, restVars>>

\* Mutant: a conflicting rebase is not aborted.
RebaseNoAbort ==
  /\ pc = "rebase"
  /\ head' = [head EXCEPT !.base = base]
  /\ Goto("lease") \/ (head.base # base /\ Exit("65"))
  /\ UNCHANGED <<remote, tracking, tree, gated, reviewed, restVars>>

\* _rebase_onto_base up to the push: a conflict is aborted and exits with 65.  Git drops
\* patches that are in the new base already; here they stay, as patches of no change.
Rebase ==
  /\ pc = "rebase"
  /\ \/ head' = [head EXCEPT !.base = base] /\ Goto("lease")
     \/ head.base # base /\ UNCHANGED head /\ Exit("65")
  /\ UNCHANGED <<remote, tracking, tree, gated, reviewed, restVars>>

LeasePush ==
  /\ pc = "lease"
  /\ \/ /\ LeaseHolds
        /\ Pushed(TRUE)
        /\ Goto(IF run.phase = "review" THEN "review" ELSE "finalwait")
     \/ LeaseHolds /\ Pushed(FALSE) /\ Exit("failed")
     \/ ~LeaseHolds /\ Exit("failed") /\ UNCHANGED <<remote, tracking>>
  /\ UNCHANGED <<head, tree, gated, reviewed, restVars>>

(***************************************************************************)
(* The review loop.                                                        *)
(***************************************************************************)

CodexFails == CodexEdits /\ \E c \in {"failed", "75"} : Exit(c)

\* Mutant: the round is not counted.
NextRoundUncounted(passed) == run' = [run EXCEPT !.passed = passed]

NextRound(passed) == run' = [run EXCEPT !.round = @ + 1, !.passed = passed]

\* _run_review_fix_round: Codex reviews, edits, reviews again and answers.
ReviewRound ==
  /\ pc = "review"
  /\ ~Capped(run.round, MaxReviewRounds)
  /\ \/ /\ CodexEdits
        /\ NextRound(FALSE)
        /\ Calls(Call(head, FALSE, FALSE))
        /\ UNCHANGED reviewed
     \/ /\ \E s \in TreeState, c \in {head, OnTop(head, "codex")} :
             head' = c /\ Approve(Tidy(s), c)
        /\ NextRound(TRUE)
        /\ Calls(Call(head, FALSE, TRUE))
     \/ CodexFails /\ UNCHANGED reviewed
  /\ UNCHANGED <<remote, tracking, gated, restVars>>

ReviewExhausted ==
  /\ pc = "review"
  /\ Capped(run.round, MaxReviewRounds)
  /\ Exit("failed")
  /\ UNCHANGED <<gitVars, restVars>>

Returned(result) == At("returned") /\ cp.result = result

Back(label) == pc' = label /\ cp' = NoCall /\ UNCHANGED code

\* Findings remain, or the round was discarded: another round.
ReviewAgain ==
  /\ run.phase = "review"
  /\ \/ /\ ~run.passed /\ Returned("no_changes")
        /\ ResetTo(cp.pre)
     \/ /\ \/ Returned("discarded")
           \/ ~run.passed /\ Returned("committed")
        /\ UNCHANGED <<head, tree>>
  /\ run' = [run EXCEPT !.passed = FALSE]
  /\ Back("review")
  /\ UNCHANGED <<remote, tracking, gated, reviewed, restVars>>

ReviewDone ==
  /\ run.phase = "review" /\ run.passed
  /\ Returned("no_changes") \/ Returned("committed")
  /\ run' = [run EXCEPT !.phase = "ci", !.round = 0]
  /\ Back("ci")
  /\ UNCHANGED <<gitVars, restVars>>

(***************************************************************************)
(* The CI loop.  Green is what GitHub shows for the PR head, not for HEAD. *)
(***************************************************************************)
AfterCi == IF ~run.skipRebase THEN "rebase" ELSE "fresh"

GreenSeen(label) == /\ pc' = label
                    /\ run' = [run EXCEPT !.green = remote]
                    /\ UNCHANGED <<code, cp>>

CiWait ==
  /\ pc = "ci"
  /\ ~Capped(run.round, MaxCiRounds)
  /\ \/ GreenSeen(AfterCi)
     \/ /\ pc' = "cifix"
        /\ run' = [run EXCEPT !.round = @ + 1]
        /\ UNCHANGED <<code, cp>>
  /\ UNCHANGED <<gitVars, restVars>>

CiExhausted ==
  /\ pc = "ci"
  /\ Capped(run.round, MaxCiRounds)
  /\ Exit("failed")
  /\ UNCHANGED <<gitVars, restVars>>

\* _run_ci_fix_round, with the reset of a round that is not ready.
CiFix ==
  /\ pc = "cifix"
  /\ \/ CodexEdits /\ Calls(Call(head, TRUE, TRUE)) /\ UNCHANGED run
     \/ ResetTo(head) /\ Goto("ci")
     \/ CodexFails
  /\ UNCHANGED <<remote, tracking, gated, reviewed, restVars>>

CiCommitted ==
  /\ run.phase = "ci"
  /\ \/ Returned("committed") /\ Back("ciwait")
     \/ (Returned("discarded") \/ Returned("no_changes")) /\ Back("ci")
  /\ UNCHANGED <<gitVars, run, restVars>>

CiWaitAgain ==
  /\ pc = "ciwait"
  /\ GreenSeen(AfterCi) \/ Goto("ci")
  /\ UNCHANGED <<gitVars, restVars>>

FinalWait ==
  /\ pc = "finalwait"
  /\ GreenSeen("fresh") \/ Exit("failed")
  /\ UNCHANGED <<gitVars, restVars>>

(***************************************************************************)
(* Merge.                                                                  *)
(***************************************************************************)

\* --skip-merge, or the fresh _pr_view and _validate_pr_metadata.
Fresh ==
  /\ pc = "fresh"
  /\ \/ run.skipMerge /\ Exit("0")
     \/ ~run.skipMerge /\ pr = "open" /\ Goto("signoff")
     \/ ~run.skipMerge /\ pr # "open" /\ Exit("failed")
  /\ UNCHANGED <<gitVars, restVars>>

\* _ensure_pr_head_matches_local, then _sign_off_pr.
SignOff ==
  /\ pc = "signoff"
  /\ IF remote = head
     THEN approved' = approved \cup {head} /\ Goto("merge")
     ELSE UNCHANGED approved /\ Exit("failed")
  /\ UNCHANGED <<gitVars, worktree, envVars, merged, starts>>

\* Mutant: no --match-head-commit.
MergeAnyHead ==
  /\ pc = "merge"
  /\ \/ /\ pr = "open"
        /\ merged' = remote /\ pr' = "merged"
        /\ Goto("delete")
     \/ /\ pr # "open"
        /\ Exit("failed")
        /\ UNCHANGED <<merged, pr>>
  /\ UNCHANGED <<gitVars, worktree, base, unpushed, approved, starts>>

\* gh pr merge --rebase --match-head-commit HEAD.  A failed merge of a PR that
\* turns out to be MERGED is a success.
Merge ==
  /\ pc = "merge"
  /\ \/ /\ pr = "open" /\ remote = head
        /\ merged' = head /\ pr' = "merged"
        /\ Goto("delete")
     \/ pr = "merged" /\ Goto("delete") /\ UNCHANGED <<merged, pr>>
     \/ /\ pr # "merged" /\ (pr = "unfit" \/ remote # head)
        /\ Exit("failed")
        /\ UNCHANGED <<merged, pr>>
  /\ UNCHANGED <<gitVars, worktree, base, unpushed, approved, starts>>

\* _delete_pr_head_branch, best effort, whatever the branch holds by now.
DeleteBranch ==
  /\ pc = "delete"
  /\ remote' \in {remote, NoCommit}
  /\ Exit("0")
  /\ UNCHANGED <<tracking, head, tree, gated, reviewed, restVars>>

(***************************************************************************)
(* Failures: CommandError from any command or deadline, and SIGKILL.       *)
(***************************************************************************)
Fail ==
  /\ pc # "off"
  /\ Exit("failed")
  /\ UNCHANGED <<gitVars, restVars>>

(***************************************************************************)
(* People, GitHub and the other processes of the machine.                  *)
(***************************************************************************)
HumanPush ==
  /\ remote # NoCommit
  /\ \E h \in unpushed : /\ remote' = OnTop(remote, h)
                         /\ unpushed' = unpushed \ {h}
  /\ UNCHANGED <<tracking, head, tree, gated, reviewed, loopVars, worktree, base, pr, approved, merged, starts>>

BaseMoves ==
  /\ base < MaxBase
  /\ base' = base + 1
  /\ UNCHANGED <<gitVars, loopVars, worktree, pr, unpushed, approved, merged, starts>>

PrChanges ==
  /\ remote # NoCommit
  /\ \/ pr = "open" /\ pr' = "unfit"
     \/ pr = "unfit" /\ pr' = "open"
  /\ UNCHANGED <<gitVars, loopVars, worktree, base, unpushed, approved, merged, starts>>

\* A person merges; GitHub may delete the branch with it.
HumanMerge ==
  /\ pr = "open"
  /\ pr' = "merged" /\ merged' = remote
  /\ remote' \in {remote, NoCommit}
  /\ UNCHANGED <<tracking, head, tree, gated, reviewed, loopVars, worktree, base, unpushed, approved,
                 starts>>

\* git fetch in the launching checkout, which shares its refs with the worktree.
SharedFetch ==
  /\ SharedFetches
  /\ remote # NoCommit
  /\ tracking' = remote
  /\ UNCHANGED <<remote, head, tree, gated, reviewed, loopVars, restVars>>

\* The cleanup after the PR was not open for a while, or a wiped temp directory:
\* the directory goes, the local branch stays.
LoseWorktree ==
  /\ WorktreesLost
  /\ pc = "off" /\ worktree
  /\ worktree' = FALSE /\ tree' = Clean
  /\ UNCHANGED <<remote, tracking, head, gated, reviewed, loopVars, envVars, approved, merged,
                 starts>>

CallStep == CpStep /\ UNCHANGED restVars

LoopStep == \/ View \/ EnsureWorktree \/ BranchElsewhere \/ Rebase \/ LeasePush
            \/ ReviewRound \/ ReviewExhausted \/ ReviewAgain \/ ReviewDone
            \/ CiWait \/ CiExhausted \/ CiFix \/ CiCommitted \/ CiWaitAgain \/ FinalWait
            \/ Fresh \/ SignOff \/ Merge \/ DeleteBranch
            \/ CallStep

EnvStep == \/ HumanPush \/ BaseMoves \/ PrChanges \/ HumanMerge \/ SharedFetch
           \/ LoseWorktree

Next == Start \/ LoopStep \/ Fail \/ EnvStep

\* Commands return: every command the loop waits for ends, if only by a timeout.
Spec == Init /\ [][Next]_vars /\ WF_vars(LoopStep)

(***************************************************************************)
(* Properties.                                                             *)
(***************************************************************************)

\* Everything on c came from people or passed `just ci` and `just test` as it
\* is, the logs that passed being g; nothing is a commit of Codex's own.
VettedBy(c, g) == \A i \in 1..Len(c.log) :
                    /\ c.log[i] # "codex"
                    /\ c.log[i] = "ralph" => SubSeq(c.log, 1, i) \in g

Vetted(c) == c # NoCommit => VettedBy(c, gated)

\* Only gated work leaves the machine, whatever Codex did in the rounds, and
\* whichever process pushed (GUIDE.md, "Ralph only commits and pushes the
\* gated working-tree changes it stages itself").
PushedWorkVetted == Vetted(remote) /\ Vetted(merged)

\* Ralph merges the commit it has in its worktree, approved as that commit, and
\* last seen by the loop with green checks.
MergeVetted ==
  [][pc = "merge" /\ pc' = "delete" /\ merged' # merged
       => merged' = head /\ merged' = run.green /\ merged' \in approved]_vars

\* A round ends committed or undone: between rounds, and at every rebase and
\* merge, no edit and no commit of Codex's is left in the worktree.
Settled == {"rebase", "lease", "review", "ci", "cifix", "ciwait", "finalwait", "fresh",
            "signoff", "merge", "delete"}
NoStrayWork == pc \in Settled => tree.state # "changes" /\ Vetted(head)

\* Once a review passed, what a repair changed is not pushed before a review
\* passed on it again; the same holds for every CI repair.
PushReviewed == At("push") /\ cp.after => head.log \in reviewed

\* A process that ended well or on a rebase conflict left a worktree the next
\* one can sync: no local commit is missing on GitHub.
RestartableWorktree ==
  pc = "off" /\ code \in {"0", "65"} /\ remote # NoCommit => Ancestor(head, remote)

\* The review phase ends with HEAD as a review passed it (GUIDE.md, "Run the
\* review/fix loop until /review passes").
ReviewPhaseReviewed ==
  [][run.phase = "review" /\ run'.phase = "ci" => head.log \in reviewed]_vars

\* With all three caps set, every process ends.
Terminates == pc # "off" ~> pc = "off"

\* What a process still has before it: the phase it is in, the rounds left of that phase,
\* where it is in the round, the repair rounds left, and where it is in its call.
Left(n, max) == IF n < max THEN max - n ELSE 0

Phase == CASE pc = "off" -> 0 [] pc = "delete" -> 1 [] pc = "merge" -> 2 [] pc = "signoff" -> 3
           [] pc = "fresh" -> 4 [] pc = "finalwait" -> 5
           [] pc = "lease" -> IF run.phase = "ci" THEN 6 ELSE 10
           [] pc = "rebase" -> IF run.phase = "ci" THEN 7 ELSE 11
           [] pc = "worktree" -> 12 [] pc = "view" -> 13
           [] OTHER -> IF run.phase = "ci" THEN 8 ELSE 9

InRound == CASE pc = "cifix" -> 3 [] pc = "commit" -> 2 [] pc = "ciwait" -> 1 [] OTHER -> 0

InCall == CASE cp.at = "fix" -> 6 [] cp.at = "top" -> 5 [] cp.at = "review" -> 4
            [] cp.at = "gates" -> 3 [] cp.at = "stage" -> 2 [] cp.at = "push" -> 1 [] OTHER -> 0

Before == <<Phase,
            Left(run.round, IF run.phase = "ci" THEN MaxCiRounds ELSE MaxReviewRounds),
            InRound, Left(cp.round, MaxLocalRounds), InCall>>

Less(a, b) == \E k \in 1..5 : a[k] < b[k] /\ \A j \in 1..k - 1 : a[j] = b[j]

\* Whatever Codex, GitHub and people do, each step of a process brings it nearer to its end
\* and nobody else's takes it back, so that it takes finitely many if the caps are set: no
\* repair, round or wait goes back to a state from before it.
Progress == [][/\ LoopStep \/ Fail => Less(Before', Before)
               /\ EnvStep => Before' = Before]_vars

GB == INSTANCE GatedBranch WITH branch <- remote

\* The loop and its crashes never do more to the PR branch than this.
ImplementsGatedBranch == GB!Spec
===============================================================================
