# Verification of ralph-loop

TLA+ specifications, TLC runs and TLAPS proofs for `ralph_loop`, the program
that takes one pull request through Codex review rounds, CI rounds, a rebase and
the merge, and for the supervisor that runs one such process per open PR.
`PROJECT.json` maps every definition to the lines it stands for.

## 1. The system

Three kinds of processes, on one machine, sharing a clone and GitHub:

| part | state it keeps | operations | talks to |
|---|---|---|---|
| per-PR lock (`worktrees.py`) | the lock file `pr-<n>.lock`, a `flock` on its inode, the pid written in it | acquire, release, probe by the cleanup, unlink by the cleanup | every loop process of the PR, every supervisor of the repository |
| branch, tracking ref, PR worktree (`git_ops.py`, `worktrees.py`) | head on GitHub, `refs/remotes/origin/<branch>`, the local branch, the files | fetch, create or sync the worktree, rebase and `--force-with-lease`, reset and clean, plain push | people who push, other fetches in the shared clone |
| commit and push (`quality.py`) | `pre_round_sha`, `review_gate_needed`, the repair counter | discard Codex's commits, review gate, `just ci` + `just test`, repair rounds, stage, signed commit, push | Codex, git |
| single-PR loop (`cli.py main`) | round counters, `review_passed`, switches, exit code | resolve, lock, worktree, initial rebase, review rounds, CI rounds, final rebase, fresh validation, approval, merge, branch deletion | all of the above |
| Codex sessions (`codex_agent.py`) | none (a child process with the worktree as its directory) | review-and-fix, CI fix, local fix, read-only review; each answers with a marker | files and HEAD of the worktree |
| checks (`checks.py`, `gh_ops.py`) | start time of the wait | poll until green, red, grace or timeout | GitHub |
| merge and approval (`gh_ops.py`) | none | approve HEAD, merge with `--match-head-commit`, delete the branch | GitHub |
| gh retry (`gh_ops.py`) | attempt counter, rate-limit reset time | transient retries with backoff, rate-limit sleep | GitHub |
| fan-out supervisor (`cli.py`) | per child: process, start time, log activity, exit time, backoff | list PRs, spawn, poll, stop stuck children, respawn, signals, re-exec | loop processes, lock files, worktrees |
| stale-state cleanup (`worktrees.py`) | none | remove worktrees of PRs that are not listed, remove free lock files | everything the loops own |
| random-repo runner (`run-ralph-random-repos-forever.sh`) | lock directory, pid files, active-iteration variables | start, stop, one iteration: pick, clone, worktree, Codex, save the branch, clean up | its own children |
| review comments (`gh_ops.py`, `codex_agent.py`, `cli.py`) | `addressed`, the comments Codex says it fixed | fetch, parse, reply | GitHub |
| multi-directory fan-out (`cli.py`) | one process per directory, `shutdown_event` | resolve the arguments, spawn, poll, SIGTERM, wait 10 s, SIGKILL | supervisors |
| identity, runner of commands, CLI, prompts | deadline, log files | see `PROJECT.json` | |

What makes it hard: several processes per PR are kept apart by an advisory lock
on a file that another process may unlink; Codex may do anything to files and
HEAD; every command may fail or be cut off by a deadline; people push, close and
merge at any moment; processes are killed and restarted on the state that is left;
refs are shared by all worktrees of the clone. The hazards in `PROJECT.json` list
these places one by one, each with the property that guards it.

What makes each part correct:

* lock: two loops never work on one PR; exit 64 ("already running") is true; a
  dead loop's lock is free;
* commit and push: what is committed is what the gates (and, where asked, the
  review) passed on; a round ends committed or undone;
* loop: only gated work reaches GitHub, no person's commit is lost, the merge is of
  the reviewed, green and approved head, the process ends;
* checks: green is only said of what GitHub showed to be green, required checks that
  come in time are waited for, the wait keeps its limits and returns;
* supervisor: no process is lost over stuck children, failed spawns, reloads and
  shutdowns; an open PR is tried again for ever, but not before its backoff; SIGTERM
  ends everything;
* calls on GitHub: a call whose answer was lost is not taken for one that failed, nor
  the other way round; what is merged is approved as it is; exit code 0 means merged;
  a reviewer is told of a fix only if it was pushed;
* Codex's answers: the marker that ends a message decides, however long the message;
* cleanup: it takes the worktree of no loop of another repository, nor of its own
  while the PR is on its list, and leaves no lock behind;
* multi-directory fan-out: a signal ends it, and no loop is left that nobody told, but for
  those of a supervisor it had to kill.

## 2. The modules

| module | models | notes |
|---|---|---|
| `LoopLock` | `_acquire_loop_lock`, `release`, the cleanup's probe and unlink | every system call is a step |
| `Cleanup` | the whole of `_cleanup_stale_loop_state`, for several repositories, beside loops in their worktrees | extends `LoopLock`, whose steps are its scan of lock files |
| `MCCleanup` | the values of `RepoOf` for TLC | |
| `LockProofs` | theorems about `LoopLock` and `Cleanup` | any number of loops, supervisors, inodes and repositories |
| `Branch` | refs, worktree and git commands | state and operators only |
| `CommitAndPush` | `_commit_and_push` | extends `Branch`; a subroutine with the fields of `cp` as its frame |
| `PrLoop` | `main()` from the PR lookup to the merge, with people, crashes and restarts | extends `CommitAndPush`; refines `GatedBranch` |
| `GatedBranch` | what automation may do to a PR branch | the abstract specification |
| `PrLoopProofs` | theorems about `PrLoop` | any caps, any number of starts, any set of human commits |
| `PrLoopRefinement` | `PrLoop` implements `GatedBranch` | extends `PrLoopProofs` |
| `CheckWait` | `_wait_for_required_checks_green` with its queries | one call, the verdict of which `PrLoop` takes as a choice (`GreenSeen`) |
| `CheckWaitProofs` | theorems about `CheckWait` | any checks and any times |
| `Supervisor` | a fan-out supervisor as its parent sees it | an abstract specification: when it may leave loops that nobody told to end; implemented by `FanOut`, instantiated by `MultiFanOut` |
| `FanOut` | `_fan_out_all_prs` and the processes it runs | assumes of a PR's lock what `LoopLock` shows of it; refines `Supervisor` |
| `FanOutProofs` | theorems about `FanOut` | any PRs, processes and backoffs |
| `CodexAnswer` | how the last message of a review session is cut, and read | operators, with a reference (`Claims`) |
| `CodexAnswerProofs` | theorems about `CodexAnswer` | messages of any length |
| `GhRetry` | `_gh_run_with_retry` | the outcomes of one call, as operators on its variables |
| `GitHubCalls` | what one loop does on GitHub, call by call | composes `CodexAnswer` and `GhRetry`, with people and other loops |
| `GitHubCallsProofs` | theorems about `GitHubCalls` | any messages, comments and numbers of attempts |
| `MultiFanOut` | `_resolve_target_directories`, `_fan_out_across_directories` | its supervisors are `Supervisor`'s, which `FanOut` refines |
| `MultiFanOutProofs` | theorems about `MultiFanOut` | any directories, arguments and times |

### LoopLock

`path` is the inode the name points to (or none), `fd` the inode each process has
open, `held` the processes whose descriptor has the flock, `listed` whether the PR
is on GitHub's list, `pc` where each process is. A loop goes
`Start, OpenLock, Flock | FlockBusy, WritePid, Release`; a supervisor's cleanup
goes `Scan, ProbeOpen, ProbeFlock, ProbeUnlock, Unlink`. Every system call is a
step of its own. `Crash` closes a process's descriptors, as the kernel does.

### Cleanup

A supervisor lists the PRs once (`ListPrs`), goes through `LoopLock`'s steps for the lock
file (`CleanLock`), lists the directories (`ListTrees`) and visits them in any order
(`Visit`): it removes those of its own origin (`GitRemove`, then `Rmtree` if git
refused), and may be killed anywhere (`Abort`). A loop enters its worktree after the
lock (`EnterTree`). The lock file is named after the PR number alone, so loops and
supervisors of different repositories meet on it; `RepoOf` says which process is of which.
`exposed` is history: the loops that were in their worktree while a supervisor of the same
repository cleaned up without the PR on its list.

### Branch, CommitAndPush, PrLoop

A commit is a base and a log of patches. A rebase changes the base, so the commit is
another one, and keeps the log. Patches are `"ralph"` (made by `_commit_and_push`),
`"codex"` (made by Codex on its own) and people's. Files are abstracted to
`clean`, `artifacts` (only ignored kinds, never staged) and `changes`; two history
bits say whether the gates and a review passed on the present files, and the
history variables `gated` and `reviewed` collect the logs that passed.

`pc` is the statement of `main()` the process is at. A command whose effects
matter, with the branch on its result, is one action; `Fail` is the
`CommandError`, timeout or signal that can end the process between any two. A
push may arrive and lose its answer. `Start` may be taken again after the process
ended, on the refs and files it left. `EnvStep` has the people (`HumanPush`,
`HumanMerge`, `PrChanges`, `BaseMoves`), a fetch in the shared clone
(`SharedFetch`) and the loss of the worktree directory (`LoseWorktree`).
`CodexEdits` lets a session leave any files and a commit of its own.

### CheckWait

`now` is `time.monotonic() - started`; it moves only in queries (`Answer`), rate-limit
sleeps (`RateLimited`) and the sleep between polls (`NextPoll`). A poll is
`Look` (the wall-clock test), `AskRequired`, `AskAll` if no required check was
reported, and one of `Green`, `Red`, `NextPoll`. `QueryFails` and `CutOff` are the
`CommandError`s. `github` is what GitHub has of each check, which `EnvStep` changes
between any two steps: checks appear, finish, are rerun, a push takes them all away.
The history variables `snap` and `inTime` hold GitHub's state at the last answer and
whether the required checks appeared before the grace window ended. Required checks of
a head appear together; names, links and workflows are left out.

### FanOut

`children`, `cooling` (the keys of `last_exit_at`), `age` (the time since that exit),
`backoff` (`pending_backoff`) and the two flags are the supervisor's variables; `todo`
is what the loop over `children` or `last_exit_at` has still to visit. The supervisor
goes `List, Launch..., (Wait, sweep, respawn)..., Stop`, then `ReExec`, or
`Terminate, StopWaits`. One visit of a PR is one action: `Reap`, `Stuck` or `Leave`
in the sweep, `CoolStill`, `Drop` or `Respawn` after it. `proc` has the loop
processes: `starting` (before the lock), `running` (with it), `exited` (until the
supervisor polls it), `gone`. A process may end with any code, never end, or outlive
SIGKILL by the five seconds the supervisor waits. `failing` and `owed` are history:
the wait the exits of a PR call for, computed from the documented rule and not from
`pending_backoff`. Signals, closed and reopened PRs may come between any two steps.

Time is cut off at the largest constant it is compared with, so a longer wait is the
same state. Whatever a sweep's queries take is counted with the next `Wait`.

### CodexAnswer, GhRetry, GitHubCalls

`pc` is the call the process has under way, `attempt` its tries. Every call is one action,
whose disjuncts are its outcomes: the request takes effect and is answered
(`Answered`), takes effect and looks failed, or fails (`Errs`: tried again, or given
up). The order is that of `main()`: `Login`, `SetConfig`, the label (`Edit`,
`Create`, `Relabel`), the rounds (`FetchComments`, `CodexSession`, `ReadAnswer`,
`CommitRound`, `Reply`), `ChecksGreen`, `FreshView`, the label once more,
`PrepareMerge`, `CheckHead`, `AskUser`, `AskReviews`, `Approve`, `Merge`, `VerifyMerge`,
`ViewBranch`, `DeleteBranch`. `Cut` is the deadline.

`message` is what a session leaves to be read, as a sequence of lines: markers, prose, and
the blocks and lines that claim a comment. `Shown` is what is left of a long one,
`Verdict` the answer and `Addressed` the comments to reply to. `posted` counts what is
on GitHub of the replies of a round, `unheard` those of them that the loop was not told of.
`ours`, `review` and `signed` say whether the head of the PR is the worktree's, what the
Ralph account's last review is of, and (history) whether it ever approved this head.
`excused` is history: something ended, or may end, the run that no retry could help.

People and other loops push, close, merge, review, dismiss reviews and create or delete
the label between any two calls after the rounds; during the rounds no call reads what
they change, and the pushes that make a round fail are in `PrLoop`.

### MultiFanOut

`stage` is where the launcher is: `spawn`, `poll`, `stopping`, `over`, or `died` (no
handler for the signal yet, SIGHUP, SIGKILL). `sup` has the supervisors: `listing` (no
handlers yet), `up`, `asked` (SIGTERM has come, the sweep goes on), `stopping` (its loops
were told), `ended`, `killed`, or `launcher`: a process that was given several directories
and fans out once more. `untold` has the directories with loops nobody has told.
`waited` is the time of the wait for `at`, `busy[d]` the time process `d` has been alive
after `terminate()`, counted up to the 10 s of `proc.wait` (`StopWait`); both move with
`Tick`. The arguments are paths in two forms, absolute and real or any other, and
`ChildArgs` is what `_fan_out_across_directories` passes on of them.

The two models of a supervisor are joined by `Supervisor`: it lists, runs loops, is asked,
tells its loops and ends, or starts anew with all of them told. `FanOut` implements it
(`ImplementsSupervisor`; `Stage` maps its program to the stages). `MultiFanOut` assumes it
and no more: the steps of its supervisors are the steps of `Supervisor`, instantiated for
each directory (`Supervise`), at any time and in any order, a reload included. So a
supervisor that ended with a loop untold would break `ImplementsSupervisor` in `fan_out`,
and `Supervisor` weakened to allow it would break `StopsClean` (that is the
mutant `TellSome`). Of a process that is a launcher again nothing is assumed (`FansOut`).

## 3. The runs

| run | what it asks | bounds |
|---|---|---|
| `loop_lock` | type, mutual exclusion, truth of exit 64 | 3 loops, 4 inodes, no cleanup |
| `cleanup` | lock ownership with supervisors that unlink, and worktrees kept under running loops | 2 repositories with a PR of one number, a loop and a supervisor each, 5 inodes |
| `loop_lock_unlink_race` | violation: two loops run at once after an unlink | 2 loops, 1 supervisor, 5 inodes |
| `pr_loop` | one process among people, all phases: what is pushed, what is merged, what a round leaves, progress of each step, termination | 2 review rounds, 2 CI rounds, 1 repair round, 1 base move, 2 human commits, shared fetches and lost worktrees on |
| `pr_loop_restart` | two processes one after another: refinement of `GatedBranch`, restartable worktree | 1 review round, 1 CI round, 1 repair round, 2 starts |
| `pr_loop_review_bypass` | violation: the review phase ends without a review of HEAD | as small as shows it |
| `pr_loop_lost_worktree` | violation: a lost worktree directory lets a Codex commit out | 2 starts, `WorktreesLost` |
| `check_wait` | type, honest green, required checks awaited, limits kept, the wait returns | 1 required and 1 optional check, 1 push, timeout 6, grace 3, poll 2, deadline 5 or 12 |
| `check_wait_empty` | violation: no check at all is green after the grace window | the same |
| `fan_out` | type, no process lost, backoff kept, an open PR is tried again, SIGTERM stops all, refinement of `Supervisor` | 1 PR, 3 processes, backoffs 1 to 5, 1 reload, 1 process that outlives SIGKILL |
| `github_calls` | answers read right, replies true, merges approved, exit code true, retries transparent | 2 comments, messages of 4 lines with 3 shown, 3 attempts, 2 rounds |
| `multi_fan_out` | type, clean stop, a signal ends the launcher | 2 repositories and their parent, 3 arguments, a wait of 2 |

Why the bounds are enough. Two rounds of each kind give a first round, a repeated
round and a cap that is hit; one repair round gives repair, repetition and cap.
The first human commit makes the PR, the second is the one that races with the
loop. One base move makes rebases that change something and rebases that do not.
Two starts give every state one process can leave to another; the proofs of
section 5 do not depend on that number. Three loops on a lock give an owner, a
waiter, and a third that could profit from a mistake between the two.

One required and one optional check give every mix of the two lists; the deadline 5
comes before the timeout and 12 after it; the poll does not divide the timeout, so
that sleeps are cut; one push makes the checks vanish once. Three processes let a
forgotten one, one told to end and a new one of the same PR exist together. With a
ramp of 2, 4 and 5 a doubling, a doubling that is capped and the long backoff are
different waits. That the supervisor of several PRs loses none is proved for any PRs
(`NoProcessLeft`, `SupervisorRefined`): the second PR that a failed spawn of the first takes
down is in the theorems only.

Two repositories with one PR number are the smallest case in which a supervisor sees a
directory and a lock that are not its own; five inodes let each of the four processes and
the path have one. Messages of four lines with three shown hold every order of a marker, a
claim in a block, a claim on a line of its own and an end that is cut off; the tail of a
cut message is two lines. Three attempts are the code's. In `multi_fan_out` three
processes are waited for one after another, and the time of the wait passes in two steps, so
that a supervisor may move before, within and after it.

Named bounds that are not in the code: `MaxLines` (lines of a message), `MaxArgs` (arguments), `MaxQuery` (time of one query), `MaxPushes`,
`MaxWait` (time of one round of the supervisor), `MaxReloads`, `MaxUndead`, `Procs`
(processes alive at once), `MaxStarts`, the human commits and the base moves.

`CHECK_DEADLOCK FALSE` is in the configurations of `PrLoop`, because the model
really stops when the starts are used up and nobody has anything left to push; of
`CheckWait`, because a returned wait is over; and of `FanOut`, `MultiFanOut` and
`GitHubCalls`, because a process may have exited with nothing left to happen.

## 4. Fairness

`PrLoop` assumes `WF_vars(LoopStep)`: a process that can go on does. Every command
the loop waits for returns or is ended by its timeout (`process.py`), so no step
blocks forever, and nothing is assumed of people, of crashes, or of the answers
GitHub and Codex give. `Terminates` therefore rests on the caps alone: with a cap of
0 (unlimited) it is not claimed. `Progress` is what it rests on, without fairness: each
step of the process makes `Before` (phase, rounds left, place in the round, repairs left,
place in the call) smaller, and nobody else's step changes it.

`CheckWait` assumes `WF_vars(WaitStep)`: sleeps end, and commands return or are cut off
by the deadline. Nothing is assumed of GitHub, which may keep a check pending for ever.
`Returns` holds because time advances with every poll.  A rate limit that lasts is
slept through until the deadline, so an unlimited deadline is left out there.

`FanOut` assumes `WF_vars(Supervise)` (its waits have timeouts, and `gh` answers, fails
or stops being rate-limited) and weak fairness for the end of processes that were
told to end: they get SIGTERM, and those the supervisor waited for SIGKILL too.
After a re-exec only SIGTERM is sent; a loop ends by it, since `main()` turns it into
`SystemExit` (`cli.py:1081`), whatever command it waits for. Nothing is assumed of other processes: they may hang for ever.

`MultiFanOut` assumes `WF_vars(LauncherStep)` (its waits have timeouts) and `WF_vars(Tick)`
(time passes). Nothing is assumed of the processes it started: one that was asked may
never end of itself.
`GitHubCalls` and `Cleanup` have safety properties only.

## 5. Proofs

`LockProofs`. `OwnInv` (types and `LockOwnership`) is inductive with crashes and
cleanups. `MutualExclusion` is not inductive, and false with cleanups: an unlinked
inode can be locked next to the new one. The strengthening says that every open descriptor
of a loop is of the inode the name points to; the one step that breaks it is an unlink of a
file that a loop has open. So `MutexUnlessUnlinked` takes
`[][UnlinkSafe]_vars` as a hypothesis and not that there are no cleanups: a cleanup that
kept the flock over the unlink would satisfy it, the code's does not
(`loop_lock_unlink_race`). `BusyMeansOwned` does need `NoCleanup`, since the probe itself
holds the flock.

Every step of `Cleanup` is a step of `LoopLock` or leaves the lock alone (`StepOnLock`), so
`LockOwnership` carries over. `WorktreeKept` needs that a scan only holds a directory of its
own repository for removal, and that a scan that has directories to visit began on a list
without the PR; a loop that is in its worktree then is exposed.

`PrLoopProofs` and `PrLoopRefinement`. Four layers, each inductive given the ones before:

* `TypeInv`: types, and the life of the PR (merged exactly when something was merged,
  the branch gone only after that). Needed first because `PrHead` must be a commit.
* `VetInv`: `PushedWorkVetted` is not inductive, since a push sends whatever HEAD
  is. The strengthening says what a call of `_commit_and_push` has in its
  hands at each label: `pre_round_sha` is vetted throughout; HEAD is
  `pre_round_sha` from the review gate to the staging; what is staged is gated. The one
  step that breaks it is `EnsureWorktree` on a local branch whose directory is gone, which
  is checked out without a sync; `[][CheckoutVetted]_vars` says that such a branch is
  vetted, and is all that is assumed.
* `FollowInv`: between rounds HEAD is an ancestor of the branch on GitHub, and the
  head last seen green lies between the two. When HEAD equals the branch, the three
  are one: that is `MergeVetted`. For this an unsynced checkout must be at the head of the
  PR (`CheckoutSynced`, which implies `CheckoutVetted`).
* `LeaseInv`: the tracking ref never counts more patches than HEAD when HEAD is
  about to be rebased. A lease that holds (branch = tracking ref) then shows that
  GitHub has no patch HEAD has not, so the forced push drops nothing. That is the step
  of the refinement of `GatedBranch`, and the one that a fetch of somebody else's breaks if
  it comes while the loop works (`QuietFetch` excludes it; before and after it does no harm).
  A bare `--force-with-lease` without a tracking ref expects the branch to be absent, so the
  push of a clone that never fetched it makes a deleted branch anew. `Fits` says what it
  holds then: once the branch is gone, what a rebase starts from is within what was merged. The worktree came from `refs/pull/<n>/head`, which stays.

Further invariants stand on these layers. `ReviewInv` says, at each label of a call that
asks for the review gate after a repair, that the files were reviewed or the gate is still
to come; `PushReviewed` follows, with no assumption. `PassInv` says the same of the round
that ends the review phase, for what is not committed as well. Its one hole is the finding
of `pr_loop_review_bypass`: a call that returns `no_changes` before the gate it asked for
(`TakenBack`). `PhaseReviewedUnlessTakenBack` shows that there is no other. `RestartInv` is
`RestartableWorktree` with the type of HEAD; its steps are the three exits of `FollowInv`'s
settled labels, and people who only add to the branch.

`ProgressMade` is the safety core of `Terminates`, for all caps but 0 (`CapsSet`) where the
run has 1 and 2. Each step lowers one component of `Before` and keeps those before it; a
round or a repair may set back the later ones only by using up one of its cap. `PhaseInv`
(the review loop counts review rounds, the CI loop CI rounds) is what makes the counter
that is compared the one that is counted. From it to `Terminates` one needs fairness and
that no descent in such tuples is infinite, which stays with TLC.

The hypotheses are named in the theorems, as conditions on single steps of the
environment or of the code, not as switches. `VettedWithoutLoss` and
`GatedBranchUndisturbed` give the cases of the configurations (`WorktreesLost` and
`SharedFetches` off).

`CheckWaitProofs`. `TimesKept` is inductive with the types. `GreenHonest` is not: a
verdict is made from `buckets`, two steps after the answer, while GitHub changes. The
strengthening (`AnswerInv`, `ReportInv`) ties `buckets` to `snap`, not to `github`, at
`decide`. `RequiredAwaited` needs that a poll that got no required check, in which
the required checks then appear, is decided before the grace window ends
(`WindowInv`): that is why `inTime` leaves room for one query.

`FanOutProofs`. `Inv` is `TypeOK`, `NoneUntold` and what each pass still has to visit
(`TodoInv`: in the sweep, PRs with a child; in the respawns, PRs that cool; at the
launch, PRs with neither). Without it a launch could overwrite a child, and
`NoneUntold` would not be inductive. `BackoffKept` follows from `OwedInv`, that the
pending backoff is at least what is owed, and no more unless the last exits were failures. That is two-sided: the
ramp survives the respawn, as the comment in the code says, and an ordinary exit resets it,
for no PR is passed over (`PassStep`) once the wait its exits call for is done.

`SupervisorRefined` maps the program to the stages of `Supervisor` (`Stage`) and the
processes to one bit, whether some are untold. That bit may only be set while the
supervision runs; that it is not set at the end and at a reload is `NoneUntold` together
with `StageInv`, that no child is left once all were told.

`GitHubCallsProofs`. `MergedApproved` needs, at the merge, that the head is the worktree's
and approved or that GitHub will refuse it: a push takes `ours` away for good,
and an approval names the worktree's HEAD. `RetriesTransparent` needs that each way a PR
may stop being open past the last look is excused or a merge, and that the label is there
when it is set the second time, or somebody deleted it. `TypeOK` needs that no call takes
an attempt it has not; `RepliesHonest` needs `RoundInv`: what a round works on was fetched,
claimed and pushed in that round, and `unheard` counts only what was sent.
`AnswerHonoured` is about the step `ReadAnswer` alone, and rests on the next module.

`CodexAnswerProofs`. `MarkerIsRead`: `Shown` keeps the last line, whatever the limit, and
`Marker` reads the last marker that stands on a line of its own. `AddressedIsClaimed`: the scan, a
recursive function over the lines, lists each claimed comment exactly once. The library's
induction theorems cannot be used, so the induction is made by hand: were the scan wrong
from some line on there would be a last such line (`WFMin` of the well-founded order of
the naturals, from the end of the message), and at that line the defining equation of the
function and the correctness from the following lines on contradict it.

`MultiFanOutProofs`. `StopsClean` needs that every living supervisor is known to the
launcher (in `procs`, then in `todo`), that a supervisor with untold loops is up, asked or
was killed late, and that the one waited for was asked before the wait began (`WaitInv`):
only this makes the time of the wait a time the supervisor had. Of supervisors it uses the
steps of `Supervisor` alone, of processes that are launchers again only that they exist.

Only model-checked: `Terminates`, `Returns`, `KeepsTrying`, `Stops` and `SignalEnds`, since
liveness is out of the prover's reach. Every other property of a passing run is a theorem.
Of the properties of the violation runs, `MutualExclusion`, `PushedWorkVetted` and
`ReviewPhaseReviewed` are theorems under the hypothesis that the step the run shows is not
taken; `EmptyIsPending` is false by the design of the grace window.

## 6. What the runs found

1. **Unlink race** (`loop_lock_unlink_race`). `_cleanup_stale_loop_state` probes the
   lock, releases it and unlinks the path. A loop that opened the file in between
   locks an inode without a name, and the next loop locks a new file.
2. **Review bypass** (`pr_loop_review_bypass`). Codex passes the review with edits,
   the gates fail, the repair takes the edits back, and `_commit_and_push` returns
   `no_changes` before the review gate it has just asked for again. The round counts as
   passed, on a HEAD no review passed.
3. **Lost worktree** (`pr_loop_lost_worktree`). Without its directory, a local branch is
   checked out without `_sync_existing_worktree`. What Codex had committed on it
   when its process died is pushed by the initial rebase. By the same path the
   branch overwrites what people pushed meanwhile, since the lease is taken
   from the fetch just made.

4. **Empty checks** (`check_wait_empty`). After the grace window of 120 s an empty list is
   accepted as green, where README.md and GUIDE.md say that it stays pending until
   `--checks-timeout-seconds` and then stops the run with an error.

Limits of the code that are modelled and that no property claims away:
a fetch by anybody in the shared clone while a loop works moves the lease of a rebase
(`SharedFetches`; `ImplementsGatedBranch` is claimed without it); the initial rebase of a
clone that never fetched the branch makes it anew when it was deleted with a person's
merge (`Recreated`: only of what was merged or gated); a probe of the cleanup makes a starting
loop exit 64 although nobody owns the PR (`loop_lock` has no cleanup); a commit whose
push failed makes every later start refuse (`SyncTo`) until a person acts; the
branch is deleted after the merge whatever was pushed to it since; a failed spawn ends
the supervision of all PRs; a SIGHUP that comes with a SIGTERM wins; two processes of
one PR exist for a while after a reload or an undead child, kept apart by the lock.

Met while modelling, without a run of their own:

* `cli.py:931` compares the arguments as they were typed with resolved paths. A relative
  directory, or the parent given with `--recursive`, is passed on to every process: each
  then is a launcher itself (`Supervises` is false), without end for relative paths, where
  the help says that each directory "gets its own supervisor". It follows from the arguments
  alone; the model has such processes, and assumes nothing of them.
* `identity.py:50` retries a locked git configuration if the error says so, but the error of
  `_run_command` (`process.py:208`) never carries git's output: the first collision ends
  the run, although the docstring promises the retry. `SetConfig` has what happens.
* `cli.py:990`: a supervisor that is still in its sweep 10 s after SIGTERM is killed, and its
  loops run on. `StopsClean` says that no others do. A launcher that dies in its spawn
  loop, or by SIGHUP, leaves all supervisors (`Dies`).
* `gh_ops.py:412`: a reply whose answer is lost is posted again. `RepliesHonest` counts it.
* An approval that is withdrawn after it was looked at still serves for the merge, and a
  review of no known commit counts for any head.
* `codex_agent.py:71`: claims in the middle of a long message are lost, and a block whose end
  is cut off swallows the claims after it; `AnswerHonoured` claims the comments for messages
  within the limit, the marker for all.
* The lock file is named by the PR number alone, so a loop of one repository makes a
  loop of another exit 64; the cleanup of a repository takes the worktree of its own running
  loop when the PR has left its list (`exposed`).

## 7. Not modelled

* `run-ralph-random-repos-forever.sh` and `-many.sh`: shell programs around the loop with their
  own lock directory and iteration state. They share no variable with the Python program;
  their two hazards known from reading are that the lock directory exists before the pid in
  it does, and what a failed save leaves behind.
* Codex sessions that outlive a killed loop (`process.py:111`): the next loop and the session
  would write one worktree at once, and what then is in the files nothing in the code
  promises.
* GitHub's merge queue: `gh pr merge` is taken to merge or fail, as the code takes it.
* A rate limit that never ends, outside `CheckWait`: without a deadline a call sleeps
  again and again, which no property but liveness could see; `FanOut` and
  `GitHubCalls` assume that calls end.
* `_checkout_branch`, which `main()` does not use; argument parsing, dry run, telemetry, log
  events, redaction, spooling of output, wording of prompts and errors: no state another part
  depends on. Which keys, trailers and logins are valid is configuration.
* Bytes and characters: the limit on a message is in lines. What is left of the two lines a
  cut falls into is, with the note between them, one line of neither form; an id that is cut
  in two is not in the model.
* Patches that git drops in a rebase because the new base has them (after a person's rebase
  merge): `Rebase` keeps them in the log, as patches of no change.
* In `GitHubCalls`: the look-up of the PR before the login (it is `PrLoop`'s `View`), the second
  check of the identity, which repeats the first, and `--max-review-rounds 0` (no limit).
* What a launcher below a launcher does with its processes (`FansOut`); a run with relative
  directories never comes to an end of those.
* Symbolic links, path tests and permissions of the lock file and the worktree root.
