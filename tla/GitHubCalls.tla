----------------------------- MODULE GitHubCalls ------------------------------
(***************************************************************************)
(* What one loop process does on GitHub, call by call: identity, label,    *)
(* review rounds with the replies to comments, then label again, sign-off, *)
(* merge and deletion of the branch (ralph_loop/gh_ops.py, identity.py and *)
(* main() of cli.py), beside people and other loops that act on the same   *)
(* pull request and label.  Every call may fail, be retried, or take       *)
(* effect without its answer coming back.                                  *)
(*                                                                         *)
(* Commits are told apart by whether the head of the PR is the HEAD of the *)
(* worktree.  Module PrLoop has the commits and the look-up of the PR that *)
(* comes first (View), CommitAndPush what a round does to the commits,     *)
(* CheckWait the wait for the checks.  main() checks the identity twice;   *)
(* the second time, in the worktree, repeats the calls of the first and is *)
(* left out.  The run has merging on (no --skip-merge).                    *)
(***************************************************************************)
EXTENDS CodexAnswer, GhRetry

CONSTANTS MaxRounds,     \* --max-review-rounds; 0, for no limit, is left out
          MaxLines       \* bound: lines of a message

ASSUME BoundsNat == MaxRounds \in Nat \ {0} /\ MaxLines \in Nat

VARIABLES round,      \* round_number
          message,    \* what the session left to be read
          passed,     \* review_passed
          todo,       \* addressed, less the comments replied to
          pushed,     \* _commit_and_push has pushed this round
          posted,     \* replies of this round on GitHub, by comment
          unheard,    \* history: those whose success the loop was not told
          closing,    \* past the last look at the PR, on to the merge
          label,      \* the label: absent, it exists, on the PR
          pr,         \* open, closed, or merged and by whom
          ours,       \* the head of the PR is the worktree's HEAD
          review,     \* the last review of the Ralph account that sets a state
          signed      \* history: the account has, since the head is there, had an approval
                      \* of it, or of no known commit

roundVars == <<round, message, passed, todo, pushed, posted, unheard>>
prVars == <<pr, ours, review, signed>>
vars == <<callVars, roundVars, closing, label, prVars>>

StartPC == {"login", "config", "edit", "create", "relabel"}
RoundPC == {"comments", "codex", "read", "commit", "reply"}
MergePC == {"ready", "fresh", "prepare", "head", "user", "reviews", "approve", "merge",
            "verify", "view", "delete"}

Messages == UNION {[1..n -> Line] : n \in 0..MaxLines}

None == [c \in Comments |-> 0]

\* An approval is of the PR's head, of an older commit, or of none that GitHub still has.
Approvals == {"current", "stale", "unpinned"}

MergeTypeOK == /\ pc \in StartPC \cup RoundPC \cup MergePC \cup {"done", "failed"}
               /\ attempt \in 1..MaxAttempts
               /\ excused \in BOOLEAN
               /\ closing \in BOOLEAN
               /\ label \in {"absent", "exists", "on"}
               /\ pr \in {"open", "closed", "ralph", "person"}
               /\ ours \in BOOLEAN
               /\ review \in Approvals \cup {"none", "withdrawn"}
               /\ signed \in BOOLEAN

TypeOK == /\ MergeTypeOK
          /\ round \in 0..MaxRounds
          /\ message \in Messages
          /\ passed \in BOOLEAN
          /\ todo \in Seq(Comments)
          /\ pushed \in BOOLEAN
          /\ posted \in [Comments -> 0..MaxAttempts]
          /\ unheard \in [Comments -> 0..MaxAttempts]

Init == /\ pc = "login" /\ attempt = 1 /\ excused = FALSE
        /\ round = 0 /\ message = <<>> /\ passed = FALSE /\ todo = <<>> /\ pushed = FALSE
        /\ posted = None /\ unheard = None
        /\ closing = FALSE
        /\ label \in {"absent", "exists", "on"}
        /\ pr = "open" /\ ours = TRUE
        /\ review \in Approvals \cup {"none"}
        /\ signed \in BOOLEAN /\ (signed <=> review \in {"current", "unpinned"})

(***************************************************************************)
(* Start: identity, configuration and label.                               *)
(***************************************************************************)

\* gh is logged in as the Ralph account, and git is set up for it.
Login == /\ pc = "login"
         /\ Answered("config") \/ Errs("failed")
         /\ UNCHANGED <<roundVars, closing, label, prVars>>

\* The six settings are right already or written.  A write fails while another process
\* holds the lock of the configuration, the first time: the error it raises does not
\* carry the text that the retry looks for.
SetConfig == /\ pc = "config"
             /\ Answered("edit") \/ GivesUp("failed")
             /\ UNCHANGED <<roundVars, closing, label, prVars>>

\* Where _mark_pr_needs_review returns to.
AfterLabel == IF closing THEN "prepare" ELSE "comments"

AddLabel == /\ label # "absent" /\ label' = "on"
            /\ Answered(AfterLabel) \/ Errs("failed")

Edit == /\ pc = "edit"
        /\ \/ AddLabel
           \/ label = "absent" /\ Answered("create") /\ UNCHANGED label
           \/ Errs("failed") /\ UNCHANGED label
        /\ UNCHANGED <<roundVars, closing, prVars>>

\* Mutant: a label that was created meanwhile is an error.
CreateStrict == /\ pc = "create"
                /\ \/ /\ label = "absent" /\ label' = "exists"
                      /\ Answered("relabel") \/ Errs("failed")
                   \/ label # "absent" /\ Answered("failed") /\ UNCHANGED label
                   \/ Errs("failed") /\ UNCHANGED label
                /\ UNCHANGED <<roundVars, closing, prVars>>

Create == /\ pc = "create"
          /\ \/ /\ label = "absent" /\ label' = "exists"
                /\ Answered("relabel") \/ Errs("failed")
             \/ label # "absent" /\ Answered("relabel") /\ UNCHANGED label
             \/ Errs("failed") /\ UNCHANGED label
          /\ UNCHANGED <<roundVars, closing, prVars>>

Relabel == /\ pc = "relabel"
           /\ \/ AddLabel
              \/ label = "absent" /\ Answered("failed") /\ UNCHANGED label
              \/ Errs("failed") /\ UNCHANGED label
           /\ UNCHANGED <<roundVars, closing, prVars>>

(***************************************************************************)
(* Review rounds.                                                          *)
(***************************************************************************)

\* A round begins with the comments, or without them when they cannot be had.
FetchComments == /\ pc = "comments"
                 /\ IF round < MaxRounds
                    THEN \/ Answered("codex") /\ round' = round + 1
                         \/ TryAgain /\ UNCHANGED round
                    ELSE GivesUp("failed") /\ UNCHANGED round
                 /\ UNCHANGED <<message, passed, todo, pushed, posted, unheard, closing, label,
                                prVars>>

\* Of what a session may say, some message, or the session fails.
CodexSession == /\ pc = "codex"
                /\ \/ Answered("read") /\ message' \in Messages
                   \/ GivesUp("failed") /\ UNCHANGED message
                /\ UNCHANGED <<round, passed, todo, pushed, posted, unheard, closing, label,
                               prVars>>

ReadAnswer == /\ pc = "read"
              /\ LET text == Shown(message)
                 IN IF Verdict(text) = "none"
                    THEN GivesUp("failed") /\ UNCHANGED <<passed, todo>>
                    ELSE /\ Answered("commit")
                         /\ passed' = (Verdict(text) = "yes")
                         /\ todo' = Addressed(text)
              /\ message' = <<>>
              /\ UNCHANGED <<round, pushed, posted, unheard, closing, label, prVars>>

\* The head is a new commit of the loop; approvals are of older ones.
NewHead == /\ ours /\ pr = "open"
           /\ review' = IF review = "current" THEN "stale" ELSE review
           /\ signed' = (review = "unpinned")
           /\ UNCHANGED <<pr, ours>>

\* The next round, or out of the loop.
RoundOver == IF passed THEN "ready" ELSE "comments"

\* Mutant: a round without changes replies as well.
CommitRoundAnyway ==
  /\ pc = "commit"
  /\ \/ /\ UNCHANGED <<prVars, pushed, passed, todo>>
        /\ Answered("reply")
     \/ NewHead /\ pushed' = TRUE /\ Answered("reply") /\ UNCHANGED <<passed, todo>>
     \/ GivesUp("failed") /\ UNCHANGED <<prVars, pushed, passed, todo>>
  /\ UNCHANGED <<round, message, posted, unheard, closing, label>>

\* _commit_and_push: discarded, no changes, pushed, or an error.
CommitRound ==
  /\ pc = "commit"
  /\ \/ /\ \E discarded \in BOOLEAN : Answered(IF discarded THEN "comments" ELSE RoundOver)
        /\ passed' = FALSE /\ todo' = <<>>
        /\ UNCHANGED <<prVars, pushed>>
     \/ NewHead /\ pushed' = TRUE /\ Answered("reply") /\ UNCHANGED <<passed, todo>>
     \/ GivesUp("failed") /\ UNCHANGED <<prVars, pushed, passed, todo>>
  /\ UNCHANGED <<round, message, posted, unheard, closing, label>>

\* A failed reply does not end the loop over them.
Reply == /\ pc = "reply" /\ todo # <<>>
         /\ LET c == Head(todo)
                NextReply == Over("reply") /\ todo' = Tail(todo) /\ UNCHANGED excused
                Unanswered == (TryAgain /\ UNCHANGED todo) \/ NextReply
            IN \/ /\ posted' = [posted EXCEPT ![c] = @ + 1]
                  /\ \/ NextReply /\ UNCHANGED unheard
                     \/ Unanswered /\ unheard' = [unheard EXCEPT ![c] = @ + 1]
               \/ Unanswered /\ UNCHANGED <<posted, unheard>>
         /\ UNCHANGED <<round, message, passed, pushed, closing, label, prVars>>

RepliesOver == /\ pc = "reply" /\ todo = <<>>
               /\ Answered(RoundOver)
               /\ passed' = FALSE /\ pushed' = FALSE /\ posted' = None /\ unheard' = None
               /\ UNCHANGED <<round, message, todo, closing, label, prVars>>

(***************************************************************************)
(* From green checks to the merge.                                         *)
(***************************************************************************)

\* The checks get green and the last rebase, if it moves the branch, is pushed.
ChecksGreen == /\ pc = "ready"
               /\ \/ Answered("fresh") /\ (NewHead \/ UNCHANGED prVars)
                  \/ GivesUp("failed") /\ UNCHANGED prVars
               /\ UNCHANGED <<roundVars, closing, label>>

\* The PR is looked at again; only an open one is gone on with.
FreshView == /\ pc = "fresh"
             /\ \/ Answered(IF pr = "open" THEN "edit" ELSE "failed") /\ closing' = (pr = "open")
                \/ Errs("failed") /\ UNCHANGED closing
             /\ UNCHANGED <<roundVars, label, prVars>>

\* Three settings, written whatever they are.
PrepareMerge == /\ pc = "prepare"
                /\ Answered("head") \/ GivesUp("failed")
                /\ UNCHANGED <<roundVars, closing, label, prVars>>

CheckHead == /\ pc = "head"
             /\ Answered(IF ours THEN "user" ELSE "failed") \/ Errs("failed")
             /\ UNCHANGED <<roundVars, closing, label, prVars>>

AskUser == /\ pc = "user"
           /\ Answered("reviews") \/ Errs("failed")
           /\ UNCHANGED <<roundVars, closing, label, prVars>>

\* Mutant: an approval of any commit will do.
HasApprovalAny == review \in Approvals

\* _pr_has_user_approval: the last review counts, if it is of the head or of no commit.
HasApproval == review \in {"current", "unpinned"}

AskReviews == /\ pc = "reviews"
              /\ Answered(IF HasApproval THEN "merge" ELSE "approve") \/ Errs("failed")
              /\ UNCHANGED <<roundVars, closing, label, prVars>>

\* The approval names the worktree's HEAD.  GitHub may answer that the head is approved
\* already.
Approve == /\ pc = "approve"
           /\ \/ /\ review' = IF ours THEN "current" ELSE "stale"
                 /\ signed' = (signed \/ ours)
                 /\ Answered("merge") \/ Errs("failed")
              \/ /\ UNCHANGED <<review, signed>>
                 /\ (review = "current" /\ Answered("merge")) \/ Errs("failed")
           /\ UNCHANGED <<roundVars, closing, label, pr, ours>>

\* Mutant: a merge that fails ends the run.
MergeUnverified == /\ pc = "merge"
                   /\ \/ /\ pr = "open" /\ ours /\ pr' = "ralph"
                         /\ Answered("view") \/ Errs("failed")
                      \/ /\ pr # "open" \/ ~ours
                         /\ Answered("failed") /\ UNCHANGED pr
                      \/ Errs("failed") /\ UNCHANGED pr
                   /\ UNCHANGED <<roundVars, closing, label, ours, review, signed>>

\* Only the worktree's HEAD is merged (--match-head-commit), by GitHub in one step.
\* Whatever error comes back, the state of the PR is looked at.
Merge == /\ pc = "merge"
         /\ \/ /\ pr = "open" /\ ours /\ pr' = "ralph"
               /\ Answered("view") \/ Errs("verify")
            \/ /\ pr # "open" \/ ~ours
               /\ Answered("verify") /\ UNCHANGED pr
            \/ Errs("verify") /\ UNCHANGED pr
         /\ UNCHANGED <<roundVars, closing, label, ours, review, signed>>

Merged == pr \in {"ralph", "person"}

\* Mutant: a PR that is not open is taken for merged.
VerifyNotOpen == /\ pc = "verify"
                 /\ Answered(IF pr # "open" THEN "view" ELSE "failed") \/ Errs("failed")
                 /\ UNCHANGED <<roundVars, closing, label, prVars>>

VerifyMerge == /\ pc = "verify"
               /\ Answered(IF Merged THEN "view" ELSE "failed") \/ Errs("failed")
               /\ UNCHANGED <<roundVars, closing, label, prVars>>

\* _delete_pr_head_branch, whose failure is only logged: the PR, then the branch.
ViewBranch == /\ pc = "view"
              /\ Answered("delete") \/ TryAgain \/ Answered("done")
              /\ UNCHANGED <<roundVars, closing, label, prVars>>

DeleteBranch == /\ pc = "delete"
                /\ Answered("done") \/ TryAgain
                /\ UNCHANGED <<roundVars, closing, label, prVars>>

\* The deadline cuts a command or a sleep; past the merge that ends the run well.
Cut == /\ pc \notin {"done", "failed"}
       /\ IF pc \in {"view", "delete"} THEN Answered("done") ELSE GivesUp("failed")
       /\ message' = <<>>
       /\ UNCHANGED <<round, passed, todo, pushed, posted, unheard, closing, label, prVars>>

LoopStep == \/ Login \/ SetConfig \/ Edit \/ Create \/ Relabel
            \/ FetchComments \/ CodexSession \/ ReadAnswer \/ CommitRound \/ Reply
            \/ RepliesOver
            \/ ChecksGreen \/ FreshView \/ PrepareMerge \/ CheckHead \/ AskUser \/ AskReviews
            \/ Approve \/ Merge \/ VerifyMerge \/ ViewBranch \/ DeleteBranch \/ Cut

(***************************************************************************)
(* People and other loops.  During the rounds no call of the loop reads or *)
(* changes the label or the reviews, so that what others do then is done   *)
(* in the model when the rounds are over; a push that makes a round fail   *)
(* is in PrLoop.                                                           *)
(***************************************************************************)
Others == UNCHANGED <<pc, attempt, roundVars, closing>>

LabelCreated == /\ pc \in StartPC \cup MergePC /\ label = "absent"
                /\ label' = "exists"
                /\ Others /\ UNCHANGED <<excused, prVars>>

\* The label goes from the repository, or from the PR.
LabelDeleted == /\ pc \in StartPC \cup MergePC
                /\ \/ label # "absent" /\ label' = "absent" /\ excused' = (excused \/ pc = "relabel")
                   \/ label = "on" /\ label' = "exists" /\ UNCHANGED excused
                /\ Others /\ UNCHANGED prVars

\* Somebody else pushes to the branch.
Push == /\ pc \in MergePC /\ pr = "open"
        /\ ours' = FALSE
        /\ review' = IF review = "current" THEN "stale" ELSE review
        /\ signed' = (review = "unpinned")
        /\ excused' = TRUE
        /\ Others /\ UNCHANGED <<label, pr>>

\* Closed, made a draft, retargeted; and back.
CloseOrReopen == /\ pc \in MergePC /\ pr \in {"open", "closed"}
                 /\ pr' = IF pr = "open" THEN "closed" ELSE "open"
                 /\ excused' = TRUE
                 /\ Others /\ UNCHANGED <<label, ours, review, signed>>

\* Before the last look at the PR it stops the run, after it it does not.
PersonMerges == /\ pc \in MergePC /\ pr = "open"
                /\ pr' = "person"
                /\ excused' = (excused \/ ~closing)
                /\ Others /\ UNCHANGED <<label, ours, review, signed>>

\* The Ralph account reviews elsewhere, or its review is dismissed.
Reviewed == /\ pc \in MergePC /\ ~Merged
            /\ \/ review' = "current" /\ signed' = TRUE
               \/ review' = "withdrawn" /\ UNCHANGED signed
            /\ Others /\ UNCHANGED <<excused, label, pr, ours>>

OthersStep == \/ LabelCreated \/ LabelDeleted \/ Push \/ CloseOrReopen \/ PersonMerges
              \/ Reviewed

Next == LoopStep \/ OthersStep

Spec == Init /\ [][Next]_vars

(***************************************************************************)
(* Properties.                                                             *)
(***************************************************************************)

\* A message that ends in its marker is read as that marker says, however long it is;
\* from one within the limit, the comments replied to are those it claims, each once
\* (codex_agent.py, "the LAST stripped line that fullmatches").
AnswerHonoured ==
  [][pc = "read" /\ pc' = "commit" =>
       /\ message # <<>> /\ message[Len(message)][1] \in Markers =>
            passed' = (message[Len(message)] = <<"yes">>)
       /\ Len(message) <= MaxShown =>
            /\ \A c \in Comments : Claims(message, c) <=> \E i \in 1..Len(todo') : todo'[i] = c
            /\ \A i, j \in 1..Len(todo') : todo'[i] = todo'[j] => i = j]_vars

\* A comment is told of a fix only in a round that pushed one, and once, unless the
\* answer of GitHub was lost: the request is not idempotent and is sent again.
RepliesHonest == \A c \in Comments : posted[c] > 0 => pushed /\ posted[c] <= 1 + unheard[c]

\* What the run merges, its account has approved as it is, or had an approval for that
\* GitHub gives no commit of: no approval of an older head, lost answer to an approval
\* or push between any two calls gets in the way.  (An approval that is taken back
\* after it was looked at still serves.)
MergedApproved == pr = "ralph" => signed

\* The run ends well only if the PR is merged, whoever merged it and whatever was said
\* of the attempts.
ExitTrue == pc \in {"view", "delete", "done"} => Merged

\* Lost answers, label races and a merge by somebody else never fail a run: one that
\* failed met a refusal, a cut or a command that failed, or somebody interfered
\* (GUIDE.md, "known transient GitHub CLI failures are retried automatically").
RetriesTransparent == pc = "failed" => excused
===============================================================================
