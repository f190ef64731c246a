-------------------------------- MODULE Branch --------------------------------
(***************************************************************************)
(* The PR branch as the loop sees it: the head on GitHub, the tracking ref  *)
(* and the checkout in the PR worktree, with the git commands the loop runs *)
(* on them (ralph_loop/git_ops.py and the git calls of quality.py).        *)
(*                                                                         *)
(* A commit is the base commit it sits on and the log of patches above it: *)
(* a rebase changes the base and keeps the log, so the two commits differ, *)
(* as their hashes do.  "ralph" is a commit made by _commit_and_push,      *)
(* "codex" one Codex made on its own, the others are people's.             *)
(***************************************************************************)
EXTENDS Naturals, Sequences

CONSTANTS HumanPatches,   \* the commits people may push
          NoCommit        \* a ref that does not exist

ASSUME AuthorsDiffer == HumanPatches \cap {"ralph", "codex"} = {}

Patch == HumanPatches \cup {"ralph", "codex"}
Log == Seq(Patch)
Commit == [base : Nat, log : Log]

ASSUME NoCommitNotCommit == NoCommit \notin Commit

VARIABLES remote,     \* the branch on GitHub
          tracking,   \* refs/remotes/origin/<branch>, shared by all worktrees
          head,       \* the local branch, HEAD of the PR worktree
          tree,       \* the files of the worktree, against HEAD
          gated,      \* history: the logs `just ci` and `just test` passed on
          reviewed    \* history: the logs a Codex review passed on

\* "artifacts": only untracked generated files, which are never staged.
TreeState == {"clean", "artifacts", "changes"}
Tree == [state : TreeState, gated : BOOLEAN, reviewed : BOOLEAN]

Tidy(s) == [state |-> s, gated |-> FALSE, reviewed |-> FALSE]
Clean == Tidy("clean")

BranchTypeOK == /\ remote \in Commit \cup {NoCommit}
                /\ tracking \in Commit \cup {NoCommit}
                /\ head \in Commit \cup {NoCommit}
                /\ tree \in Tree
                /\ gated \in SUBSET Log
                /\ reviewed \in SUBSET Log

\* git merge-base --is-ancestor c d, and the fast-forward test of a push.
Ancestor(c, d) == /\ c.base = d.base
                  /\ Len(c.log) <= Len(d.log)
                  /\ \A i \in 1..Len(c.log) : c.log[i] = d.log[i]

OnTop(c, patch) == [base |-> c.base, log |-> Append(c.log, patch)]

Dirty == tree.state # "clean"

\* _reset_generated_changes: reset --hard and clean -fdx.
ResetTo(c) == head' = c /\ tree' = Clean

\* What a Codex session leaves behind: any files, perhaps a commit of its own.
CodexEdits ==
  /\ \E s \in TreeState : tree' = Tidy(s)
  /\ head' \in {head, OnTop(head, "codex")}

\* A review passed on HEAD plus the files of the worktree.
Approve(t, c) == IF t.state = "changes"
                 THEN tree' = [t EXCEPT !.reviewed = TRUE] /\ UNCHANGED reviewed
                 ELSE tree' = t /\ reviewed' = reviewed \cup {c.log}

\* git add -u, git add of untracked sources, git commit.  Artifacts stay.
CommitChanges ==
  LET c == OnTop(head, "ralph") IN
  /\ head' = c
  /\ \E left \in {"clean", "artifacts"} : tree' = Tidy(left)
  /\ gated' = IF tree.gated THEN gated \cup {c.log} ELSE gated
  /\ reviewed' = IF tree.reviewed THEN reviewed \cup {c.log} ELSE reviewed

\* git push origin <branch>; GitHub refuses what is not a fast-forward.
CanPush == remote # NoCommit => Ancestor(remote, head)

\* Mutant: a plain --force.
AlwaysForce == TRUE

\* git push --force-with-lease: the branch must be what the tracking ref says, and absent
\* if there is none.  A branch that is at HEAD already is up to date, whatever the lease.
LeaseHolds == remote \in {tracking, head}

\* The push arrives; the answer and the tracking ref may be lost with it.
Pushed(answered) == /\ remote' = head
                    /\ tracking' = IF answered THEN head ELSE tracking
===============================================================================
