---------------------------- MODULE CommitAndPush ----------------------------
(***************************************************************************)
(* _commit_and_push (ralph_loop/quality.py): the one place where what Codex *)
(* did in a round becomes a commit on the PR branch.  Every external       *)
(* command is a step, so pushes of people and crashes fall between them.   *)
(*                                                                         *)
(* The caller puts the call's arguments in cp, sets pc to "commit" and     *)
(* reads cp.result when cp.at is "returned".  The gates are assumed to     *)
(* leave tracked files alone and the read-only review gate everything.     *)
(***************************************************************************)
EXTENDS Branch

CONSTANT MaxLocalRounds   \* --max-local-quality-rounds, 0 is unlimited

ASSUME LocalRoundsNat == MaxLocalRounds \in Nat

VARIABLES pc,     \* where main() is: "off", or inside this call at "commit"
          code,   \* how the last process ended
          cp,     \* arguments and locals of the call
          run     \* the locals of main()

\* "failed" is CommandError (exit code 1) and being killed alike; 64 is a busy
\* branch, 65 a rebase conflict, 75 a CodexEnvironmentError.
Codes == {"none", "0", "64", "65", "75", "failed"}

Results == {"none", "no_changes", "discarded", "committed"}

CpType == [at : {"returned", "top", "review", "gates", "fix", "stage", "push"},
           pre : Commit \cup {NoCommit},  \* pre_round_sha
           gate : BOOLEAN,                \* review_gate_needed
           after : BOOLEAN,               \* review_gate_after_quality_fix
           round : Nat,                   \* local_quality_round
           result : Results]

NoCall == [at |-> "returned", pre |-> NoCommit, gate |-> FALSE, after |-> FALSE,
           round |-> 0, result |-> "none"]

Call(pre, gate, after) ==
  [NoCall EXCEPT !.at = "top", !.pre = pre, !.gate = gate, !.after = after]

Capped(n, max) == max > 0 /\ n >= max

NoRun == [skipRebase |-> FALSE, skipMerge |-> FALSE, phase |-> "review",
          round |-> 0, passed |-> FALSE, green |-> NoCommit]

\* The process ends: its locals go, what it did to refs and files stays.
Exit(c) == pc' = "off" /\ code' = c /\ cp' = NoCall /\ run' = NoRun

Step(at) == cp' = [cp EXCEPT !.at = at] /\ UNCHANGED <<pc, code, run>>

Return(result) == /\ cp' = [cp EXCEPT !.at = "returned", !.result = result]
                  /\ UNCHANGED <<pc, code, run>>

At(label) == pc = "commit" /\ cp.at = label

\* Mutant: Codex's own commits are taken over instead of discarded.
CpTopTrusting ==
  /\ At("top")
  /\ IF head = cp.pre /\ ~Dirty
     THEN Return("no_changes")
     ELSE Step(IF cp.gate THEN "review" ELSE "gates")
  /\ UNCHANGED <<head, tree, remote, tracking, gated, reviewed>>

\* Nothing new, commits Codex was told not to make, or files to look at.
CpTop ==
  /\ At("top")
  /\ \/ /\ head = cp.pre /\ ~Dirty
        /\ Return("no_changes")
        /\ UNCHANGED <<head, tree>>
     \/ /\ head # cp.pre
        /\ ResetTo(cp.pre)
        /\ Return("discarded")
     \/ /\ head = cp.pre /\ Dirty
        /\ Step(IF cp.gate THEN "review" ELSE "gates")
        /\ UNCHANGED <<head, tree>>
  /\ UNCHANGED <<remote, tracking, gated, reviewed>>

\* _run_pre_push_review_gate.
CpReviewGate ==
  /\ At("review")
  /\ \/ Approve(tree, head) /\ Step("gates") /\ UNCHANGED head
     \/ ResetTo(cp.pre) /\ Return("discarded") /\ UNCHANGED reviewed
  /\ UNCHANGED <<remote, tracking, gated>>

\* Mutant: a repair round is not counted.
CpGatesUncounted ==
  /\ At("gates")
  /\ \/ /\ tree' = [tree EXCEPT !.gated = TRUE]
        /\ Step("stage")
        /\ UNCHANGED head
     \/ /\ Capped(cp.round, MaxLocalRounds)
        /\ ResetTo(cp.pre)
        /\ Exit("failed")
     \/ /\ ~Capped(cp.round, MaxLocalRounds)
        /\ Step("fix")
        /\ UNCHANGED <<head, tree>>
  /\ UNCHANGED <<remote, tracking, gated, reviewed>>

\* _run_local_quality_gates, and the cap on repair rounds.
CpGates ==
  /\ At("gates")
  /\ \/ /\ tree' = [tree EXCEPT !.gated = TRUE]
        /\ Step("stage")
        /\ UNCHANGED head
     \/ /\ Capped(cp.round, MaxLocalRounds)
        /\ ResetTo(cp.pre)
        /\ Exit("failed")
     \/ /\ ~Capped(cp.round, MaxLocalRounds)
        /\ cp' = [cp EXCEPT !.at = "fix", !.round = @ + 1]
        /\ UNCHANGED <<pc, code, run, head, tree>>
  /\ UNCHANGED <<remote, tracking, gated, reviewed>>

\* Mutant: the review gate is not asked for again.
CpFixReadyUngated ==
  /\ At("fix")
  /\ CodexEdits
  /\ cp' = [cp EXCEPT !.at = "top"]
  /\ UNCHANGED <<remote, tracking, gated, reviewed, pc, code, run>>

\* _run_local_quality_fix_round: Codex edits, then answers ready or not.
\* The review gate comes back for the edits if the caller asked for it.
CpFixReady ==
  /\ At("fix")
  /\ CodexEdits
  /\ cp' = [cp EXCEPT !.at = "top", !.gate = @ \/ cp.after]
  /\ UNCHANGED <<remote, tracking, gated, reviewed, pc, code, run>>

\* Codex dies, or its answer has no marker: its edits stay behind.
CpFixFails ==
  /\ At("fix")
  /\ CodexEdits
  /\ \E c \in {"failed", "75"} : Exit(c)
  /\ UNCHANGED <<remote, tracking, gated, reviewed>>

\* Mutant: a useless repair is reported but not reset.
CpFixUselessKept ==
  /\ At("fix")
  /\ CodexEdits
  /\ Return("discarded")
  /\ UNCHANGED <<remote, tracking, gated, reviewed>>

CpFixUseless ==
  /\ At("fix")
  /\ ResetTo(cp.pre)
  /\ Return("discarded")
  /\ UNCHANGED <<remote, tracking, gated, reviewed>>

\* Only artifacts: nothing is staged, the files go and no commit is made.
CpCommit ==
  /\ At("stage")
  /\ \/ /\ tree.state = "changes"
        /\ CommitChanges
        /\ Step("push")
     \/ /\ tree.state = "artifacts"
        /\ ResetTo(cp.pre)
        /\ Return("no_changes")
        /\ UNCHANGED <<gated, reviewed>>
  /\ UNCHANGED <<remote, tracking>>

\* A refused push and a push whose answer is lost both raise CommandError.
CpPush ==
  /\ At("push")
  /\ \/ CanPush /\ Pushed(TRUE) /\ Return("committed")
     \/ CanPush /\ Pushed(FALSE) /\ Exit("failed")
     \/ ~CanPush /\ Exit("failed") /\ UNCHANGED <<remote, tracking>>
  /\ UNCHANGED <<head, tree, gated, reviewed>>

CpStep == \/ CpTop \/ CpReviewGate \/ CpGates \/ CpFixReady \/ CpFixFails
          \/ CpFixUseless \/ CpCommit \/ CpPush
===============================================================================
