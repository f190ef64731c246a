----------------------------- MODULE PrLoopProofs -----------------------------
(***************************************************************************)
(* What PrLoop guarantees for any caps, any number of starts and any set of *)
(* commits people may push.  The invariants come in layers: types and the   *)
(* life of the PR; what is vetted; how HEAD follows the branch on GitHub;   *)
(* how far the lease may lag behind.                                       *)
(***************************************************************************)
EXTENDS PrLoop, SequenceTheorems, TLAPS

(***************************************************************************)
(* Commits and logs.                                                       *)
(***************************************************************************)

\* A patch on top of a commit makes a commit, one patch longer.
LEMMA OnTopCommit ==
  ASSUME NEW c \in Commit, NEW p \in Patch
  PROVE  /\ OnTop(c, p) \in Commit
         /\ OnTop(c, p) # NoCommit
         /\ OnTop(c, p).base = c.base
         /\ OnTop(c, p).log = Append(c.log, p)
         /\ Len(OnTop(c, p).log) = Len(c.log) + 1
<1>1. c.log \in Seq(Patch) /\ Append(c.log, p) \in Seq(Patch)
  BY DEF Commit, Log
<1>2. OnTop(c, p) \in Commit
  BY <1>1 DEF OnTop, Commit, Log
<1> QED
  BY <1>1, <1>2, NoCommitNotCommit DEF OnTop

LEMMA AncestorReflexive ==
  ASSUME NEW c \in Commit
  PROVE  Ancestor(c, c)
BY DEF Ancestor, Commit, Log

LEMMA AncestorTransitive ==
  ASSUME NEW c \in Commit, NEW d \in Commit, NEW e \in Commit,
         Ancestor(c, d), Ancestor(d, e)
  PROVE  Ancestor(c, e)
BY DEF Ancestor, Commit, Log

LEMMA AncestorOnTop ==
  ASSUME NEW c \in Commit, NEW p \in Patch
  PROVE  Ancestor(c, OnTop(c, p))
BY DEF Ancestor, OnTop, Commit, Log

LEMMA AncestorAntisymmetric ==
  ASSUME NEW c \in Commit, NEW d \in Commit, Ancestor(c, d), Ancestor(d, c)
  PROVE  c = d
<1>1. Len(c.log) = Len(d.log)
  BY DEF Ancestor, Commit, Log
<1>2. c.log = d.log
  BY <1>1 DEF Ancestor, Commit, Log
<1> QED
  BY <1>2 DEF Ancestor, Commit

(***************************************************************************)
(* Types, and the life of the PR on GitHub.                                *)
(***************************************************************************)

\* The PR is merged once something was, and loses its branch only then.
PrInv == /\ pr = "merged" <=> merged # NoCommit
         /\ remote = NoCommit => pr = "merged"
         /\ pc = "delete" => pr = "merged"

TypeInv == TypeOK /\ PrInv

LEMMA TypeInit == Init => TypeInv
<1> SUFFICES ASSUME Init PROVE TypeInv
  OBVIOUS
<1>1. remote \in Commit
  BY FirstPatchHuman DEF Init, Commit, Log, Patch
<1>2. remote # NoCommit
  BY <1>1, NoCommitNotCommit
<1> QED
  BY <1>1, <1>2 DEF Init, TypeInv, TypeOK, PrInv, BranchTypeOK, PcLabels, Codes, CpType, NoCall,
     Results, RunType, NoRun, PrStates, Clean, Tidy, Tree, TreeState

\* The frames: a call's and a process's locals, set up, advanced and dropped.
LEMMA FrameTypes ==
  /\ NoCall \in CpType /\ NoRun \in RunType
  /\ \A pre \in Commit : \A gate, after \in BOOLEAN :
       Call(pre, gate, after) \in CpType /\ Call(pre, gate, after).pre = pre
  /\ Clean \in Tree
  /\ \A s \in TreeState : Tidy(s) \in Tree
  /\ \A t \in Tree : /\ [t EXCEPT !.reviewed = TRUE] \in Tree
                    /\ [t EXCEPT !.gated = TRUE] \in Tree
BY DEF NoCall, NoRun, Call, CpType, RunType, Results, Clean, Tidy, Tree, TreeState

\* The updates of a call's locals that are not a Step or a Return.
LEMMA CallUpdates ==
  ASSUME NEW c \in CpType
  PROVE  /\ [c EXCEPT !.at = "fix", !.round = @ + 1] \in CpType
         /\ [c EXCEPT !.at = "fix", !.round = @ + 1].pre = c.pre
         /\ [c EXCEPT !.at = "fix", !.round = @ + 1].at = "fix"
         /\ [c EXCEPT !.at = "fix", !.round = @ + 1].result = c.result
         /\ [c EXCEPT !.at = "top", !.gate = @ \/ c.after] \in CpType
         /\ [c EXCEPT !.at = "top", !.gate = @ \/ c.after].pre = c.pre
         /\ [c EXCEPT !.at = "top", !.gate = @ \/ c.after].at = "top"
         /\ [c EXCEPT !.at = "top", !.gate = @ \/ c.after].result = c.result
<1>1. c.round + 1 \in Nat /\ (c.gate \/ c.after) \in BOOLEAN
  BY DEF CpType
<1> QED
  BY <1>1 DEF CpType

LEMMA StepTypes ==
  ASSUME cp \in CpType,
         NEW a \in {"returned", "top", "review", "gates", "fix", "stage", "push"}, Step(a)
  PROVE  /\ cp' \in CpType /\ cp'.pre = cp.pre /\ cp'.at = a /\ cp'.result = cp.result
         /\ UNCHANGED <<pc, code, run>>
BY DEF Step, CpType

LEMMA ReturnTypes ==
  ASSUME cp \in CpType, NEW r \in Results, Return(r)
  PROVE  /\ cp' \in CpType /\ cp'.pre = cp.pre /\ cp'.at = "returned" /\ cp'.result = r
         /\ UNCHANGED <<pc, code, run>>
BY DEF Return, CpType

LEMMA ExitTypes ==
  ASSUME NEW c \in Codes, Exit(c)
  PROVE  pc' = "off" /\ code' \in Codes /\ cp' \in CpType /\ run' \in RunType
BY FrameTypes DEF Exit

\* A Codex session leaves files and a commit of the right types.
LEMMA CodexEditsType ==
  ASSUME TypeOK, head # NoCommit, CodexEdits
  PROVE  tree' \in Tree /\ head' \in Commit /\ head' # NoCommit
<1>1. tree' \in Tree
  BY FrameTypes DEF CodexEdits
<1>2. head \in Commit /\ "codex" \in Patch
  BY DEF TypeOK, BranchTypeOK, Patch
<1> QED
  BY <1>1, <1>2, OnTopCommit DEF CodexEdits

\* What CommitAndPush leaves alone and what its steps keep.
LEMMA CallTypes ==
  ASSUME TypeInv, CallStep
  PROVE  TypeInv'
<1> USE DEF TypeInv, TypeOK, BranchTypeOK, PrInv, restVars, envVars
<1>1. pc = "commit" /\ head \in Commit /\ cp.pre \in Commit
  BY DEF CallStep, CpStep, CpTop, CpReviewGate, CpGates, CpFixReady, CpFixFails,
         CpFixUseless, CpCommit, CpPush, At, CpType
<1>2. Clean \in Tree /\ cp \in CpType
  BY FrameTypes
<1>3. \A r : r \in {"no_changes", "discarded", "committed"} => r \in Results
  BY DEF Results
<1>4. "failed" \in Codes /\ "75" \in Codes /\ "off" \in PcLabels
  BY DEF Codes, PcLabels
<1>5. CASE CpTop
  BY <1>1, <1>2, <1>3, <1>5, StepTypes, ReturnTypes DEF CallStep, CpTop, ResetTo
<1>6. CASE CpReviewGate
  <2>1. head.log \in Log /\ [tree EXCEPT !.reviewed = TRUE] \in Tree
    BY <1>1, FrameTypes DEF Commit
  <2>2. CASE Approve(tree, head) /\ Step("gates") /\ UNCHANGED head
    BY <1>1, <1>2, <1>6, <2>1, <2>2, StepTypes DEF CallStep, CpReviewGate, Approve
  <2>3. CASE ResetTo(cp.pre) /\ Return("discarded") /\ UNCHANGED reviewed
    BY <1>1, <1>2, <1>3, <1>6, <2>3, ReturnTypes DEF CallStep, CpReviewGate, ResetTo
  <2> QED
    BY <1>6, <2>2, <2>3 DEF CpReviewGate
<1>7. CASE CpGates
  <2>1. CASE tree' = [tree EXCEPT !.gated = TRUE] /\ Step("stage") /\ UNCHANGED head
    BY <1>1, <1>2, <1>7, <2>1, StepTypes, FrameTypes DEF CallStep, CpGates
  <2>2. CASE ResetTo(cp.pre) /\ Exit("failed")
    BY <1>1, <1>2, <1>4, <1>7, <2>2, ExitTypes DEF CallStep, CpGates, ResetTo
  <2>3. CASE /\ cp' = [cp EXCEPT !.at = "fix", !.round = @ + 1]
             /\ UNCHANGED <<pc, code, run, head, tree>>
    BY <1>1, <1>2, <1>7, <2>3, CallUpdates DEF CallStep, CpGates
  <2> QED
    BY <1>7, <2>1, <2>2, <2>3 DEF CpGates
<1>8. CASE CpFixReady
  BY <1>1, <1>2, <1>8, CallUpdates, CodexEditsType DEF CallStep, CpFixReady
<1>9. CASE CpFixFails
  BY <1>1, <1>2, <1>4, <1>9, CodexEditsType, ExitTypes DEF CallStep, CpFixFails
<1>10. CASE CpFixUseless
  BY <1>1, <1>2, <1>3, <1>10, ReturnTypes DEF CallStep, CpFixUseless, ResetTo
<1>11. CASE CpCommit
  <2>1. OnTop(head, "ralph") \in Commit /\ OnTop(head, "ralph") # NoCommit
    BY <1>1, OnTopCommit DEF Patch
  <2>2. OnTop(head, "ralph").log \in Log
    BY <2>1 DEF Commit
  <2>3. CASE CommitChanges /\ Step("push")
    BY <1>1, <1>2, <1>11, <2>1, <2>2, <2>3, StepTypes, FrameTypes
    DEF CallStep, CpCommit, CommitChanges, TreeState
  <2>4. CASE ResetTo(cp.pre) /\ Return("no_changes") /\ UNCHANGED <<gated, reviewed>>
    BY <1>1, <1>2, <1>3, <1>11, <2>4, ReturnTypes DEF CallStep, CpCommit, ResetTo
  <2> QED
    BY <1>11, <2>3, <2>4 DEF CpCommit
<1>12. CASE CpPush
  BY <1>1, <1>2, <1>3, <1>4, <1>12, ReturnTypes, ExitTypes DEF CallStep, CpPush, Pushed
<1> QED
  BY <1>5, <1>6, <1>7, <1>8, <1>9, <1>10, <1>11, <1>12 DEF CallStep, CpStep

\* The PR head that can be fetched is a commit, whatever became of the branch.
LEMMA PrHeadCommit ==
  ASSUME TypeInv
  PROVE  PrHead \in Commit /\ PrHead # NoCommit
BY NoCommitNotCommit DEF TypeInv, TypeOK, BranchTypeOK, PrInv, PrHead

\* The updates of main()'s locals.
LEMMA RunUpdates ==
  ASSUME NEW r \in RunType
  PROVE  /\ \A b \in BOOLEAN : /\ [r EXCEPT !.round = @ + 1, !.passed = b] \in RunType
                              /\ [r EXCEPT !.passed = b] \in RunType
         /\ [r EXCEPT !.phase = "ci", !.round = 0] \in RunType
         /\ [r EXCEPT !.round = @ + 1] \in RunType
         /\ \A c \in Commit \cup {NoCommit} : [r EXCEPT !.green = c] \in RunType
         /\ \A a, b \in BOOLEAN : [r EXCEPT !.skipRebase = a, !.skipMerge = b] \in RunType
<1>1. r.round + 1 \in Nat
  BY DEF RunType
<1> QED
  BY <1>1 DEF RunType

\* The steps of main() outside _commit_and_push.
LEMMA MainTypes ==
  ASSUME TypeInv, LoopStep \/ Start \/ Fail, ~CallStep
  PROVE  TypeInv'
<1> USE DEF TypeInv, TypeOK, BranchTypeOK, PrInv, restVars, envVars, gitVars, Goto
<1>1. /\ Clean \in Tree /\ NoCall \in CpType /\ NoRun \in RunType
      /\ \A s \in TreeState : Tidy(s) \in Tree
  BY FrameTypes
<1>2. PrHead \in Commit /\ PrHead # NoCommit /\ NoCommit \notin Commit
  BY PrHeadCommit, NoCommitNotCommit
<1>3. \A c \in {"0", "64", "65", "75", "failed", "none"} : c \in Codes
  BY DEF Codes
<1>4. \A c \in {"0", "64", "65", "75", "failed", "none"} :
        Exit(c) => pc' = "off" /\ code' \in Codes /\ cp' \in CpType /\ run' \in RunType
  BY <1>3, ExitTypes
<1> USE DEF PcLabels
<1>5. CASE Start
  <2>1. \A a, b \in BOOLEAN : [NoRun EXCEPT !.skipRebase = a, !.skipMerge = b] \in RunType
    BY <1>1, RunUpdates
  <2>2. run' \in RunType /\ pc' = "view" /\ code' = "none"
    BY <1>5, <2>1 DEF Start
  <2>3. UNCHANGED <<remote, tracking, head, tree, gated, reviewed, cp, worktree, base, pr,
                    unpushed, approved, merged>>
    BY <1>5 DEF Start
  <2>4. starts' = starts + 1
    BY <1>5, Zenon DEF Start
  <2> QED
    BY <1>3, <2>2, <2>3, <2>4
<1>6. CASE View
  BY <1>4, <1>6 DEF View
<1>7. CASE EnsureWorktree
  <2>1. tracking' \in Commit \cup {NoCommit}
    BY <1>2, <1>7 DEF EnsureWorktree
  <2>2. CASE worktree /\ Ancestor(head, PrHead)
    <3>1. head' = PrHead /\ tree' = Clean /\ AfterWorktree
      BY <1>7, <2>2 DEF EnsureWorktree, SyncTo, ResetTo
    <3> QED
      BY <1>1, <1>2, <1>7, <2>1, <3>1 DEF EnsureWorktree, AfterWorktree
  <2>3. CASE worktree /\ ~Ancestor(head, PrHead)
    BY <1>1, <1>2, <1>4, <1>7, <2>1, <2>3 DEF EnsureWorktree, SyncTo
  <2>4. CASE ~worktree
    BY <1>1, <1>2, <1>7, <2>1, <2>4 DEF EnsureWorktree, AfterWorktree
  <2> QED
    BY <2>2, <2>3, <2>4
<1>8. CASE BranchElsewhere
  BY <1>4, <1>8 DEF BranchElsewhere
<1>9. CASE Rebase
  <2>1. head \in Commit
    BY <1>9 DEF Rebase
  <2>2. [head EXCEPT !.base = base] \in Commit
    BY <2>1 DEF Commit
  <2> QED
    BY <1>2, <1>4, <1>9, <2>2 DEF Rebase
<1>10. CASE LeasePush
  BY <1>2, <1>4, <1>10 DEF LeasePush, Pushed
<1>11. CASE ReviewRound
  <2>1. head \in Commit /\ head # NoCommit /\ OnTop(head, "codex") \in Commit
    BY <1>11, OnTopCommit DEF ReviewRound, Patch
  <2>2. \A pre \in Commit : \A gate, after \in BOOLEAN :
          Call(pre, gate, after) \in CpType /\ Call(pre, gate, after).pre = pre
    BY FrameTypes
  <2>3. \A b \in BOOLEAN : NextRound(b) => run' \in RunType
    BY RunUpdates DEF NextRound
  <2>4. CASE CodexEdits /\ NextRound(FALSE) /\ Calls(Call(head, FALSE, FALSE)) /\ UNCHANGED reviewed
    BY <1>2, <1>11, <2>1, <2>2, <2>3, <2>4, CodexEditsType DEF ReviewRound, Calls
  <2>5. ASSUME NEW s \in TreeState, NEW c \in {head, OnTop(head, "codex")},
               head' = c, Approve(Tidy(s), c), NextRound(TRUE), Calls(Call(head, FALSE, TRUE))
        PROVE  TypeInv'
    <3>1. c \in Commit /\ c.log \in Log
      BY <2>1 DEF Commit
    <3>2. Tidy(s) \in Tree /\ [Tidy(s) EXCEPT !.reviewed = TRUE] \in Tree
      BY FrameTypes
    <3>3. tree' \in Tree /\ reviewed' \in SUBSET Log
      BY <2>5, <3>1, <3>2 DEF Approve
    <3> QED
      BY <1>2, <1>11, <2>1, <2>2, <2>3, <2>5, <3>1, <3>3 DEF ReviewRound, Calls
  <2>6. CASE CodexFails /\ UNCHANGED reviewed
    BY <1>2, <1>4, <1>11, <2>1, <2>6, CodexEditsType DEF ReviewRound, CodexFails
  <2> QED
    BY <1>11, <2>4, <2>5, <2>6 DEF ReviewRound
<1>12. CASE ReviewExhausted
  BY <1>4, <1>12 DEF ReviewExhausted
<1>13. CASE ReviewAgain
  <2>1. pc = "commit" /\ cp.pre \in Commit
    BY <1>13 DEF ReviewAgain, Returned, At, CpType
  <2>2. run' \in RunType
    BY <1>13, RunUpdates DEF ReviewAgain
  <2> QED
    BY <1>1, <1>2, <1>13, <2>1, <2>2 DEF ReviewAgain, Back, ResetTo
<1>14. CASE ReviewDone
  <2>1. run' \in RunType /\ pc = "commit"
    BY <1>14, RunUpdates DEF ReviewDone, Returned, At
  <2> QED
    BY <1>1, <1>14, <2>1 DEF ReviewDone, Back
<1>15. \A label : GreenSeen(label) => /\ pc' = label /\ run' \in RunType
                                     /\ UNCHANGED <<code, cp>>
  BY RunUpdates DEF GreenSeen
<1>16. CASE CiWait
  <2>1. [run EXCEPT !.round = @ + 1] \in RunType
    BY RunUpdates
  <2> QED
    BY <1>15, <1>16, <2>1 DEF CiWait, AfterCi
<1>17. CASE CiExhausted
  BY <1>4, <1>17 DEF CiExhausted
<1>18. CASE CiFix
  <2>1. head \in Commit
    BY <1>18 DEF CiFix
  <2>2. Call(head, TRUE, TRUE) \in CpType /\ Call(head, TRUE, TRUE).pre = head
    BY <2>1, FrameTypes
  <2>3. CASE CodexEdits /\ Calls(Call(head, TRUE, TRUE)) /\ UNCHANGED run
    BY <1>2, <1>18, <2>1, <2>2, <2>3, CodexEditsType DEF CiFix, Calls
  <2>4. CASE ResetTo(head) /\ Goto("ci")
    BY <1>1, <1>18, <2>1, <2>4 DEF CiFix, ResetTo
  <2>5. CASE CodexFails
    BY <1>2, <1>4, <1>18, <2>1, <2>5, CodexEditsType DEF CiFix, CodexFails
  <2> QED
    BY <1>18, <2>3, <2>4, <2>5 DEF CiFix
<1>19. CASE CiCommitted
  BY <1>1, <1>19 DEF CiCommitted, Back, Returned, At
<1>20. CASE CiWaitAgain
  BY <1>15, <1>20 DEF CiWaitAgain, AfterCi
<1>21. CASE FinalWait
  BY <1>4, <1>15, <1>21 DEF FinalWait
<1>22. CASE Fresh
  BY <1>4, <1>22 DEF Fresh
<1>23. CASE SignOff
  BY <1>4, <1>23 DEF SignOff
<1>24. CASE Merge
  BY <1>2, <1>4, <1>24 DEF Merge, PrStates
<1>25. CASE DeleteBranch
  BY <1>4, <1>25 DEF DeleteBranch
<1>26. CASE Fail
  BY <1>4, <1>26 DEF Fail
<1> QED
  BY <1>5, <1>6, <1>7, <1>8, <1>9, <1>10, <1>11, <1>12, <1>13, <1>14, <1>16, <1>17, <1>18,
     <1>19, <1>20, <1>21, <1>22, <1>23, <1>24, <1>25, <1>26 DEF LoopStep

\* People, GitHub and the other processes of the machine.
LEMMA EnvTypes ==
  ASSUME TypeInv, EnvStep
  PROVE  TypeInv'
<1> USE NoCommitNotCommit DEF TypeInv, TypeOK, BranchTypeOK, PrInv, gitVars, loopVars, envVars,
        restVars
<1>1. CASE HumanPush
  <2>1. PICK h \in unpushed : remote' = OnTop(remote, h) /\ unpushed' = unpushed \ {h}
    BY <1>1 DEF HumanPush
  <2>2. remote' \in Commit
    BY <1>1, <2>1, OnTopCommit DEF HumanPush, Patch
  <2> QED
    BY <1>1, <2>1, <2>2 DEF HumanPush
<1>2. CASE BaseMoves
  BY <1>2 DEF BaseMoves
<1>3. CASE PrChanges
  BY <1>3 DEF PrChanges, PrStates
<1>4. CASE HumanMerge
  BY <1>4 DEF HumanMerge, PrStates
<1>5. CASE SharedFetch
  BY <1>5 DEF SharedFetch
<1>6. CASE LoseWorktree
  BY <1>6, FrameTypes DEF LoseWorktree
<1> QED
  BY <1>1, <1>2, <1>3, <1>4, <1>5, <1>6 DEF EnvStep

LEMMA TypeNext == TypeInv /\ [Next]_vars => TypeInv'
<1> SUFFICES ASSUME TypeInv, [Next]_vars PROVE TypeInv'
  OBVIOUS
<1>1. CASE CallStep
  BY <1>1, CallTypes
<1>2. CASE (LoopStep \/ Start \/ Fail) /\ ~CallStep
  BY <1>2, MainTypes
<1>3. CASE EnvStep
  BY <1>3, EnvTypes
<1>4. CASE UNCHANGED vars
  BY <1>4 DEF TypeInv, TypeOK, BranchTypeOK, PrInv, vars, gitVars, loopVars, envVars, restVars
<1> QED
  BY <1>1, <1>2, <1>3, <1>4 DEF Next

LEMMA TypeInvariant == Spec => []TypeInv
<1> QED
  BY TypeInit, TypeNext, PTL DEF Spec

\* Every variable of the PR loop keeps its type; a process past the worktree
\* has a HEAD and a call of _commit_and_push a commit to go back to.
THEOREM TypeCorrect == Spec => []TypeOK
<1>1. TypeInv => TypeOK
  BY DEF TypeInv
<1> QED
  BY <1>1, TypeInvariant, PTL

(***************************************************************************)
(* What is vetted.                                                         *)
(***************************************************************************)

\* Gates that passed stay passed.
LEMMA VettedMonotone ==
  ASSUME NEW c \in Commit, NEW g, NEW h, g \subseteq h, VettedBy(c, g)
  PROVE  VettedBy(c, h)
BY DEF VettedBy

\* Only the log counts, so a rebase keeps a commit vetted.
LEMMA VettedRebased ==
  ASSUME NEW c \in Commit, NEW b \in Nat, NEW g, VettedBy(c, g)
  PROVE  VettedBy([c EXCEPT !.base = b], g)
<1>1. [c EXCEPT !.base = b].log = c.log
  BY DEF Commit
<1> QED
  BY <1>1 DEF VettedBy

\* A person's commit needs no gates; Ralph's needs those of the log it makes.
LEMMA VettedOnTop ==
  ASSUME NEW c \in Commit, NEW p \in Patch, NEW g, VettedBy(c, g),
         p \in HumanPatches \/ (p = "ralph" /\ OnTop(c, p).log \in g)
  PROVE  VettedBy(OnTop(c, p), g)
<1> DEFINE s == c.log
           t == Append(s, p)
<1>1. s \in Seq(Patch) /\ t \in Seq(Patch) /\ Len(t) = Len(s) + 1 /\ Len(s) \in Nat
  BY DEF Commit, Log
<1>2. OnTop(c, p).log = t
  BY DEF OnTop
<1>3. p # "codex"
  BY AuthorsDiffer
<1>4. p = "ralph" => t \in g
  BY <1>2, AuthorsDiffer
<1>5. ASSUME NEW i \in 1..Len(t)
      PROVE  t[i] # "codex" /\ (t[i] = "ralph" => SubSeq(t, 1, i) \in g)
  <2>1. CASE i = Len(s) + 1
    <3>1. t[i] = p
      BY <1>1, <2>1
    <3>2. SubSeq(t, 1, i) = t
      BY <1>1, <2>1, SubSeqFull
    <3> QED
      BY <1>3, <1>4, <3>1, <3>2
  <2>2. CASE i # Len(s) + 1
    <3>1. i \in 1..Len(s)
      BY <1>1, <2>2
    <3>2. t[i] = s[i]
      BY <1>1, <3>1
    <3>3. SubSeq(t, 1, i) = SubSeq(s, 1, i)
      BY <1>1, <3>1
    <3> QED
      BY <3>1, <3>2, <3>3 DEF VettedBy
  <2> QED
    BY <2>1, <2>2
<1> QED
  BY <1>2, <1>5 DEF VettedBy

\* The gates' record only grows.
LEMMA GatedGrows ==
  ASSUME [Next]_vars
  PROVE  gated \subseteq gated'
<1>1. CASE CallStep
  BY <1>1 DEF CallStep, CpStep, CpTop, CpReviewGate, CpGates, CpFixReady, CpFixFails,
              CpFixUseless, CpCommit, CommitChanges, CpPush
<1>2. CASE LoopStep /\ ~CallStep
  BY <1>2 DEF LoopStep, View, EnsureWorktree, BranchElsewhere, Rebase, LeasePush, ReviewRound,
              ReviewExhausted, ReviewAgain, ReviewDone, CiWait, CiExhausted, CiFix, CiCommitted,
              CiWaitAgain, FinalWait, Fresh, SignOff, Merge, DeleteBranch, gitVars
<1>3. CASE Start \/ Fail
  BY <1>3, Zenon DEF Start, Fail, gitVars
<1>4. CASE EnvStep
  BY <1>4 DEF EnvStep, HumanPush, BaseMoves, PrChanges, HumanMerge, SharedFetch, LoseWorktree,
              gitVars
<1>5. CASE UNCHANGED vars
  BY <1>5 DEF vars, gitVars
<1> QED
  BY <1>1, <1>2, <1>3, <1>4, <1>5 DEF Next

\* A round works on pre_round_sha, which is vetted, until what it stages is gated.
CallVetted ==
  pc = "commit" =>
    /\ VettedBy(cp.pre, gated)
    /\ cp.at \in {"review", "gates", "fix", "stage"} => head = cp.pre
    /\ cp.at = "stage" => tree.gated
    /\ cp.at \in {"returned", "push"} => VettedBy(head, gated) /\ tree.state # "changes"

VetInv == /\ PushedWorkVetted
          /\ NoStrayWork
          /\ CallVetted

\* A local branch whose worktree directory is gone is checked out without a sync.
UnsyncedCheckout == pc = "worktree" /\ ~worktree /\ head # NoCommit /\ pc' # "off"

\* Such a branch holds only vetted work, or is at the head of the PR.
CheckoutVetted == UnsyncedCheckout => Vetted(head)
CheckoutSynced == UnsyncedCheckout => head = PrHead

LEMMA VetInit == Init => VetInv
<1> SUFFICES ASSUME Init PROVE VetInv
  OBVIOUS
<1>1. remote.log = <<FirstPatch>> /\ Len(remote.log) = 1 /\ remote.log[1] = FirstPatch
  BY DEF Init
<1>2. FirstPatch # "codex" /\ FirstPatch # "ralph"
  BY FirstPatchHuman, AuthorsDiffer
<1>3. VettedBy(remote, gated)
  BY <1>1, <1>2 DEF VettedBy
<1> QED
  BY <1>3 DEF Init, VetInv, PushedWorkVetted, Vetted, NoStrayWork, Settled, CallVetted

\* The steps inside _commit_and_push.
LEMMA CallVets ==
  ASSUME TypeInv, TypeInv', VetInv, CallStep, gated \subseteq gated'
  PROVE  VetInv'
<1> USE DEF VetInv, PushedWorkVetted, Vetted, NoStrayWork, Settled, CallVetted, restVars
<1>1. \A c \in Commit : VettedBy(c, gated) => VettedBy(c, gated')
  BY VettedMonotone
<1>2. /\ pc = "commit" /\ head \in Commit /\ head # NoCommit
      /\ cp.pre \in Commit /\ cp.pre # NoCommit
      /\ remote \in Commit \cup {NoCommit} /\ merged \in Commit \cup {NoCommit}
      /\ cp \in CpType /\ tree \in Tree
  BY DEF CallStep, CpStep, CpTop, CpReviewGate, CpGates, CpFixReady, CpFixFails, CpFixUseless,
         CpCommit, CpPush, At, TypeInv, TypeOK, BranchTypeOK, CpType
<1>3. Clean.state = "clean" /\ \A s \in TreeState : Tidy(s).state = s
  BY DEF Clean, Tidy
<1>4. \A r : r \in {"no_changes", "discarded", "committed"} => r \in Results
  BY DEF Results
<1>5. OnTop(head, "codex") # NoCommit /\ OnTop(head, "codex") \in Commit
  BY <1>2, OnTopCommit DEF Patch
<1>6. CASE CpTop
  <2>1. CASE head = cp.pre /\ ~Dirty /\ Return("no_changes") /\ UNCHANGED <<head, tree>>
    BY <1>1, <1>2, <1>4, <1>6, <2>1, ReturnTypes DEF CallStep, CpTop, Dirty
  <2>2. CASE ResetTo(cp.pre) /\ Return("discarded")
    BY <1>1, <1>2, <1>3, <1>4, <1>6, <2>2, ReturnTypes DEF CallStep, CpTop, ResetTo
  <2>3. CASE /\ head = cp.pre
             /\ Step("review") \/ Step("gates")
             /\ UNCHANGED <<head, tree>>
    BY <1>1, <1>2, <1>6, <2>3, StepTypes DEF CallStep, CpTop
  <2> QED
    BY <1>6, <2>1, <2>2, <2>3 DEF CpTop
<1>7. CASE CpReviewGate
  <2>1. CASE Step("gates") /\ UNCHANGED head
    BY <1>1, <1>2, <1>7, <2>1, StepTypes DEF CallStep, CpReviewGate, At
  <2>2. CASE ResetTo(cp.pre) /\ Return("discarded")
    BY <1>1, <1>2, <1>3, <1>4, <1>7, <2>2, ReturnTypes DEF CallStep, CpReviewGate, ResetTo
  <2> QED
    BY <1>7, <2>1, <2>2 DEF CpReviewGate
<1>8. CASE CpGates
  <2>1. CASE tree' = [tree EXCEPT !.gated = TRUE] /\ Step("stage") /\ UNCHANGED head
    <3>1. tree'.gated
      BY <1>2, <2>1 DEF Tree
    <3> QED
      BY <1>1, <1>2, <1>8, <2>1, <3>1, StepTypes DEF CallStep, CpGates, At
  <2>2. CASE ResetTo(cp.pre) /\ Exit("failed")
    BY <1>1, <1>2, <1>8, <2>2 DEF CallStep, CpGates, ResetTo, Exit
  <2>3. CASE /\ cp' = [cp EXCEPT !.at = "fix", !.round = @ + 1]
             /\ UNCHANGED <<pc, code, run, head, tree>>
    BY <1>1, <1>2, <1>8, <2>3, CallUpdates DEF CallStep, CpGates, At
  <2> QED
    BY <1>8, <2>1, <2>2, <2>3 DEF CpGates
<1>9. CASE CpFixReady
  BY <1>1, <1>2, <1>5, <1>9, CallUpdates DEF CallStep, CpFixReady, CodexEdits
<1>10. CASE CpFixFails
  BY <1>1, <1>2, <1>5, <1>10 DEF CallStep, CpFixFails, CodexEdits, Exit
<1>11. CASE CpFixUseless
  BY <1>1, <1>2, <1>3, <1>4, <1>11, ReturnTypes DEF CallStep, CpFixUseless, ResetTo
<1>12. CASE CpCommit
  <2>1. CASE CommitChanges /\ Step("push")
    <3> DEFINE c == OnTop(head, "ralph")
    <3>1. c \in Commit /\ c # NoCommit /\ "ralph" \in Patch
      BY <1>2, OnTopCommit DEF Patch
    <3>2. head' = c /\ gated' = gated \cup {c.log} /\ tree'.state # "changes"
      BY <1>2, <1>3, <1>12, <2>1 DEF CommitChanges, CpCommit, At, TreeState
    <3>3. VettedBy(head, gated')
      BY <1>1, <1>2, <1>12 DEF CpCommit, At
    <3>4. VettedBy(c, gated')
      BY <1>2, <3>1, <3>2, <3>3, VettedOnTop
    <3> QED
      BY <1>1, <1>2, <1>12, <2>1, <3>1, <3>2, <3>4, StepTypes DEF CallStep, CpCommit
  <2>2. CASE ResetTo(cp.pre) /\ Return("no_changes")
    BY <1>1, <1>2, <1>3, <1>4, <1>12, <2>2, ReturnTypes DEF CallStep, CpCommit, ResetTo
  <2> QED
    BY <1>12, <2>1, <2>2 DEF CpCommit
<1>13. CASE CpPush
  <2>1. CASE Pushed(TRUE) /\ Return("committed")
    BY <1>1, <1>2, <1>4, <1>13, <2>1, ReturnTypes DEF CallStep, CpPush, Pushed, At
  <2>2. CASE (Pushed(FALSE) \/ UNCHANGED remote) /\ Exit("failed")
    BY <1>1, <1>2, <1>13, <2>2 DEF CallStep, CpPush, Pushed, At, Exit
  <2> QED
    BY <1>13, <2>1, <2>2 DEF CpPush
<1> QED
  BY <1>6, <1>7, <1>8, <1>9, <1>10, <1>11, <1>12, <1>13 DEF CallStep, CpStep

\* The steps of main() outside _commit_and_push.  A worktree that was lost and
\* made again on its old branch is what EnsureWorktree would get wrong here.
LEMMA MainVets ==
  ASSUME TypeInv, TypeInv', VetInv, LoopStep \/ Start \/ Fail, ~CallStep,
         gated \subseteq gated', CheckoutVetted
  PROVE  VetInv'
<1> USE DEF VetInv, PushedWorkVetted, Vetted, NoStrayWork, Settled, CallVetted, restVars, envVars,
        gitVars, Goto
<1>1. \A c \in Commit : VettedBy(c, gated) => VettedBy(c, gated')
  BY VettedMonotone
<1>2. /\ remote \in Commit \cup {NoCommit} /\ merged \in Commit \cup {NoCommit}
      /\ head \in Commit \cup {NoCommit} /\ base \in Nat
      /\ remote = NoCommit => merged # NoCommit
      /\ pc \notin {"off", "view", "worktree"} => head # NoCommit
      /\ pc = "commit" => cp.pre \in Commit
  BY DEF TypeInv, TypeOK, BranchTypeOK, PrInv, CpType
<1>3. Clean.state = "clean"
  BY DEF Clean, Tidy
<1>4. \A c : Exit(c) => pc' = "off"
  BY DEF Exit
<1>5. CASE Start
  <2>1. pc' = "view"
    BY <1>5, Zenon DEF Start
  <2>2. UNCHANGED <<remote, tracking, head, tree, gated, reviewed, worktree, merged>>
    BY <1>5, Zenon DEF Start
  <2> QED
    BY <2>1, <2>2
<1>6. CASE View
  BY <1>4, <1>6 DEF View
<1>7. CASE EnsureWorktree
  <2>1. PrHead \in Commit /\ PrHead # NoCommit /\ VettedBy(PrHead, gated)
    BY <1>2, PrHeadCommit DEF PrHead
  <2>2. gated' = gated /\ remote' = remote /\ merged' = merged /\ worktree' = TRUE
    BY <1>7 DEF EnsureWorktree
  <2>3. CASE worktree /\ Ancestor(head, PrHead)
    <3>1. head' = PrHead /\ tree' = Clean /\ AfterWorktree
      BY <1>7, <2>3 DEF EnsureWorktree, SyncTo, ResetTo
    <3> QED
      BY <1>3, <2>1, <2>2, <3>1 DEF AfterWorktree
  <2>4. CASE worktree /\ ~Ancestor(head, PrHead)
    BY <1>4, <1>7, <2>2, <2>4 DEF EnsureWorktree, SyncTo
  <2>5. CASE ~worktree
    <3>1. /\ head' = IF head = NoCommit THEN PrHead ELSE head
          /\ tree' = Clean /\ AfterWorktree /\ pc = "worktree"
      BY <1>7, <2>5 DEF EnsureWorktree
    <3>2. pc' \in {"review", "rebase"}
      BY <3>1 DEF AfterWorktree
    <3>3. VettedBy(head', gated)
      BY <2>1, <2>5, <3>1, <3>2 DEF CheckoutVetted, UnsyncedCheckout
    <3> QED
      BY <1>3, <2>1, <2>2, <3>1, <3>2, <3>3
  <2> QED
    BY <2>3, <2>4, <2>5
<1>8. CASE BranchElsewhere
  BY <1>4, <1>8 DEF BranchElsewhere
<1>9. CASE Rebase
  <2>1. head \in Commit /\ head # NoCommit /\ VettedBy(head, gated)
    BY <1>2, <1>9 DEF Rebase
  <2>2. VettedBy([head EXCEPT !.base = base], gated)
    BY <1>2, <2>1, VettedRebased
  <2>3. [head EXCEPT !.base = base] \in Commit
    BY <1>2, <2>1 DEF Commit
  <2>4. [head EXCEPT !.base = base] # NoCommit
    BY <2>3, NoCommitNotCommit
  <2> QED
    BY <1>4, <1>9, <2>1, <2>2, <2>4 DEF Rebase
<1>10. CASE LeasePush
  BY <1>1, <1>2, <1>4, <1>10 DEF LeasePush, Pushed
<1>11. CASE ReviewRound
  <2>1. head \in Commit /\ head # NoCommit /\ VettedBy(head, gated) /\ "codex" \in Patch
    BY <1>2, <1>11 DEF ReviewRound, Patch
  <2>2. OnTop(head, "codex") # NoCommit
    BY <2>1, OnTopCommit
  <2>3. \A gate, after \in BOOLEAN :
          Call(head, gate, after).pre = head /\ Call(head, gate, after).at = "top"
    BY DEF Call, NoCall
  <2>4. head' # NoCommit
    BY <1>11, <2>1, <2>2 DEF ReviewRound, CodexEdits, CodexFails
  <2>5. CASE pc' = "off"
    BY <1>11, <2>1, <2>4, <2>5 DEF ReviewRound
  <2>6. CASE pc' = "commit" /\ (cp' = Call(head, FALSE, FALSE) \/ cp' = Call(head, FALSE, TRUE))
    BY <1>11, <2>1, <2>3, <2>4, <2>6 DEF ReviewRound
  <2> QED
    BY <1>4, <1>11, <2>5, <2>6 DEF ReviewRound, Calls, CodexFails
<1>12. CASE ReviewExhausted
  BY <1>4, <1>12 DEF ReviewExhausted
<1>13. CASE ReviewAgain
  <2>1. pc = "commit" /\ cp.at = "returned" /\ pc' = "review"
    BY <1>13 DEF ReviewAgain, Returned, At, Back
  <2>2. (head' = cp.pre /\ tree' = Clean) \/ UNCHANGED <<head, tree>>
    BY <1>13 DEF ReviewAgain, ResetTo
  <2>3. UNCHANGED <<remote, gated, worktree, merged>>
    BY <1>13 DEF ReviewAgain
  <2>4. cp.pre # NoCommit
    BY <1>2, <2>1, NoCommitNotCommit
  <2> QED
    BY <1>2, <1>3, <2>1, <2>2, <2>3, <2>4
<1>14. CASE ReviewDone
  <2>1. pc = "commit" /\ cp.at = "returned" /\ pc' = "ci"
    BY <1>14 DEF ReviewDone, Returned, At, Back
  <2> QED
    BY <1>2, <1>14, <2>1 DEF ReviewDone
<1>15. CASE CiWait
  BY <1>15 DEF CiWait, GreenSeen, AfterCi
<1>16. CASE CiExhausted
  BY <1>4, <1>16 DEF CiExhausted
<1>17. CASE CiFix
  <2>1. head \in Commit /\ head # NoCommit /\ VettedBy(head, gated) /\ "codex" \in Patch
    BY <1>2, <1>17 DEF CiFix, Patch
  <2>2. OnTop(head, "codex") # NoCommit
    BY <2>1, OnTopCommit
  <2>3. Call(head, TRUE, TRUE).pre = head /\ Call(head, TRUE, TRUE).at = "top"
    BY DEF Call, NoCall
  <2>4. CASE CodexEdits /\ Calls(Call(head, TRUE, TRUE))
    BY <1>17, <2>1, <2>2, <2>3, <2>4 DEF CiFix, CodexEdits, Calls
  <2>5. CASE ResetTo(head) /\ Goto("ci")
    BY <1>3, <1>17, <2>1, <2>5 DEF CiFix, ResetTo
  <2>6. CASE CodexFails
    BY <1>4, <1>17, <2>1, <2>2, <2>6 DEF CiFix, CodexFails, CodexEdits
  <2> QED
    BY <1>17, <2>4, <2>5, <2>6 DEF CiFix
<1>18. CASE CiCommitted
  BY <1>2, <1>18 DEF CiCommitted, Returned, At, Back
<1>19. CASE CiWaitAgain
  BY <1>19 DEF CiWaitAgain, GreenSeen, AfterCi
<1>20. CASE FinalWait
  BY <1>4, <1>20 DEF FinalWait, GreenSeen
<1>21. CASE Fresh
  BY <1>4, <1>21 DEF Fresh
<1>22. CASE SignOff
  BY <1>4, <1>22 DEF SignOff
<1>23. CASE Merge
  BY <1>4, <1>23 DEF Merge
<1>24. CASE DeleteBranch
  BY <1>4, <1>24 DEF DeleteBranch
<1>25. CASE Fail
  BY <1>4, <1>25 DEF Fail
<1> QED
  BY <1>5, <1>6, <1>7, <1>8, <1>9, <1>10, <1>11, <1>12, <1>13, <1>14, <1>15, <1>16, <1>17,
     <1>18, <1>19, <1>20, <1>21, <1>22, <1>23, <1>24, <1>25 DEF LoopStep

LEMMA EnvVets ==
  ASSUME TypeInv, VetInv, EnvStep
  PROVE  VetInv'
<1> USE DEF VetInv, PushedWorkVetted, Vetted, NoStrayWork, CallVetted, gitVars, loopVars
<1>1. CASE HumanPush
  <2>1. PICK h \in unpushed : remote' = OnTop(remote, h)
    BY <1>1 DEF HumanPush
  <2>2. remote \in Commit /\ h \in HumanPatches /\ h \in Patch
    BY <1>1, <2>1 DEF HumanPush, TypeInv, TypeOK, BranchTypeOK, Patch
  <2>3. VettedBy(remote', gated)
    BY <1>1, <2>1, <2>2, VettedOnTop DEF HumanPush
  <2> QED
    BY <1>1, <2>3 DEF HumanPush
<1>2. CASE BaseMoves
  BY <1>2 DEF BaseMoves
<1>3. CASE PrChanges
  BY <1>3 DEF PrChanges
<1>4. CASE HumanMerge
  BY <1>4 DEF HumanMerge
<1>5. CASE SharedFetch
  BY <1>5 DEF SharedFetch, restVars
<1>6. CASE LoseWorktree
  BY <1>6 DEF LoseWorktree, Settled
<1> QED
  BY <1>1, <1>2, <1>3, <1>4, <1>5, <1>6 DEF EnvStep

LEMMA VetNext ==
  TypeInv /\ TypeInv' /\ VetInv /\ [Next]_vars /\ [CheckoutVetted]_vars => VetInv'
<1> SUFFICES ASSUME TypeInv, TypeInv', VetInv, [Next]_vars, [CheckoutVetted]_vars PROVE VetInv'
  OBVIOUS
<1>1. CASE UNCHANGED vars
  BY <1>1 DEF VetInv, PushedWorkVetted, Vetted, NoStrayWork, CallVetted, vars, gitVars, loopVars,
              restVars
<1>2. CASE CallStep
  BY <1>2, CallVets, GatedGrows
<1>3. CASE (LoopStep \/ Start \/ Fail) /\ ~CallStep /\ CheckoutVetted
  BY <1>3, MainVets, GatedGrows
<1>4. CASE EnvStep
  BY <1>4, EnvVets
<1> QED
  BY <1>1, <1>2, <1>3, <1>4 DEF Next

\* The head of the PR is vetted, so a checkout that is in sync is.
LEMMA SyncedIsVetted ==
  TypeInv /\ VetInv /\ [CheckoutSynced]_vars => [CheckoutVetted]_vars
<1>1. TypeInv /\ VetInv => Vetted(PrHead)
  BY PrHeadCommit DEF VetInv, PushedWorkVetted, Vetted, PrHead, TypeInv, PrInv
<1> QED
  BY <1>1 DEF CheckoutSynced, CheckoutVetted

LEMMA VetInvariant == Spec /\ [][CheckoutVetted]_vars => []VetInv
BY TypeInvariant, VetInit, VetNext, PTL DEF Spec

LEMMA SyncedVets == Spec /\ [][CheckoutSynced]_vars => []VetInv
BY TypeInvariant, VetInit, VetNext, SyncedIsVetted, PTL DEF Spec

\* If no worktree directory is lost, a local branch has its directory.
LEMMA WorktreesThere ==
  ASSUME ~WorktreesLost
  PROVE  Spec => [][CheckoutSynced]_vars /\ [][CheckoutVetted]_vars
<1> DEFINE There == head # NoCommit => worktree
<1>1. Init => There
  BY DEF Init
<1>2. TypeInv /\ There /\ [Next]_vars => There'
  <2> SUFFICES ASSUME TypeInv, There, [Next]_vars PROVE There'
    OBVIOUS
  <2>1. CASE EnsureWorktree
    BY <2>1 DEF EnsureWorktree
  <2>2. CASE Start \/ Fail \/ EnvStep \/ UNCHANGED vars
    BY <2>2 DEF Start, Fail, EnvStep, HumanPush, BaseMoves, PrChanges, HumanMerge, SharedFetch,
       LoseWorktree, vars, gitVars, restVars
  <2>3. CASE View \/ BranchElsewhere
    BY <2>3 DEF View, BranchElsewhere, gitVars, restVars
  <2>4. CASE LoopStep /\ pc \notin {"off", "view", "worktree"}
    <3>1. worktree
      BY <2>4 DEF TypeInv, TypeOK
    <3>2. ~EnsureWorktree
      BY <2>4 DEF EnsureWorktree
    <3>3. worktree' = worktree
      BY <2>4, <3>2 DEF LoopStep, View, BranchElsewhere, Rebase, LeasePush, ReviewRound,
         ReviewExhausted, ReviewAgain, ReviewDone, CiWait, CiExhausted, CiFix, CiCommitted,
         CiWaitAgain, FinalWait, Fresh, SignOff, Merge, DeleteBranch, CallStep, restVars
    <3> QED
      BY <3>1, <3>3
  <2>5. CASE CallStep
    <3>1. pc = "commit"
      BY <2>5 DEF CallStep, CpStep, CpTop, CpReviewGate, CpGates, CpFixReady, CpFixFails,
         CpFixUseless, CpCommit, CpPush, At
    <3> QED
      BY <2>4, <2>5, <3>1 DEF LoopStep
  <2>6. CASE /\ LoopStep /\ ~CallStep /\ pc \in {"off", "view", "worktree"}
             /\ ~(View \/ BranchElsewhere \/ EnsureWorktree)
    BY <2>6 DEF LoopStep, Rebase, LeasePush, ReviewRound, ReviewExhausted, ReviewAgain,
       ReviewDone, CiWait, CiExhausted, CiFix, CiCommitted, CiWaitAgain, FinalWait, Fresh, SignOff,
       Merge, DeleteBranch, Returned, At
  <2> QED
    BY <2>1, <2>2, <2>3, <2>4, <2>5, <2>6 DEF Next
<1>3. There => CheckoutSynced /\ CheckoutVetted
  BY DEF CheckoutSynced, CheckoutVetted, UnsyncedCheckout
<1> QED
  BY <1>1, <1>2, <1>3, TypeInvariant, PTL DEF Spec

\* Whatever Codex does, and wherever processes die, everything on the PR branch and
\* everything merged came from people or passed the local gates, unless a worktree directory
\* is lost and its branch, unvetted, is checked out again: that is the only way (and one the
\* code has, see the violation run).
THEOREM OnlyVettedWorkPushed ==
  Spec /\ [][CheckoutVetted]_vars => []PushedWorkVetted
<1>1. VetInv => PushedWorkVetted
  BY DEF VetInv
<1> QED
  BY <1>1, VetInvariant, PTL

\* Under the same condition a round ends committed or undone.
THEOREM RoundsLeaveNothing ==
  Spec /\ [][CheckoutVetted]_vars => []NoStrayWork
<1>1. VetInv => NoStrayWork
  BY DEF VetInv
<1> QED
  BY <1>1, VetInvariant, PTL

\* So all of it holds where no worktree directory is lost.
THEOREM VettedWithoutLoss ==
  ASSUME ~WorktreesLost
  PROVE  Spec => [](PushedWorkVetted /\ NoStrayWork)
BY WorktreesThere, OnlyVettedWorkPushed, RoundsLeaveNothing, PTL

(***************************************************************************)
(* How HEAD follows the branch on GitHub.                                  *)
(***************************************************************************)

\* Between rounds HEAD is on the branch as GitHub has it; a round starts there
\* and pushes one commit on top.  The head last seen green lies between the two,
\* and what is about to be merged is approved.
Following == Settled \ {"lease"}

FollowInv ==
  /\ remote # NoCommit /\ pc \in Following => Ancestor(head, remote)
  /\ remote # NoCommit /\ pc = "commit" => Ancestor(cp.pre, remote)
  /\ remote # NoCommit /\ At("returned") => Ancestor(head, remote)
  /\ At("push") => head = OnTop(cp.pre, "ralph") /\ head.log \in gated
  /\ pc \in {"fresh", "signoff", "merge"} /\ pr # "merged" =>
       /\ run.green \in Commit
       /\ Ancestor(head, run.green) /\ Ancestor(run.green, remote)
  /\ pc = "merge" => head \in approved

LEMMA FollowInit == Init => FollowInv
BY DEF Init, FollowInv, Following, Settled, At

LEMMA CallFollows ==
  ASSUME TypeInv, TypeInv', VetInv, FollowInv, CallStep
  PROVE  FollowInv'
<1> USE DEF FollowInv, Following, Settled, At, restVars, envVars
<1>1. /\ pc = "commit" /\ head \in Commit /\ head # NoCommit
      /\ cp.pre \in Commit /\ cp.pre # NoCommit
      /\ remote \in Commit \cup {NoCommit} /\ cp \in CpType /\ tree \in Tree
  BY DEF CallStep, CpStep, CpTop, CpReviewGate, CpGates, CpFixReady, CpFixFails, CpFixUseless,
         CpCommit, CpPush, TypeInv, TypeOK, BranchTypeOK, CpType
<1>2. \A c : Exit(c) => pc' = "off"
  BY DEF Exit
<1>3. \A r : r \in {"no_changes", "discarded", "committed"} => r \in Results
  BY DEF Results
<1>4. CASE CpTop
  <2>1. CASE head = cp.pre /\ Return("no_changes") /\ UNCHANGED <<head, tree>>
    BY <1>1, <1>3, <1>4, <2>1, ReturnTypes DEF CallStep, CpTop
  <2>2. CASE ResetTo(cp.pre) /\ Return("discarded")
    BY <1>1, <1>3, <1>4, <2>2, ReturnTypes DEF CallStep, CpTop, ResetTo
  <2>3. CASE Step("review") \/ Step("gates")
    BY <1>1, <1>4, <2>3, StepTypes DEF CallStep, CpTop
  <2> QED
    BY <1>4, <2>1, <2>2, <2>3 DEF CpTop
<1>5. CASE CpReviewGate
  <2>1. CASE Step("gates") /\ UNCHANGED head
    BY <1>1, <1>5, <2>1, StepTypes DEF CallStep, CpReviewGate
  <2>2. CASE ResetTo(cp.pre) /\ Return("discarded")
    BY <1>1, <1>3, <1>5, <2>2, ReturnTypes DEF CallStep, CpReviewGate, ResetTo
  <2> QED
    BY <1>5, <2>1, <2>2 DEF CpReviewGate
<1>6. CASE CpGates
  <2>1. CASE Step("stage") /\ UNCHANGED head
    BY <1>1, <1>6, <2>1, StepTypes DEF CallStep, CpGates
  <2>2. CASE Exit("failed")
    BY <1>1, <1>2, <1>6, <2>2 DEF CallStep, CpGates
  <2>3. CASE cp' = [cp EXCEPT !.at = "fix", !.round = @ + 1] /\ UNCHANGED <<pc, code, run, head>>
    BY <1>1, <1>6, <2>3, CallUpdates DEF CallStep, CpGates
  <2> QED
    BY <1>6, <2>1, <2>2, <2>3 DEF CpGates
<1>7. CASE CpFixReady
  BY <1>1, <1>7, CallUpdates DEF CallStep, CpFixReady
<1>8. CASE CpFixFails
  BY <1>1, <1>2, <1>8 DEF CallStep, CpFixFails
<1>9. CASE CpFixUseless
  BY <1>1, <1>3, <1>9, ReturnTypes DEF CallStep, CpFixUseless, ResetTo
<1>10. CASE CpCommit
  <2>1. CASE CommitChanges /\ Step("push")
    <3>1. head = cp.pre /\ tree.gated
      BY <1>1, <1>10 DEF CpCommit, VetInv, CallVetted
    <3>2. head' = OnTop(head, "ralph") /\ head'.log \in gated'
      BY <2>1, <3>1 DEF CommitChanges
    <3> QED
      BY <1>1, <1>10, <2>1, <3>1, <3>2, StepTypes DEF CallStep, CpCommit
  <2>2. CASE ResetTo(cp.pre) /\ Return("no_changes")
    BY <1>1, <1>3, <1>10, <2>2, ReturnTypes DEF CallStep, CpCommit, ResetTo
  <2> QED
    BY <1>10, <2>1, <2>2 DEF CpCommit
<1>11. CASE CpPush
  <2>1. CASE Pushed(TRUE) /\ Return("committed")
    <3>1. Ancestor(head, head) /\ Ancestor(cp.pre, head)
      BY <1>1, <1>11, AncestorReflexive, AncestorOnTop DEF CpPush, Patch
    <3> QED
      BY <1>1, <1>3, <1>11, <2>1, <3>1, ReturnTypes DEF CallStep, CpPush, Pushed
  <2>2. CASE Exit("failed")
    BY <1>1, <1>2, <1>11, <2>2 DEF CallStep, CpPush
  <2> QED
    BY <1>11, <2>1, <2>2 DEF CpPush
<1> QED
  BY <1>4, <1>5, <1>6, <1>7, <1>8, <1>9, <1>10, <1>11 DEF CallStep, CpStep

LEMMA MainFollows ==
  ASSUME TypeInv, TypeInv', VetInv, FollowInv, LoopStep \/ Start \/ Fail, ~CallStep,
         CheckoutSynced
  PROVE  FollowInv'
<1> USE DEF FollowInv, Following, Settled, At, restVars, envVars, gitVars, Goto
<1>1. /\ remote \in Commit \cup {NoCommit} /\ head \in Commit \cup {NoCommit}
      /\ remote = NoCommit => pr = "merged"
      /\ pc \notin {"off", "view", "worktree"} => head # NoCommit
      /\ pc = "commit" => cp.pre \in Commit
      /\ run \in RunType
  BY DEF TypeInv, TypeOK, BranchTypeOK, PrInv, CpType
<1>2. \A c : Exit(c) => pc' = "off"
  BY DEF Exit
<1>3. CASE Start
  <2>1. pc' = "view"
    BY <1>3, Zenon DEF Start
  <2> QED
    BY <2>1
<1>4. CASE View
  BY <1>2, <1>4 DEF View
<1>5. CASE EnsureWorktree
  <2>1. remote # NoCommit => PrHead = remote
    BY DEF PrHead
  <2>2. remote' = remote /\ (pc' = "off" \/ (head' = PrHead /\ pc' \in {"review", "rebase"}))
    <3>1. CASE worktree /\ Ancestor(head, PrHead)
      BY <1>5, <3>1 DEF EnsureWorktree, SyncTo, ResetTo, AfterWorktree
    <3>2. CASE worktree /\ ~Ancestor(head, PrHead)
      BY <1>2, <1>5, <3>2 DEF EnsureWorktree, SyncTo
    <3>3. CASE ~worktree
      BY <1>5, <3>3 DEF EnsureWorktree, AfterWorktree, CheckoutSynced, UnsyncedCheckout
    <3> QED
      BY <3>1, <3>2, <3>3
  <2>3. remote # NoCommit => Ancestor(remote, remote)
    BY <1>1, AncestorReflexive
  <2> QED
    BY <2>1, <2>2, <2>3
<1>6. CASE BranchElsewhere
  BY <1>2, <1>6 DEF BranchElsewhere
<1>7. CASE Rebase
  BY <1>2, <1>7 DEF Rebase
<1>8. CASE LeasePush
  <2>1. Ancestor(head, head)
    BY <1>1, <1>8, AncestorReflexive DEF LeasePush
  <2> QED
    BY <1>2, <1>8, <2>1 DEF LeasePush, Pushed
<1>9. CASE ReviewRound
  <2>1. \A gate, after \in BOOLEAN :
          Call(head, gate, after).pre = head /\ Call(head, gate, after).at = "top"
    BY DEF Call, NoCall
  <2>2. CASE pc' = "off"
    BY <1>9, <2>2 DEF ReviewRound
  <2>3. CASE pc' = "commit" /\ (cp' = Call(head, FALSE, FALSE) \/ cp' = Call(head, FALSE, TRUE))
    BY <1>9, <2>1, <2>3 DEF ReviewRound
  <2> QED
    BY <1>2, <1>9, <2>2, <2>3 DEF ReviewRound, Calls, CodexFails
<1>10. CASE ReviewExhausted
  BY <1>2, <1>10 DEF ReviewExhausted
<1>11. CASE ReviewAgain
  <2>1. pc = "commit" /\ cp.at = "returned" /\ pc' = "review" /\ remote' = remote
    BY <1>11 DEF ReviewAgain, Returned, Back
  <2>2. head' = cp.pre \/ head' = head
    BY <1>11 DEF ReviewAgain, ResetTo
  <2> QED
    BY <2>1, <2>2
<1>12. CASE ReviewDone
  BY <1>12 DEF ReviewDone, Returned, Back
<1>13. \A label : GreenSeen(label) => pc' = label /\ run'.green = remote
  BY <1>1 DEF GreenSeen, RunType
<1>14. ASSUME pc \in Following, pc' \in Following, UNCHANGED <<remote, head, pr, approved>>,
              pc' = "fresh" => run'.green = remote, pc' \notin {"signoff", "merge"}
       PROVE  FollowInv'
  <2>1. pr # "merged" => /\ remote \in Commit /\ remote # NoCommit
                         /\ Ancestor(head, remote) /\ Ancestor(remote, remote)
    BY <1>1, <1>14, AncestorReflexive
  <2>2. pc' # "commit" /\ (remote # NoCommit => Ancestor(head, remote))
    BY <1>14
  <2> QED
    BY <1>14, <2>1, <2>2
<1>15. CASE CiWait
  <2>1. CASE GreenSeen(AfterCi)
    BY <1>13, <1>14, <1>15, <2>1 DEF CiWait, AfterCi
  <2>2. CASE pc' = "cifix"
    BY <1>14, <1>15, <2>2 DEF CiWait
  <2> QED
    BY <1>15, <2>1, <2>2 DEF CiWait
<1>16. CASE CiExhausted
  BY <1>2, <1>16 DEF CiExhausted
<1>17. CASE CiFix
  <2>1. Call(head, TRUE, TRUE).pre = head /\ Call(head, TRUE, TRUE).at = "top"
    BY DEF Call, NoCall
  <2>2. CASE Calls(Call(head, TRUE, TRUE))
    BY <1>17, <2>1, <2>2 DEF CiFix, Calls
  <2>3. CASE ResetTo(head) /\ Goto("ci")
    BY <1>17, <2>3 DEF CiFix, ResetTo
  <2>4. CASE CodexFails
    BY <1>2, <1>17, <2>4 DEF CiFix, CodexFails
  <2> QED
    BY <1>17, <2>2, <2>3, <2>4 DEF CiFix
<1>18. CASE CiCommitted
  BY <1>18 DEF CiCommitted, Returned, Back
<1>19. CASE CiWaitAgain
  <2>1. CASE GreenSeen(AfterCi)
    BY <1>13, <1>14, <1>19, <2>1 DEF CiWaitAgain, AfterCi
  <2>2. CASE Goto("ci")
    BY <1>14, <1>19, <2>2 DEF CiWaitAgain
  <2> QED
    BY <1>19, <2>1, <2>2 DEF CiWaitAgain
<1>20. CASE FinalWait
  <2>1. CASE GreenSeen("fresh")
    BY <1>13, <1>14, <1>20, <2>1 DEF FinalWait
  <2>2. CASE Exit("failed")
    BY <1>2, <1>20, <2>2 DEF FinalWait
  <2> QED
    BY <1>20, <2>1, <2>2 DEF FinalWait
<1>21. CASE Fresh
  BY <1>2, <1>21 DEF Fresh
<1>22. CASE SignOff
  BY <1>2, <1>22 DEF SignOff
<1>23. CASE Merge
  BY <1>2, <1>23 DEF Merge
<1>24. CASE DeleteBranch
  BY <1>2, <1>24 DEF DeleteBranch
<1>25. CASE Fail
  BY <1>2, <1>25 DEF Fail
<1> QED
  BY <1>3, <1>4, <1>5, <1>6, <1>7, <1>8, <1>9, <1>10, <1>11, <1>12, <1>15, <1>16, <1>17,
     <1>18, <1>19, <1>20, <1>21, <1>22, <1>23, <1>24, <1>25 DEF LoopStep

\* Other people only add to the branch, or it goes.
LEMMA EnvGrows ==
  ASSUME TypeInv, EnvStep, remote' # NoCommit
  PROVE  /\ remote \in Commit /\ remote # NoCommit /\ remote' \in Commit
         /\ Ancestor(remote, remote') /\ remote'.base = remote.base
         /\ Len(remote.log) <= Len(remote'.log)
<1> USE DEF gitVars
<1>1. CASE HumanPush
  <2>1. PICK h \in unpushed : remote' = OnTop(remote, h)
    BY <1>1 DEF HumanPush
  <2>2. remote \in Commit /\ h \in Patch
    BY <1>1, <2>1 DEF HumanPush, TypeInv, TypeOK, BranchTypeOK, Patch
  <2>3. Ancestor(remote, remote')
    BY <2>1, <2>2, AncestorOnTop
  <2> QED
    BY <1>1, <2>1, <2>2, <2>3, OnTopCommit DEF HumanPush, Ancestor
<1>2. CASE UNCHANGED remote
  <2>1. remote \in Commit
    BY <1>2 DEF TypeInv, TypeOK, BranchTypeOK
  <2> QED
    BY <1>2, <2>1, AncestorReflexive DEF Ancestor
<1> QED
  BY <1>1, <1>2 DEF EnvStep, BaseMoves, PrChanges, HumanMerge, SharedFetch, LoseWorktree

LEMMA EnvFollows ==
  ASSUME TypeInv, FollowInv, EnvStep
  PROVE  FollowInv'
<1> USE DEF FollowInv, Following, Settled, At
<1>1. UNCHANGED <<pc, cp, run, head, gated, approved>>
  BY DEF EnvStep, HumanPush, BaseMoves, PrChanges, HumanMerge, SharedFetch, LoseWorktree,
         gitVars, loopVars, restVars
<1>2. pr' # "merged" => pr # "merged"
  BY DEF EnvStep, HumanPush, BaseMoves, PrChanges, HumanMerge, SharedFetch, LoseWorktree,
         envVars, restVars
<1>3. remote = NoCommit => pr = "merged"
  BY DEF TypeInv, PrInv
<1>4. CASE remote' = NoCommit
  <2>1. pr' = "merged"
    BY <1>4, EnvTypes DEF TypeInv, PrInv
  <2> QED
    BY <1>1, <1>4, <2>1
<1>5. CASE remote' # NoCommit
  <2>1. /\ remote \in Commit /\ remote # NoCommit /\ remote' \in Commit
        /\ Ancestor(remote, remote')
    BY <1>5, EnvGrows
  <2>2. \A c \in Commit : Ancestor(c, remote) => Ancestor(c, remote')
    BY <2>1, AncestorTransitive
  <2>3. /\ pc \in Following \/ At("returned") => head \in Commit
        /\ pc = "commit" => cp.pre \in Commit
    BY DEF TypeInv, TypeOK, BranchTypeOK, CpType
  <2> QED
    BY <1>1, <1>2, <2>1, <2>2, <2>3
<1> QED
  BY <1>4, <1>5

LEMMA FollowNext ==
  TypeInv /\ TypeInv' /\ VetInv /\ FollowInv /\ [Next]_vars /\ [CheckoutSynced]_vars
    => FollowInv'
<1> SUFFICES ASSUME TypeInv, TypeInv', VetInv, FollowInv, [Next]_vars, [CheckoutSynced]_vars
             PROVE  FollowInv'
  OBVIOUS
<1>1. CASE CallStep
  BY <1>1, CallFollows
<1>2. CASE (LoopStep \/ Start \/ Fail) /\ ~CallStep /\ CheckoutSynced
  BY <1>2, MainFollows
<1>3. CASE EnvStep
  BY <1>3, EnvFollows
<1>4. CASE UNCHANGED vars
  BY <1>4 DEF FollowInv, Following, Settled, At, vars, gitVars, loopVars, envVars, restVars
<1> QED
  BY <1>1, <1>2, <1>3, <1>4 DEF Next

LEMMA FollowInvariant == Spec /\ [][CheckoutSynced]_vars => []FollowInv
BY TypeInvariant, SyncedVets, FollowInit, FollowNext, PTL DEF Spec

\* Ralph merges the approved HEAD of its worktree, and it is the one whose checks
\* the loop saw green, whoever pushed between the wait, the approval and the merge, unless
\* a branch whose directory was lost is checked out behind or beside the PR's head.
THEOREM MergesVetted == Spec /\ [][CheckoutSynced]_vars => MergeVetted
<1> DEFINE Vets == pc = "merge" /\ pc' = "delete" /\ merged' # merged
                     => merged' = head /\ merged' = run.green /\ merged' \in approved
<1>1. TypeInv /\ FollowInv /\ [Next]_vars => [Vets]_vars
  <2> SUFFICES ASSUME TypeInv, FollowInv, Next, pc = "merge", pc' = "delete", merged' # merged
               PROVE  merged' = head /\ merged' = run.green /\ merged' \in approved
    OBVIOUS
  <2>1. pr = "open" /\ remote = head /\ merged' = head
    BY DEF Next, Start, LoopStep, EnvStep, CallStep, CpStep, View, EnsureWorktree,
           BranchElsewhere, Rebase, LeasePush, ReviewRound, ReviewExhausted, ReviewAgain,
           ReviewDone, CiWait, CiExhausted, CiFix, CiCommitted, CiWaitAgain, FinalWait, Fresh,
           SignOff, Merge, DeleteBranch, Fail, HumanPush, BaseMoves, PrChanges, HumanMerge,
           SharedFetch, LoseWorktree, loopVars, restVars
  <2>2. head \in Commit
    BY DEF TypeInv, TypeOK, BranchTypeOK
  <2>3. run.green \in Commit /\ Ancestor(head, run.green) /\ Ancestor(run.green, head)
    BY <2>1 DEF FollowInv
  <2>4. run.green = head
    BY <2>2, <2>3, AncestorAntisymmetric
  <2> QED
    BY <2>1, <2>4 DEF FollowInv
<1> QED
  BY <1>1, TypeInvariant, FollowInvariant, PTL DEF Spec, MergeVetted

(***************************************************************************)
(* What a review passed on before it is pushed.                            *)
(***************************************************************************)

\* A review passed on the files as they are.
Covered(t) == t.state = "changes" => t.reviewed

\* In a call that asks for the review gate after a repair, the files on the way to the
\* commit were reviewed, or the gate is still to come.
ReviewInv ==
  pc = "commit" /\ cp.after =>
    /\ cp.at = "top" /\ ~cp.gate => Covered(tree)
    /\ cp.at \in {"gates", "stage"} => Covered(tree)
    /\ cp.at = "push" => head.log \in reviewed

\* A step of a call keeps its arguments.
LEMMA StepAfter ==
  ASSUME cp \in CpType,
         NEW a \in {"returned", "top", "review", "gates", "fix", "stage", "push"}, Step(a)
  PROVE  cp'.at = a /\ cp'.after = cp.after
BY DEF Step, CpType

LEMMA ReturnAt ==
  ASSUME cp \in CpType, NEW r \in Results, Return(r)
  PROVE  cp'.at = "returned"
BY DEF Return, CpType

LEMMA ExitOff == ASSUME NEW c, Exit(c) PROVE pc' = "off"
BY DEF Exit

LEMMA CallReviews ==
  ASSUME TypeInv, ReviewInv, CallStep
  PROVE  ReviewInv'
<1> USE DEF ReviewInv, At
<1>1. pc = "commit" /\ cp \in CpType /\ tree \in Tree
  BY DEF CallStep, CpStep, CpTop, CpReviewGate, CpGates, CpFixReady, CpFixFails, CpFixUseless,
         CpCommit, CpPush, TypeInv, TypeOK, BranchTypeOK
<1>2. CASE CpTop
  <2>1. CASE \E r \in Results : Return(r)
    BY <1>1, <2>1, ReturnAt
  <2>2. CASE Step(IF cp.gate THEN "review" ELSE "gates") /\ UNCHANGED <<head, tree>>
    BY <1>1, <1>2, <2>2, StepAfter DEF CpTop
  <2> QED
    BY <1>2, <2>1, <2>2 DEF CpTop, Results
<1>3. CASE CpReviewGate
  <2>1. CASE \E r \in Results : Return(r)
    BY <1>1, <2>1, ReturnAt
  <2>2. CASE Approve(tree, head) /\ Step("gates")
    <3>1. Covered(tree')
      BY <1>1, <2>2 DEF Approve, Covered, Tree
    <3> QED
      BY <1>1, <2>2, <3>1, StepAfter
  <2> QED
    BY <1>3, <2>1, <2>2 DEF CpReviewGate, Results
<1>4. CASE CpGates
  <2>1. CASE tree' = [tree EXCEPT !.gated = TRUE] /\ Step("stage") /\ UNCHANGED head
    <3>1. Covered(tree) => Covered(tree')
      BY <1>1, <2>1 DEF Covered, Tree
    <3>2. cp.at = "gates"
      BY <1>4 DEF CpGates
    <3> QED
      BY <1>1, <2>1, <3>1, <3>2, StepAfter
  <2>2. CASE \E c : Exit(c)
    BY <2>2, ExitOff
  <2>3. CASE cp' = [cp EXCEPT !.at = "fix", !.round = @ + 1]
    BY <1>1, <2>3, CallUpdates
  <2> QED
    BY <1>4, <2>1, <2>2, <2>3 DEF CpGates
<1>5. CASE CpFixReady
  <2>1. cp'.at = "top" /\ cp'.after = cp.after /\ (cp'.after => cp'.gate)
    BY <1>1, <1>5 DEF CpFixReady, CpType
  <2> QED
    BY <2>1
<1>6. CASE CpFixFails
  BY <1>6, ExitOff DEF CpFixFails
<1>7. CASE CpFixUseless
  BY <1>1, <1>7, ReturnAt DEF CpFixUseless, Results
<1>8. CASE CpCommit
  <2>1. CASE tree.state = "changes" /\ CommitChanges /\ Step("push")
    <3>1. cp.at = "stage"
      BY <1>8 DEF CpCommit
    <3>2. tree.reviewed => head'.log \in reviewed'
      BY <2>1 DEF CommitChanges
    <3> QED
      BY <1>1, <2>1, <3>1, <3>2, StepAfter DEF Covered
  <2>2. CASE \E r \in Results : Return(r)
    BY <1>1, <2>2, ReturnAt
  <2> QED
    BY <1>8, <2>1, <2>2 DEF CpCommit, Results
<1>9. CASE CpPush
  <2>1. CASE Return("committed")
    BY <1>1, <2>1, ReturnAt DEF Results
  <2>2. CASE Exit("failed")
    BY <2>2, ExitOff
  <2> QED
    BY <1>9, <2>1, <2>2 DEF CpPush
<1> QED
  BY <1>2, <1>3, <1>4, <1>5, <1>6, <1>7, <1>8, <1>9 DEF CallStep, CpStep

\* A call begins with reviewed files, with the gate to come, or without asking for it.
LEMMA MainReviews ==
  ASSUME TypeInv, ReviewInv, LoopStep \/ Start \/ Fail, ~CallStep
  PROVE  ReviewInv'
<1> USE DEF ReviewInv
<1>1. CASE ReviewRound
  <2>1. CASE Calls(Call(head, FALSE, FALSE))
    BY <2>1 DEF Calls, Call, NoCall
  <2>2. CASE /\ \E s \in TreeState, c \in {head, OnTop(head, "codex")} : Approve(Tidy(s), c)
             /\ Calls(Call(head, FALSE, TRUE))
    <3>1. Covered(tree')
      BY <2>2 DEF Approve, Covered, Tidy
    <3>2. cp'.at = "top"
      BY <2>2 DEF Calls, Call, NoCall
    <3> QED
      BY <3>1, <3>2
  <2>3. CASE CodexFails
    BY <2>3, ExitOff DEF CodexFails
  <2> QED
    BY <1>1, <2>1, <2>2, <2>3 DEF ReviewRound
<1>2. CASE CiFix
  <2>1. CASE Calls(Call(head, TRUE, TRUE))
    BY <2>1 DEF Calls, Call, NoCall
  <2>2. CASE Goto("ci")
    BY <2>2 DEF Goto
  <2>3. CASE CodexFails
    BY <2>3, ExitOff DEF CodexFails
  <2> QED
    BY <1>2, <2>1, <2>2, <2>3 DEF CiFix
<1>3. CASE ~ReviewRound /\ ~CiFix
  <2>1. pc' # "commit"
    BY <1>3 DEF LoopStep, Start, Fail, View, EnsureWorktree, SyncTo, BranchElsewhere, Rebase,
       LeasePush, ReviewExhausted, ReviewAgain, ReviewDone, Back, CiWait, GreenSeen, AfterCi,
       CiExhausted, CiCommitted, CiWaitAgain, FinalWait, Fresh, SignOff, Merge, DeleteBranch,
       Goto, Exit, AfterWorktree
  <2> QED
    BY <2>1
<1> QED
  BY <1>1, <1>2, <1>3

LEMMA ReviewNext == TypeInv /\ ReviewInv /\ [Next]_vars => ReviewInv'
<1> SUFFICES ASSUME TypeInv, ReviewInv, [Next]_vars PROVE ReviewInv'
  OBVIOUS
<1>1. CASE CallStep
  BY <1>1, CallReviews
<1>2. CASE (LoopStep \/ Start \/ Fail) /\ ~CallStep
  BY <1>2, MainReviews
<1>3. CASE EnvStep
  <2>1. UNCHANGED <<pc, cp, head, reviewed>> /\ (pc = "commit" => UNCHANGED tree)
    BY <1>3 DEF EnvStep, HumanPush, BaseMoves, PrChanges, HumanMerge, SharedFetch, LoseWorktree,
       gitVars, loopVars
  <2> QED
    BY <2>1 DEF ReviewInv
<1>4. CASE UNCHANGED vars
  BY <1>4 DEF ReviewInv, vars, gitVars, loopVars
<1> QED
  BY <1>1, <1>2, <1>3, <1>4 DEF Next

\* What a repair changed after a passed review, or in a CI round, is pushed only after a
\* review passed on it; with lost worktrees as well.
THEOREM PushesReviewed == Spec => []PushReviewed
<1>1. Init => ReviewInv
  BY DEF Init, ReviewInv
<1>2. ReviewInv => PushReviewed
  BY DEF ReviewInv, PushReviewed, At
<1> QED
  BY <1>1, <1>2, ReviewNext, TypeInvariant, PTL DEF Spec

\* A repair that takes back the edits of a passed review ends the call before the gate.
TakenBack == /\ run.phase = "review" /\ run.passed
             /\ At("top") /\ cp.gate /\ Return("no_changes")

\* In the call of a round whose review passed, what is not to be committed was reviewed
\* as it is on HEAD.
PassInv ==
  pc = "commit" /\ run.phase = "review" /\ run.passed =>
    /\ cp.after
    /\ cp.at \in {"review", "gates", "stage"} => head = cp.pre
    /\ cp.at = "top" /\ ~cp.gate /\ head = cp.pre /\ tree.state # "changes"
         => head.log \in reviewed
    /\ cp.at \in {"gates", "stage"} /\ tree.state # "changes" => head.log \in reviewed
    /\ Returned("no_changes") \/ Returned("committed") => head.log \in reviewed

LEMMA CallPasses ==
  ASSUME TypeInv, ReviewInv, PassInv, CallStep, ~TakenBack
  PROVE  PassInv'
<1> USE DEF PassInv, At, Returned
<1> SUFFICES ASSUME pc' = "commit", run'.phase = "review", run'.passed
             PROVE  PassInv'
  OBVIOUS
<1>1. pc = "commit" /\ cp \in CpType /\ tree \in Tree
  BY DEF CallStep, CpStep, CpTop, CpReviewGate, CpGates, CpFixReady, CpFixFails, CpFixUseless,
         CpCommit, CpPush, TypeInv, TypeOK, BranchTypeOK
<1>2. run' = run
  BY DEF CallStep, CpStep, CpTop, CpReviewGate, CpGates, CpFixReady, CpFixFails, CpFixUseless,
         CpCommit, CpPush, Step, Return, Exit
<1>3. run.phase = "review" /\ run.passed /\ cp.after
  BY <1>1, <1>2
<1>4. ASSUME NEW a \in {"review", "gates", "stage", "push"}, Step(a)
      PROVE  cp'.at = a /\ cp'.after /\ cp'.pre = cp.pre
  BY <1>1, <1>3, <1>4 DEF Step, CpType
<1>5. ASSUME NEW r \in Results, Return(r)
      PROVE  cp'.at = "returned" /\ cp'.after /\ cp'.result = r
  BY <1>1, <1>3, <1>5 DEF Return, CpType
<1>6. "no_changes" \in Results /\ "discarded" \in Results /\ "committed" \in Results
  BY DEF Results
<1>7. ASSUME Return("discarded") PROVE PassInv'
  BY <1>5, <1>6, <1>7
<1>8. ASSUME NEW c, Exit(c) PROVE FALSE
  BY <1>8 DEF Exit
<1>9. CASE CpTop
  <2>1. CASE Return("no_changes") /\ head = cp.pre /\ ~Dirty /\ UNCHANGED <<head, tree>>
    <3>1. ~cp.gate /\ head.log \in reviewed
      BY <1>1, <1>3, <1>9, <2>1 DEF CpTop, Dirty, TakenBack
    <3> QED
      BY <1>5, <1>6, <1>9, <2>1, <3>1 DEF CpTop
  <2>2. CASE head = cp.pre /\ Step("review") /\ UNCHANGED <<head, tree>>
    BY <1>4, <2>2
  <2>3. CASE head = cp.pre /\ ~cp.gate /\ Step("gates") /\ UNCHANGED <<head, tree>>
    BY <1>1, <1>3, <1>4, <1>9, <2>3 DEF CpTop
  <2> QED
    BY <1>7, <1>9, <2>1, <2>2, <2>3 DEF CpTop
<1>10. CASE CpReviewGate
  <2>1. CASE Approve(tree, head) /\ Step("gates") /\ UNCHANGED head
    <3>1. cp.at = "review" /\ head' = head /\ head = cp.pre
      BY <1>1, <1>3, <1>10, <2>1 DEF CpReviewGate
    <3>2. tree'.state # "changes" => head.log \in reviewed'
      BY <1>1, <2>1 DEF Approve, Tree
    <3> QED
      BY <1>4, <2>1, <3>1, <3>2
  <2> QED
    BY <1>7, <1>10, <2>1 DEF CpReviewGate
<1>11. CASE CpGates
  <2>1. CASE tree' = [tree EXCEPT !.gated = TRUE] /\ Step("stage") /\ UNCHANGED head
    <3>1. cp.at = "gates" /\ head' = head /\ reviewed' = reviewed /\ tree'.state = tree.state
      BY <1>1, <1>11, <2>1 DEF CpGates, Tree
    <3> QED
      BY <1>1, <1>3, <1>4, <2>1, <3>1
  <2>2. CASE cp' = [cp EXCEPT !.at = "fix", !.round = @ + 1]
    <3>1. cp'.at = "fix" /\ cp'.after
      BY <1>1, <1>3, <2>2 DEF CpType
    <3> QED
      BY <3>1
  <2> QED
    BY <1>8, <1>11, <2>1, <2>2 DEF CpGates
<1>12. CASE CpFixReady
  <2>1. cp'.at = "top" /\ cp'.after /\ cp'.gate
    BY <1>1, <1>3, <1>12 DEF CpFixReady, CpType
  <2> QED
    BY <2>1
<1>13. CASE CpFixFails \/ CpFixUseless
  BY <1>7, <1>8, <1>13 DEF CpFixFails, CpFixUseless
<1>14. CASE CpCommit
  <2>1. CASE Step("push")
    BY <1>4, <2>1
  <2>2. CASE ResetTo(cp.pre) /\ Return("no_changes") /\ tree.state = "artifacts" /\ UNCHANGED reviewed
    <3>1. head' = head /\ head.log \in reviewed
      BY <1>1, <1>3, <1>14, <2>2 DEF CpCommit, ResetTo
    <3> QED
      BY <1>5, <1>6, <2>2, <3>1
  <2> QED
    BY <1>14, <2>1, <2>2 DEF CpCommit
<1>15. CASE CpPush
  <2>1. head.log \in reviewed /\ UNCHANGED <<head, reviewed>>
    BY <1>1, <1>3, <1>15 DEF CpPush, ReviewInv
  <2> QED
    BY <1>5, <1>6, <1>8, <1>15, <2>1 DEF CpPush
<1> QED
  BY <1>9, <1>10, <1>11, <1>12, <1>13, <1>14, <1>15 DEF CallStep, CpStep

LEMMA MainPasses ==
  ASSUME TypeInv, PassInv, LoopStep \/ Start \/ Fail, ~CallStep
  PROVE  PassInv'
<1> USE DEF PassInv, At, Returned
<1>1. CASE ReviewRound
  <2>1. run \in RunType /\ head \in Commit /\ "codex" \in Patch
    BY <1>1 DEF ReviewRound, TypeInv, TypeOK, BranchTypeOK, Patch
  <2>2. CASE Calls(Call(head, FALSE, FALSE)) /\ NextRound(FALSE)
    BY <2>1, <2>2 DEF NextRound, RunType
  <2>3. CASE /\ \E s \in TreeState, c \in {head, OnTop(head, "codex")} :
                 head' = c /\ Approve(Tidy(s), c)
             /\ Calls(Call(head, FALSE, TRUE))
    <3>1. tree'.state # "changes" => head'.log \in reviewed'
      BY <2>3 DEF Approve, Tidy
    <3>2. cp'.at = "top" /\ cp'.after
      BY <2>3 DEF Calls, Call, NoCall
    <3> QED
      BY <3>1, <3>2
  <2>4. CASE CodexFails
    BY <2>4, ExitOff DEF CodexFails
  <2> QED
    BY <1>1, <2>2, <2>3, <2>4 DEF ReviewRound
<1>2. CASE CiFix
  <2>1. CASE Calls(Call(head, TRUE, TRUE))
    <3>1. cp'.at = "top" /\ cp'.after /\ cp'.gate
      BY <2>1 DEF Calls, Call, NoCall
    <3> QED
      BY <3>1
  <2>2. CASE Goto("ci")
    BY <2>2 DEF Goto
  <2>3. CASE CodexFails
    BY <2>3, ExitOff DEF CodexFails
  <2> QED
    BY <1>2, <2>1, <2>2, <2>3 DEF CiFix
<1>3. CASE ~ReviewRound /\ ~CiFix
  <2>1. pc' # "commit"
    BY <1>3 DEF LoopStep, Start, Fail, View, EnsureWorktree, SyncTo, BranchElsewhere, Rebase,
       LeasePush, ReviewExhausted, ReviewAgain, ReviewDone, Back, CiWait, GreenSeen, AfterCi,
       CiExhausted, CiCommitted, CiWaitAgain, FinalWait, Fresh, SignOff, Merge, DeleteBranch,
       Goto, Exit, AfterWorktree
  <2> QED
    BY <2>1
<1> QED
  BY <1>1, <1>2, <1>3

LEMMA PassNext ==
  TypeInv /\ ReviewInv /\ PassInv /\ [Next]_vars /\ [~TakenBack]_vars => PassInv'
<1> SUFFICES ASSUME TypeInv, ReviewInv, PassInv, [Next]_vars, [~TakenBack]_vars PROVE PassInv'
  OBVIOUS
<1>1. CASE UNCHANGED vars
  BY <1>1 DEF PassInv, Returned, At, vars, gitVars, loopVars
<1>2. CASE CallStep /\ ~TakenBack
  BY <1>2, CallPasses
<1>3. CASE (LoopStep \/ Start \/ Fail) /\ ~CallStep
  BY <1>3, MainPasses
<1>4. CASE EnvStep
  <2>1. UNCHANGED <<pc, cp, run, head, reviewed>> /\ (pc = "commit" => UNCHANGED tree)
    BY <1>4 DEF EnvStep, HumanPush, BaseMoves, PrChanges, HumanMerge, SharedFetch, LoseWorktree,
       gitVars, loopVars
  <2> QED
    BY <2>1 DEF PassInv, Returned, At
<1> QED
  BY <1>1, <1>2, <1>3, <1>4 DEF Next

\* The review phase ends on a HEAD that a review passed, unless a repair took back the edits
\* of the review that passed: that is the only way around it.
THEOREM PhaseReviewedUnlessTakenBack ==
  Spec /\ [][~TakenBack]_vars => ReviewPhaseReviewed
<1> DEFINE Ok == run.phase = "review" /\ run'.phase = "ci" => head.log \in reviewed
<1>1. TypeInv /\ PassInv /\ [Next]_vars => [Ok]_vars
  <2> SUFFICES ASSUME TypeInv, PassInv, Next, run.phase = "review", run'.phase = "ci"
               PROVE  head.log \in reviewed
    OBVIOUS
  <2>1. run \in RunType
    BY DEF TypeInv, TypeOK
  <2>2. run' # run /\ \A c : ~Exit(c)
    BY DEF Exit, NoRun
  <2>3. CASE ReviewDone
    BY <2>3 DEF ReviewDone, PassInv, Returned, At
  <2>4. CASE Start
    <3>1. PICK noRebase, noMerge \in BOOLEAN :
            run' = [NoRun EXCEPT !.skipRebase = noRebase, !.skipMerge = noMerge]
      BY <2>4, Zenon DEF Start
    <3> QED
      BY <3>1 DEF NoRun
  <2>5. CASE Fail \/ EnvStep
    BY <2>2, <2>5 DEF Fail, EnvStep, HumanPush, BaseMoves, PrChanges, HumanMerge,
       SharedFetch, LoseWorktree, loopVars
  <2>6. CASE CallStep
    BY <2>2, <2>6 DEF CallStep, CpStep, CpTop, CpReviewGate, CpGates, CpFixReady, CpFixFails,
       CpFixUseless, CpCommit, CpPush, Step, Return
  <2>7. CASE LoopStep /\ ~CallStep /\ ~ReviewDone
    <3>1. \A l : ~Goto(l)
      BY <2>2 DEF Goto
    <3>2. \A l : ~GreenSeen(l)
      BY <2>1 DEF GreenSeen, RunType
    <3>3. ~NextRound(TRUE) /\ ~NextRound(FALSE)
      BY <2>1 DEF NextRound, RunType
    <3>4. ~ReviewRound /\ ~CiFix
      BY <2>2, <3>1, <3>3 DEF ReviewRound, CiFix, CodexFails
    <3>5. ~ReviewAgain /\ ~CiWait /\ ~CiCommitted /\ ~CiWaitAgain
      BY <2>1, <2>2, <3>1, <3>2 DEF ReviewAgain, CiWait, CiCommitted, CiWaitAgain, RunType
    <3>6. ~EnsureWorktree
      BY <2>2, <3>1 DEF EnsureWorktree, SyncTo, AfterWorktree
    <3>7. ~(View \/ BranchElsewhere \/ Rebase \/ LeasePush \/ ReviewExhausted \/ CiExhausted)
      BY <2>2, <3>1 DEF View, BranchElsewhere, Rebase, LeasePush, ReviewExhausted, CiExhausted
    <3>8. ~(FinalWait \/ Fresh \/ SignOff \/ Merge \/ DeleteBranch)
      BY <2>2, <3>1, <3>2 DEF FinalWait, Fresh, SignOff, Merge, DeleteBranch
    <3> QED
      BY <2>7, <3>4, <3>5, <3>6, <3>7, <3>8 DEF LoopStep
  <2> QED
    BY <2>3, <2>4, <2>5, <2>6, <2>7 DEF Next
<1>2. Init => ReviewInv /\ PassInv
  BY DEF Init, ReviewInv, PassInv
<1> QED
  BY <1>1, <1>2, TypeInvariant, ReviewNext, PassNext, PTL DEF Spec, ReviewPhaseReviewed

(***************************************************************************)
(* What a process leaves to the next one.                                  *)
(***************************************************************************)
RestartInv ==
  pc = "off" /\ code \in {"0", "65"} =>
    head \in Commit /\ (remote # NoCommit => Ancestor(head, remote))

\* Only three places end a process with these codes, and each between rounds.
LEMMA EndsSettled ==
  ASSUME TypeInv, LoopStep \/ Start \/ Fail, pc' = "off", code' \in {"0", "65"}
  PROVE  pc \in Following /\ UNCHANGED head /\ remote' \in {remote, NoCommit}
<1> USE DEF Exit, Goto, Following, Settled, gitVars
<1>1. CASE Rebase \/ Fresh \/ DeleteBranch
  BY <1>1 DEF Rebase, Fresh, DeleteBranch
<1>2. CASE CallStep
  <2>1. pc = "commit"
    BY <1>2 DEF CallStep, CpStep, CpTop, CpReviewGate, CpGates, CpFixReady, CpFixFails,
       CpFixUseless, CpCommit, CpPush, At
  <2>2. \A a : ~Step(a) /\ ~Return(a)
    BY <2>1 DEF Step, Return
  <2> QED
    BY <1>2, <2>1, <2>2 DEF CallStep, CpStep, CpTop, CpReviewGate, CpGates, CpFixReady,
       CpFixFails, CpFixUseless, CpCommit, CpPush
<1>3. CASE ReviewRound \/ CiFix
  BY <1>3 DEF ReviewRound, CiFix, CodexFails, Calls
<1>4. CASE EnsureWorktree
  BY <1>4 DEF EnsureWorktree, SyncTo, AfterWorktree
<1>5. CASE /\ ~(Rebase \/ Fresh \/ DeleteBranch \/ CallStep \/ ReviewRound \/ CiFix)
           /\ ~EnsureWorktree
  BY <1>5 DEF LoopStep, Start, Fail, View, BranchElsewhere, LeasePush, ReviewExhausted,
     ReviewAgain, ReviewDone, Back, CiWait, GreenSeen, AfterCi, CiExhausted, CiCommitted,
     CiWaitAgain, FinalWait, SignOff, Merge
<1> QED
  BY <1>1, <1>2, <1>3, <1>4, <1>5

LEMMA RestartNext ==
  TypeInv /\ FollowInv /\ RestartInv /\ [Next]_vars => RestartInv'
<1> SUFFICES ASSUME TypeInv, FollowInv, RestartInv, [Next]_vars,
                    pc' = "off", code' \in {"0", "65"}
             PROVE  head' \in Commit /\ (remote' # NoCommit => Ancestor(head', remote'))
  BY DEF RestartInv
<1>1. CASE LoopStep \/ Start \/ Fail
  <2>1. pc \in Following /\ UNCHANGED head /\ remote' \in {remote, NoCommit}
    BY <1>1, EndsSettled
  <2>2. head \in Commit
    BY <2>1 DEF Following, Settled, TypeInv, TypeOK, BranchTypeOK
  <2> QED
    BY <2>1, <2>2 DEF FollowInv
<1>2. CASE EnvStep
  <2>1. UNCHANGED <<pc, code, head>>
    BY <1>2 DEF EnvStep, HumanPush, BaseMoves, PrChanges, HumanMerge, SharedFetch, LoseWorktree,
       gitVars, loopVars
  <2>2. head \in Commit
    BY <2>1 DEF RestartInv
  <2>3. CASE remote' # NoCommit
    <3>1. remote \in Commit /\ remote # NoCommit /\ remote' \in Commit /\ Ancestor(remote, remote')
      BY <1>2, <2>3, EnvGrows
    <3>2. Ancestor(head, remote)
      BY <2>1, <3>1 DEF RestartInv
    <3> QED
      BY <2>1, <2>2, <3>1, <3>2, AncestorTransitive
  <2> QED
    BY <2>1, <2>2, <2>3
<1>3. CASE UNCHANGED vars
  BY <1>3 DEF RestartInv, vars, gitVars, loopVars
<1> QED
  BY <1>1, <1>2, <1>3 DEF Next

\* A process that ends well or on a rebase conflict leaves a local branch the next one can
\* sync, whatever people push since, unless it worked on a checkout that was not in sync.
THEOREM LeftRestartable == Spec /\ [][CheckoutSynced]_vars => []RestartableWorktree
<1>1. Init => RestartInv
  BY DEF Init, RestartInv
<1>2. RestartInv => RestartableWorktree
  BY DEF RestartInv, RestartableWorktree
<1> QED
  BY <1>1, <1>2, RestartNext, TypeInvariant, FollowInvariant, PTL DEF Spec

(***************************************************************************)
(* Progress: each step of a process makes Before smaller, in the first      *)
(* component that it changes.                                              *)
(***************************************************************************)

\* With a cap of 0, which is no cap, a process may go on for ever.
CapsSet == MaxReviewRounds > 0 /\ MaxCiRounds > 0 /\ MaxLocalRounds > 0

RoundsLeft == Left(run.round, IF run.phase = "ci" THEN MaxCiRounds ELSE MaxReviewRounds)
RepairsLeft == Left(cp.round, MaxLocalRounds)

LEMMA BeforeIs ==
  /\ Before = <<Phase, RoundsLeft, InRound, RepairsLeft, InCall>>
  /\ Before' = <<Phase', RoundsLeft', InRound', RepairsLeft', InCall'>>
BY DEF Before, RoundsLeft, RepairsLeft

LEMMA FirstSmaller ==
  ASSUME NEW a1, NEW a2, NEW a3, NEW a4, NEW a5, NEW b1, NEW b2, NEW b3, NEW b4, NEW b5,
         \/ a1 < b1
         \/ a1 = b1 /\ a2 < b2
         \/ a1 = b1 /\ a2 = b2 /\ a3 < b3
         \/ a1 = b1 /\ a2 = b2 /\ a3 = b3 /\ a4 < b4
         \/ a1 = b1 /\ a2 = b2 /\ a3 = b3 /\ a4 = b4 /\ a5 < b5
  PROVE  Less(<<a1, a2, a3, a4, a5>>, <<b1, b2, b3, b4, b5>>)
<1> DEFINE a == <<a1, a2, a3, a4, a5>>
           b == <<b1, b2, b3, b4, b5>>
<1>1. /\ a[1] = a1 /\ a[2] = a2 /\ a[3] = a3 /\ a[4] = a4 /\ a[5] = a5
      /\ b[1] = b1 /\ b[2] = b2 /\ b[3] = b3 /\ b[4] = b4 /\ b[5] = b5
  OBVIOUS
<1>2. \E k \in 1..5 : a[k] < b[k] /\ \A j \in 1..k - 1 : a[j] = b[j]
  <2> HIDE DEF a, b
  <2>1. ASSUME NEW k \in 1..5, a[k] < b[k], \A j \in 1..k - 1 : a[j] = b[j]
        PROVE  \E i \in 1..5 : a[i] < b[i] /\ \A j \in 1..i - 1 : a[j] = b[j]
    BY <2>1
  <2>2. CASE a1 < b1
    BY <1>1, <2>1, <2>2
  <2>3. CASE a1 = b1 /\ a2 < b2
    BY <1>1, <2>1, <2>3
  <2>4. CASE a1 = b1 /\ a2 = b2 /\ a3 < b3
    BY <1>1, <2>1, <2>4
  <2>5. CASE a1 = b1 /\ a2 = b2 /\ a3 = b3 /\ a4 < b4
    BY <1>1, <2>1, <2>5
  <2>6. CASE a1 = b1 /\ a2 = b2 /\ a3 = b3 /\ a4 = b4 /\ a5 < b5
    BY <1>1, <2>1, <2>6
  <2> QED
    BY <2>2, <2>3, <2>4, <2>5, <2>6
<1> QED
  BY <1>2 DEF Less

\* Only where no process runs is nothing left.
LEMMA PhaseOf == pc \in PcLabels /\ pc # "off" => Phase > 0
<1> SUFFICES ASSUME pc \in PcLabels, pc # "off" PROVE Phase > 0
  OBVIOUS
<1>1. CASE pc \in {"view", "worktree"}
  BY <1>1 DEF Phase
<1>2. CASE pc \in {"rebase", "lease"}
  BY <1>2 DEF Phase
<1>3. CASE pc \in {"review", "commit", "ci", "cifix", "ciwait"}
  BY <1>3 DEF Phase
<1>4. CASE pc \in {"finalwait", "fresh"}
  BY <1>4 DEF Phase
<1>5. CASE pc \in {"signoff", "merge", "delete"}
  BY <1>5 DEF Phase
<1> QED
  BY <1>1, <1>2, <1>3, <1>4, <1>5 DEF PcLabels

LEMMA LaterPhase == ASSUME Phase' < Phase PROVE Less(Before', Before)
BY BeforeIs, FirstSmaller

LEMMA Ends ==
  ASSUME TypeOK, pc # "off", NEW c, Exit(c) PROVE Less(Before', Before)
<1>1. Phase > 0
  BY PhaseOf DEF TypeOK
<1>2. Phase' = 0
  BY DEF Exit, Phase
<1> QED
  BY <1>1, <1>2, LaterPhase

\* A round that is counted is one less to come.
LEMMA Counted ==
  ASSUME NEW n \in Nat, NEW max \in Nat, max > 0, ~Capped(n, max)
  PROVE  Left(n + 1, max) < Left(n, max)
BY DEF Capped, Left

\* A step within a call.
LEMMA NearerInCall ==
  ASSUME pc = "commit", pc' = "commit", UNCHANGED run,
         RepairsLeft' < RepairsLeft \/ (RepairsLeft' = RepairsLeft /\ InCall' < InCall)
  PROVE  Less(Before', Before)
<1>1. Phase' = Phase /\ RoundsLeft' = RoundsLeft /\ InRound' = InRound
  BY DEF Phase, RoundsLeft, InRound
<1> QED
  BY <1>1, BeforeIs, FirstSmaller

LEMMA CallProgress ==
  ASSUME CapsSet, TypeOK, CpStep PROVE Less(Before', Before)
<1> USE DEF At
<1>1. cp \in CpType /\ pc = "commit" /\ MaxLocalRounds \in Nat /\ MaxLocalRounds > 0 /\ cp.round \in Nat
  BY LocalRoundsNat DEF CapsSet, TypeOK, CpStep, CpTop, CpReviewGate, CpGates, CpFixReady,
     CpFixFails, CpFixUseless, CpCommit, CpPush, CpType
<1>2. ASSUME NEW at, Step(at), cp.at \in {"top", "review", "gates", "stage"},
             at \in {"review", "gates", "stage", "push"},
             cp.at # "top" => at # "review", cp.at \in {"gates", "stage"} => at # "gates",
             cp.at = "review" => at = "gates", cp.at = "stage" => at = "push"
      PROVE  Less(Before', Before)
  <2>1. cp' = [cp EXCEPT !.at = at] /\ pc' = "commit" /\ run' = run
    BY <1>1, <1>2 DEF Step
  <2>2. cp'.at = at /\ cp'.round = cp.round
    BY <1>1, <2>1 DEF CpType
  <2>3. RepairsLeft' = RepairsLeft /\ InCall' < InCall
    BY <1>2, <2>2 DEF RepairsLeft, InCall
  <2> QED
    BY <1>1, <2>1, <2>3, NearerInCall
<1>3. ASSUME NEW result, Return(result), cp.at # "returned" PROVE Less(Before', Before)
  <2>1. cp'.at = "returned" /\ cp'.round = cp.round /\ pc' = "commit" /\ run' = run
    BY <1>1, <1>3 DEF Return, CpType
  <2>2. RepairsLeft' = RepairsLeft /\ InCall' < InCall
    BY <1>1, <1>3, <2>1 DEF RepairsLeft, InCall, CpType
  <2> QED
    BY <1>1, <2>1, <2>2, NearerInCall
<1>4. ASSUME NEW c, Exit(c) PROVE Less(Before', Before)
  BY <1>1, <1>4, Ends
<1>5. CASE CpTop
  BY <1>2, <1>3, <1>5 DEF CpTop
<1>6. CASE CpReviewGate
  BY <1>2, <1>3, <1>6 DEF CpReviewGate
<1>7. CASE CpGates
  <2>1. CASE Step("stage") \/ Exit("failed")
    BY <1>2, <1>4, <1>7, <2>1 DEF CpGates
  <2>2. CASE /\ ~Capped(cp.round, MaxLocalRounds)
             /\ cp' = [cp EXCEPT !.at = "fix", !.round = @ + 1]
             /\ UNCHANGED <<pc, run>>
    <3>1. cp'.round = cp.round + 1
      BY <1>1, <2>2 DEF CpType
    <3>2. RepairsLeft' < RepairsLeft
      BY <1>1, <2>2, <3>1, Counted DEF RepairsLeft
    <3> QED
      BY <1>1, <2>2, <3>2, NearerInCall
  <2> QED
    BY <1>7, <2>1, <2>2 DEF CpGates
<1>8. CASE CpFixReady
  <2>1. cp.at = "fix" /\ cp'.at = "top" /\ cp'.round = cp.round /\ UNCHANGED <<pc, run>>
    BY <1>1, <1>8 DEF CpFixReady, CpType
  <2>2. RepairsLeft' = RepairsLeft /\ InCall' < InCall
    BY <2>1 DEF RepairsLeft, InCall
  <2> QED
    BY <1>1, <2>1, <2>2, NearerInCall
<1>9. CASE CpFixFails
  BY <1>4, <1>9 DEF CpFixFails
<1>10. CASE CpFixUseless
  BY <1>3, <1>10 DEF CpFixUseless
<1>11. CASE CpCommit
  BY <1>2, <1>3, <1>11 DEF CpCommit
<1>12. CASE CpPush
  BY <1>3, <1>4, <1>12 DEF CpPush
<1> QED
  BY <1>5, <1>6, <1>7, <1>8, <1>9, <1>10, <1>11, <1>12 DEF CpStep

\* A step within the review or the CI loop.
LEMMA NearerInLoop ==
  ASSUME pc \in {"review", "commit", "ci", "cifix", "ciwait"},
         pc' \in {"review", "commit", "ci", "cifix", "ciwait"}, run'.phase = run.phase,
         RoundsLeft' < RoundsLeft \/ (RoundsLeft' = RoundsLeft /\ InRound' < InRound)
  PROVE  Less(Before', Before)
<1>1. Phase' = Phase
  BY DEF Phase
<1> QED
  BY <1>1, BeforeIs, FirstSmaller

\* main() waits and reviews in the loop whose rounds it counts.
PhaseInv == /\ pc \in {"view", "worktree", "review"} => run.phase = "review"
            /\ pc \in {"ci", "cifix", "ciwait"} => run.phase = "ci"

LEMMA PhaseNext == TypeInv /\ PhaseInv /\ [Next]_vars => PhaseInv'
<1> SUFFICES ASSUME TypeInv, PhaseInv, [Next]_vars PROVE PhaseInv'
  OBVIOUS
<1>1. run \in RunType
  BY DEF TypeInv, TypeOK
<1>2. CASE pc' \in {"off", "commit"}
  BY <1>2 DEF PhaseInv
<1>3. CASE Start
  BY <1>3 DEF Start, NoRun, PhaseInv
<1>4. CASE UNCHANGED loopVars
  BY <1>4 DEF PhaseInv, loopVars
<1>5. CASE View \/ EnsureWorktree \/ Rebase \/ LeasePush
  BY <1>1, <1>2, <1>5 DEF View, EnsureWorktree, SyncTo, AfterWorktree, Rebase, LeasePush, Goto, Exit,
     PhaseInv, RunType
<1>6. CASE ReviewRound \/ CiFix
  BY <1>1, <1>2, <1>6 DEF ReviewRound, CiFix, CodexFails, Calls, Goto, Exit, PhaseInv
<1>7. CASE ReviewAgain \/ ReviewDone \/ CiCommitted
  BY <1>1, <1>7 DEF ReviewAgain, ReviewDone, CiCommitted, Back, PhaseInv, RunType
<1>8. CASE CiWait \/ CiWaitAgain \/ FinalWait
  BY <1>1, <1>2, <1>8 DEF CiWait, CiWaitAgain, FinalWait, GreenSeen, AfterCi, Goto, Exit, PhaseInv, RunType
<1>9. CASE Fresh \/ SignOff \/ Merge
  BY <1>2, <1>9 DEF Fresh, SignOff, Merge, Goto, Exit, PhaseInv
<1>10. CASE BranchElsewhere \/ ReviewExhausted \/ CiExhausted \/ DeleteBranch \/ Fail
  BY <1>2, <1>10 DEF BranchElsewhere, ReviewExhausted, CiExhausted, DeleteBranch, Fail, Exit
<1>11. CASE CallStep
  <2>1. pc' \in {"off", "commit"}
    BY <1>11 DEF CallStep, CpStep, CpTop, CpReviewGate, CpGates, CpFixReady, CpFixFails, CpFixUseless,
       CpCommit, CpPush, At, Step, Return, Exit
  <2> QED
    BY <1>2, <2>1
<1>12. CASE EnvStep \/ UNCHANGED vars
  BY <1>4, <1>12 DEF EnvStep, HumanPush, BaseMoves, PrChanges, HumanMerge, SharedFetch, LoseWorktree,
     vars, loopVars
<1> QED
  BY <1>3, <1>5, <1>6, <1>7, <1>8, <1>9, <1>10, <1>11, <1>12 DEF Next, LoopStep

LEMMA PhaseInvariant == Spec => []PhaseInv
<1>1. Init => PhaseInv
  BY DEF Init, PhaseInv
<1> QED
  BY <1>1, PhaseNext, TypeInvariant, PTL DEF Spec

LEMMA LoopProgress ==
  ASSUME CapsSet, TypeOK, PhaseInv, LoopStep, ~CallStep PROVE Less(Before', Before)
<1>1. run \in RunType /\ run.round \in Nat /\ run.phase \in {"review", "ci"} /\ pc \in PcLabels
  BY DEF TypeOK, RunType
<1>2. MaxReviewRounds \in Nat /\ MaxReviewRounds > 0 /\ MaxCiRounds \in Nat /\ MaxCiRounds > 0
  BY RoundCapsNat DEF CapsSet
<1>3. ASSUME NEW c, Exit(c), pc # "off" PROVE Less(Before', Before)
  BY <1>3, Ends
<1>4. CASE View \/ BranchElsewhere \/ Rebase \/ LeasePush \/ Fresh \/ SignOff \/ Merge \/ DeleteBranch
           \/ FinalWait \/ ReviewExhausted \/ CiExhausted
  <2>1. CASE \E c : Exit(c)
    BY <1>3, <1>4, <2>1 DEF View, BranchElsewhere, Rebase, LeasePush, Fresh, SignOff, Merge, DeleteBranch,
       FinalWait, ReviewExhausted, CiExhausted
  <2>2. CASE ~\E c : Exit(c)
    <3>1. /\ \/ pc = "view" /\ pc' = "worktree"
             \/ pc = "rebase" /\ pc' = "lease"
             \/ pc = "lease" /\ pc' = IF run.phase = "review" THEN "review" ELSE "finalwait"
             \/ pc = "finalwait" /\ pc' = "fresh"
             \/ pc = "fresh" /\ pc' = "signoff"
             \/ pc = "signoff" /\ pc' = "merge"
             \/ pc = "merge" /\ pc' = "delete"
          /\ run'.phase = run.phase
      BY <1>1, <1>4, <2>2 DEF View, BranchElsewhere, Rebase, LeasePush, Fresh, SignOff, Merge, DeleteBranch,
         FinalWait, ReviewExhausted, CiExhausted, Goto, GreenSeen, RunType
    <3>2. Phase' < Phase
      BY <1>1, <3>1 DEF Phase
    <3> QED
      BY <3>2, LaterPhase
  <2> QED
    BY <2>1, <2>2
<1>5. CASE EnsureWorktree
  <2>1. CASE Exit("failed")
    BY <1>3, <1>5, <2>1 DEF EnsureWorktree
  <2>2. CASE AfterWorktree
    <3>1. pc = "worktree" /\ pc' \in {"review", "rebase"}
      BY <1>5, <2>2 DEF EnsureWorktree, AfterWorktree, Goto
    <3>2. Phase' < Phase
      BY <3>1 DEF Phase
    <3> QED
      BY <3>2, LaterPhase
  <2> QED
    BY <1>5, <2>1, <2>2 DEF EnsureWorktree, SyncTo
<1>6. CASE ReviewRound
  <2>1. CASE CodexFails
    BY <1>3, <1>6, <2>1 DEF ReviewRound, CodexFails
  <2>2. CASE \E passed \in BOOLEAN : NextRound(passed) /\ pc' = "commit"
    <3>1. /\ pc = "review" /\ ~Capped(run.round, MaxReviewRounds)
          /\ run'.round = run.round + 1 /\ run'.phase = run.phase /\ run.phase = "review"
      BY <1>1, <1>6, <2>2 DEF ReviewRound, NextRound, PhaseInv, RunType
    <3>2. RoundsLeft' < RoundsLeft
      BY <1>1, <1>2, <3>1, Counted DEF RoundsLeft
    <3> QED
      BY <2>2, <3>1, <3>2, NearerInLoop
  <2> QED
    BY <1>6, <2>1, <2>2 DEF ReviewRound, Calls
<1>7. CASE ReviewAgain
  <2>1. /\ pc = "commit" /\ pc' = "review"
        /\ run'.phase = run.phase /\ run'.round = run.round
    BY <1>1, <1>7 DEF ReviewAgain, Returned, At, Back, RunType
  <2>2. RoundsLeft' = RoundsLeft /\ InRound' < InRound
    BY <2>1 DEF RoundsLeft, InRound
  <2> QED
    BY <2>1, <2>2, NearerInLoop
<1>8. CASE ReviewDone
  <2>1. pc = "commit" /\ pc' = "ci" /\ run.phase = "review" /\ run'.phase = "ci"
    BY <1>1, <1>8 DEF ReviewDone, Returned, At, Back, RunType
  <2>2. Phase' < Phase
    BY <2>1 DEF Phase
  <2> QED
    BY <2>2, LaterPhase
<1>9. ASSUME pc \in {"ci", "ciwait"}, GreenSeen(AfterCi) PROVE Less(Before', Before)
  <2>1. run.phase = "ci" /\ run'.phase = "ci" /\ pc' \in {"rebase", "fresh"}
    BY <1>1, <1>9 DEF GreenSeen, AfterCi, PhaseInv, RunType
  <2>2. Phase' < Phase
    BY <1>9, <2>1 DEF Phase
  <2> QED
    BY <2>2, LaterPhase
<1>10. CASE CiWait
  <2>1. CASE pc' = "cifix" /\ run' = [run EXCEPT !.round = @ + 1]
    <3>1. /\ pc = "ci" /\ ~Capped(run.round, MaxCiRounds) /\ run.phase = "ci"
          /\ run'.round = run.round + 1 /\ run'.phase = "ci"
      BY <1>1, <1>10, <2>1 DEF CiWait, PhaseInv, RunType
    <3>2. RoundsLeft' < RoundsLeft
      BY <1>1, <1>2, <3>1, Counted DEF RoundsLeft
    <3> QED
      BY <2>1, <3>1, <3>2, NearerInLoop
  <2> QED
    BY <1>9, <1>10, <2>1 DEF CiWait
<1>11. ASSUME pc \in {"cifix", "commit", "ciwait"}, run' = run,
              \/ pc' = "ci"
              \/ pc = "cifix" /\ pc' = "commit"
              \/ pc = "commit" /\ pc' = "ciwait"
       PROVE  Less(Before', Before)
  <2>1. RoundsLeft' = RoundsLeft /\ InRound' < InRound
    BY <1>11 DEF RoundsLeft, InRound
  <2> QED
    BY <1>11, <2>1, NearerInLoop
<1>12. CASE CiFix
  <2>1. CASE CodexFails
    BY <1>3, <1>12, <2>1 DEF CiFix, CodexFails
  <2>2. CASE Calls(Call(head, TRUE, TRUE)) /\ UNCHANGED run
    BY <1>11, <1>12, <2>2 DEF CiFix, Calls
  <2>3. CASE Goto("ci")
    BY <1>11, <1>12, <2>3 DEF CiFix, Goto
  <2> QED
    BY <1>12, <2>1, <2>2, <2>3 DEF CiFix
<1>13. CASE CiCommitted
  BY <1>11, <1>13 DEF CiCommitted, Returned, At, Back
<1>14. CASE CiWaitAgain
  BY <1>9, <1>11, <1>14 DEF CiWaitAgain, Goto
<1> QED
  BY <1>4, <1>5, <1>6, <1>7, <1>8, <1>10, <1>12, <1>13, <1>14 DEF LoopStep

LEMMA EnvWaits == ASSUME EnvStep PROVE Before' = Before
<1>1. UNCHANGED loopVars
  BY DEF EnvStep, HumanPush, BaseMoves, PrChanges, HumanMerge, SharedFetch, LoseWorktree
<1>2. pc' = pc /\ run' = run /\ cp' = cp
  BY <1>1 DEF loopVars
<1>3. Phase' = Phase
  BY <1>2 DEF Phase
<1>4. RoundsLeft' = RoundsLeft /\ InRound' = InRound
  BY <1>2 DEF RoundsLeft, InRound
<1>5. RepairsLeft' = RepairsLeft /\ InCall' = InCall
  BY <1>2 DEF RepairsLeft, InCall
<1> QED
  BY <1>3, <1>4, <1>5, BeforeIs

\* With the three caps set, each step of a process leaves it less to do, whatever Codex,
\* GitHub and people do; so no process takes infinitely many, whatever the caps are.
THEOREM ProgressMade ==
  ASSUME CapsSet
  PROVE  Spec => Progress
<1>1. TypeInv /\ PhaseInv /\ [Next]_vars
        => [/\ LoopStep \/ Fail => Less(Before', Before)
            /\ EnvStep => Before' = Before]_vars
  <2>1. ASSUME TypeInv, PhaseInv, LoopStep PROVE Less(Before', Before)
    BY <2>1, CallProgress, LoopProgress DEF TypeInv, CallStep
  <2>2. ASSUME TypeInv, Fail PROVE Less(Before', Before)
    BY <2>2, Ends DEF TypeInv, Fail
  <2> QED
    BY <2>1, <2>2, EnvWaits
<1> QED
  BY <1>1, TypeInvariant, PhaseInvariant, PTL DEF Spec, Progress
===============================================================================
