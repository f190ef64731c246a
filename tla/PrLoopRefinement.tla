--------------------------- MODULE PrLoopRefinement ---------------------------
(***************************************************************************)
(* PrLoop implements GatedBranch, for any caps and any number of starts,    *)
(* but for two steps: a fetch of somebody else's into the shared clone     *)
(* while the loop works (it moves the lease of a rebase), and the checkout *)
(* of a branch whose directory was lost and that nobody synced.            *)
(***************************************************************************)
EXTENDS PrLoopProofs

\* Nobody else fetches the branch while the loop works in its worktree.
QuietFetch == SharedFetch => pc \in {"off", "view"}

\* No patch that t knows of is missing from c, counting patches.
Behind(t, c) == t # NoCommit => Len(t.log) <= Len(c.log)

\* What is in c is in d, whatever they are based on.
Within(c, d) == /\ Len(c.log) <= Len(d.log)
                /\ \A i \in 1..Len(c.log) : c.log[i] = d.log[i]

\* A commit that may be pushed over what the tracking ref says, or over nothing.
Fits(c) == Behind(tracking, c) /\ (remote = NoCommit => Within(c, merged))

\* The tracking ref never knows of more than HEAD when HEAD is rebased, so a lease
\* that holds proves that GitHub has nothing HEAD has not; and if the branch is gone, HEAD
\* has nothing that was not merged.
LeaseInv ==
  /\ remote # NoCommit => Behind(tracking, remote)
  /\ pc \in Settled => Fits(head)
  /\ At("returned") => Fits(head)
  /\ pc = "commit" /\ cp.result # "committed" => Fits(cp.pre)
  /\ pc = "commit" /\ cp.at # "returned" => cp.result # "committed"
  /\ pc = "worktree" /\ merged # NoCommit => Behind(tracking, merged)
  /\ pc = "lease" /\ remote # NoCommit => Within(head, remote)

LEMMA LogLength ==
  ASSUME NEW c \in Commit
  PROVE  Len(c.log) \in Nat
BY DEF Commit, Log

LEMMA LeaseInit == Init => LeaseInv
BY DEF Init, LeaseInv, Fits, Behind, Settled, At

LEMMA CallLeases ==
  ASSUME TypeInv, TypeInv', VetInv, FollowInv, LeaseInv, CallStep
  PROVE  LeaseInv'
<1> USE DEF LeaseInv, Settled, At, restVars
<1>0. merged' = merged
  BY DEF CallStep
<1>1. /\ pc = "commit" /\ head \in Commit /\ head # NoCommit
      /\ cp.pre \in Commit /\ cp.pre # NoCommit /\ cp \in CpType
  BY DEF CallStep, CpStep, CpTop, CpReviewGate, CpGates, CpFixReady, CpFixFails, CpFixUseless,
         CpCommit, CpPush, TypeInv, TypeOK, BranchTypeOK, CpType
<1>2. \A c : Exit(c) => pc' = "off"
  BY DEF Exit
<1>3. \A r : r \in {"no_changes", "discarded", "committed"} => r \in Results
  BY DEF Results
<1>4. ASSUME NEW a \in {"review", "gates", "stage", "push"}, Step(a), cp.at # "returned",
             UNCHANGED <<remote, tracking>>
      PROVE  LeaseInv'
  BY <1>0, <1>1, <1>4, StepTypes DEF Fits, Behind
<1>5. ASSUME NEW r \in {"no_changes", "discarded"}, Return(r), head' = cp.pre,
             cp.at # "returned", UNCHANGED <<remote, tracking>>
      PROVE  LeaseInv'
  BY <1>0, <1>1, <1>3, <1>5, ReturnTypes DEF Fits, Behind
<1>6. ASSUME pc' = "off", UNCHANGED <<remote, tracking>>
      PROVE  LeaseInv'
  BY <1>0, <1>6 DEF Fits, Behind
<1>7. CASE CpTop
  BY <1>4, <1>5, <1>7 DEF CpTop, ResetTo
<1>8. CASE CpReviewGate
  BY <1>4, <1>5, <1>8 DEF CpReviewGate, ResetTo
<1>9. CASE CpGates
  <2>1. CASE cp' = [cp EXCEPT !.at = "fix", !.round = @ + 1] /\ UNCHANGED <<pc, code, run, head>>
    <3>1. cp'.pre = cp.pre /\ cp'.result = cp.result /\ cp'.at = "fix"
      BY <1>1, <2>1, CallUpdates, Zenon
    <3>2. cp.at = "gates" /\ UNCHANGED <<remote, tracking, pc, head>>
      BY <1>9, <2>1, Zenon DEF CpGates
    <3> QED
      BY <1>0, <1>1, <3>1, <3>2 DEF Fits, Behind
  <2>2. CASE Step("stage") \/ Exit("failed")
    BY <1>2, <1>4, <1>6, <1>9, <2>2 DEF CpGates
  <2> QED
    BY <1>9, <2>1, <2>2 DEF CpGates
<1>10. CASE CpFixReady
  <2>1. cp'.pre = cp.pre /\ cp'.result = cp.result /\ cp'.at = "top"
    BY <1>1, <1>10, CallUpdates, Zenon DEF CpFixReady
  <2>2. cp.at = "fix" /\ UNCHANGED <<remote, tracking, pc>>
    BY <1>10, Zenon DEF CpFixReady
  <2> QED
    BY <1>0, <1>1, <2>1, <2>2 DEF Fits, Behind
<1>11. CASE CpFixFails
  BY <1>2, <1>6, <1>11 DEF CpFixFails
<1>12. CASE CpFixUseless
  BY <1>5, <1>12 DEF CpFixUseless, ResetTo
<1>13. CASE CpCommit
  BY <1>4, <1>5, <1>13 DEF CpCommit, ResetTo
<1>14. CASE CpPush
  <2>1. head = OnTop(cp.pre, "ralph") /\ Behind(tracking, cp.pre)
    BY <1>14 DEF CpPush, FollowInv, Fits
  <2>2. Behind(tracking, head) /\ Behind(head, head)
    <3>1. Len(head.log) = Len(cp.pre.log) + 1
      BY <1>1, <2>1, OnTopCommit DEF Patch
    <3>2. /\ Len(cp.pre.log) \in Nat /\ Len(head.log) \in Nat
          /\ tracking # NoCommit => Len(tracking.log) \in Nat
      BY <1>1, LogLength DEF TypeInv, TypeOK, BranchTypeOK
    <3> QED
      BY <2>1, <3>1, <3>2 DEF Fits, Behind
  <2>3. CASE Pushed(TRUE) /\ Return("committed")
    <3>1. remote' = head /\ tracking' = head /\ head' = head
      BY <1>14, <2>3 DEF CpPush, Pushed
    <3>2. pc' = "commit" /\ cp'.at = "returned" /\ cp'.result = "committed"
      BY <1>1, <1>3, <2>3, ReturnTypes
    <3> QED
      BY <1>1, <2>2, <3>1, <3>2 DEF Fits
  <2>4. CASE Exit("failed")
    <3>1. \/ remote' = head /\ tracking' = tracking
          \/ remote' = remote /\ tracking' = tracking
      BY <1>1, <1>14, <2>4 DEF CpPush, Pushed, Exit, Return
    <3> QED
      BY <1>2, <2>2, <2>4, <3>1 DEF Fits, Behind
  <2> QED
    BY <1>14, <2>3, <2>4 DEF CpPush
<1> QED
  BY <1>7, <1>8, <1>9, <1>10, <1>11, <1>12, <1>13, <1>14 DEF CallStep, CpStep

LEMMA MainLeases ==
  ASSUME TypeInv, TypeInv', VetInv, FollowInv, LeaseInv, LoopStep \/ Start \/ Fail, ~CallStep,
         CheckoutSynced
  PROVE  LeaseInv'
<1> USE DEF LeaseInv, Settled, At, restVars, envVars, gitVars, Goto
<1>1. /\ remote \in Commit \cup {NoCommit} /\ head \in Commit \cup {NoCommit}
      /\ tracking \in Commit \cup {NoCommit}
      /\ remote = NoCommit => pr = "merged"
      /\ pr = "merged" <=> merged # NoCommit
      /\ pc \notin {"off", "view", "worktree"} => head # NoCommit
      /\ pc = "commit" => cp.pre \in Commit
  BY DEF TypeInv, TypeOK, BranchTypeOK, PrInv, CpType
<1>2. \A c : Exit(c) => pc' = "off"
  BY DEF Exit
<1>3. ASSUME pc' \in {"off", "view"}, UNCHANGED <<remote, tracking, merged>>
      PROVE  LeaseInv'
  BY <1>3 DEF Fits, Behind
\* main() moves on, HEAD stays or goes back to pre_round_sha.
<1>4. ASSUME pc' \in Settled \ {"lease"}, UNCHANGED <<remote, tracking, merged>>,
             Fits(head')
      PROVE  LeaseInv'
  BY <1>4 DEF Fits, Behind
<1>5. CASE Start
  <2>1. pc' = "view" /\ UNCHANGED <<remote, tracking, merged>>
    BY <1>5, Zenon DEF Start
  <2> QED
    BY <1>3, <2>1
<1>6. CASE View
  <2>1. CASE pr = "open"
    BY <1>1, <1>6, <2>1 DEF View, Fits, Behind
  <2> QED
    BY <1>2, <1>3, <1>6, <2>1 DEF View
<1>7. CASE EnsureWorktree
  <2>1. PrHead \in Commit /\ PrHead # NoCommit
    BY PrHeadCommit
  <2>2. Behind(tracking, PrHead) /\ (remote = NoCommit => Within(PrHead, merged))
    BY <1>1, <1>7, <2>1, LogLength DEF EnsureWorktree, PrHead, Within
  <2>3. Behind(tracking', PrHead) /\ Len(PrHead.log) \in Nat
    BY <1>7, <2>1, <2>2, LogLength DEF EnsureWorktree, Fits, Behind
  <2>4. remote # NoCommit => PrHead = remote
    BY DEF PrHead
  <2>5. /\ remote' = remote /\ merged' = merged
        /\ pc' = "off" \/ (head' = PrHead /\ pc' \in {"review", "rebase"})
    <3>1. CASE worktree /\ Ancestor(head, PrHead)
      BY <1>7, <3>1 DEF EnsureWorktree, SyncTo, ResetTo, AfterWorktree
    <3>2. CASE worktree /\ ~Ancestor(head, PrHead)
      BY <1>2, <1>7, <3>2 DEF EnsureWorktree, SyncTo
    <3>3. CASE ~worktree
      BY <1>7, <3>3 DEF EnsureWorktree, AfterWorktree, CheckoutSynced, UnsyncedCheckout
    <3> QED
      BY <3>1, <3>2, <3>3
  <2> QED
    BY <2>2, <2>3, <2>4, <2>5 DEF Fits
<1>8. CASE BranchElsewhere
  BY <1>2, <1>3, <1>8 DEF BranchElsewhere
<1>9. CASE Rebase
  <2>1. CASE Exit("65")
    BY <1>2, <1>3, <1>9, <2>1 DEF Rebase
  <2>2. CASE head' = [head EXCEPT !.base = base] /\ Goto("lease")
    <3>1. head \in Commit /\ remote' = remote /\ tracking' = tracking /\ pc = "rebase"
      BY <1>1, <1>9 DEF Rebase
    <3>2. head'.log = head.log
      BY <2>2, <3>1 DEF Commit
    <3>3. remote # NoCommit => Within(head, remote)
      BY <3>1 DEF FollowInv, Following, Ancestor, Within
    <3>4. merged' = merged
      BY <1>9 DEF Rebase
    <3> QED
      BY <2>2, <3>1, <3>2, <3>3, <3>4 DEF Fits, Behind, Within
  <2> QED
    BY <1>9, <2>1, <2>2 DEF Rebase
<1>10. CASE LeasePush
  <2>1. head' = head /\ pc = "lease" /\ Behind(tracking, head) /\ head # NoCommit
    BY <1>1, <1>10 DEF LeasePush, Fits
  <2>2. CASE Pushed(TRUE)
    <3>1. remote' = head /\ tracking' = head /\ Behind(head, head)
      BY <1>1, <2>1, <2>2, LogLength DEF Pushed, Fits, Behind
    <3>2. pc' \in {"review", "finalwait", "off"}
      BY <1>2, <1>10 DEF LeasePush
    <3> QED
      BY <2>1, <3>1, <3>2 DEF Fits
  <2>3. CASE Exit("failed")
    <3>1. \/ remote' = head /\ tracking' \in {head, tracking}
          \/ UNCHANGED <<remote, tracking, merged>>
      BY <1>10 DEF LeasePush, Pushed
    <3>2. Behind(head, head)
      BY <1>1, <2>1, LogLength DEF Fits, Behind
    <3> QED
      BY <1>2, <2>1, <2>3, <3>1, <3>2 DEF Fits, Behind
  <2> QED
    BY <1>10, <2>2, <2>3 DEF LeasePush
<1>11. ASSUME NEW gate \in BOOLEAN, NEW after \in BOOLEAN, pc \in Settled,
              Calls(Call(head, gate, after)), UNCHANGED <<remote, tracking, merged>>
       PROVE  LeaseInv'
  <2>1. /\ Call(head, gate, after).pre = head /\ Call(head, gate, after).at = "top"
        /\ Call(head, gate, after).result = "none"
    BY DEF Call, NoCall
  <2> QED
    BY <1>11, <2>1 DEF Calls, Fits, Behind
<1>12. CASE ReviewRound
  BY <1>2, <1>3, <1>11, <1>12 DEF ReviewRound, CodexFails
<1>13. CASE ReviewExhausted
  BY <1>2, <1>3, <1>13 DEF ReviewExhausted
<1>14. CASE ReviewAgain
  <2>1. pc' = "review" /\ UNCHANGED <<remote, tracking, merged>>
    BY <1>14 DEF ReviewAgain, Back
  <2>2. Fits(head')
    BY <1>14 DEF ReviewAgain, Returned, ResetTo
  <2> QED
    BY <1>4, <2>1, <2>2
<1>15. CASE ReviewDone
  BY <1>4, <1>15 DEF ReviewDone, Returned, Back
<1>16. CASE CiWait
  <2>1. /\ pc = "ci" /\ pc' \in {"rebase", "fresh", "cifix"}
        /\ UNCHANGED <<remote, tracking, head, merged>>
    BY <1>16 DEF CiWait, GreenSeen, AfterCi
  <2> QED
    BY <1>4, <2>1
<1>17. CASE CiExhausted
  BY <1>2, <1>3, <1>17 DEF CiExhausted
<1>18. CASE CiFix
  <2>1. CASE ResetTo(head) /\ Goto("ci")
    BY <1>4, <1>18, <2>1 DEF CiFix, ResetTo
  <2>2. CASE Calls(Call(head, TRUE, TRUE)) \/ CodexFails
    BY <1>2, <1>3, <1>11, <1>18, <2>2 DEF CiFix, CodexFails
  <2> QED
    BY <1>18, <2>1, <2>2 DEF CiFix
<1>19. CASE CiCommitted
  BY <1>4, <1>19 DEF CiCommitted, Returned, Back
<1>20. CASE CiWaitAgain
  <2>1. /\ pc = "ciwait" /\ pc' \in {"rebase", "fresh", "ci"}
        /\ UNCHANGED <<remote, tracking, head, merged>>
    BY <1>20 DEF CiWaitAgain, GreenSeen, AfterCi
  <2> QED
    BY <1>4, <2>1
<1>21. CASE FinalWait
  BY <1>2, <1>3, <1>4, <1>21 DEF FinalWait, GreenSeen
<1>22. CASE Fresh
  BY <1>2, <1>3, <1>4, <1>22 DEF Fresh
<1>23. CASE SignOff
  BY <1>2, <1>3, <1>4, <1>23 DEF SignOff
<1>24. CASE Merge
  <2>1. CASE pr = "open" /\ remote = head /\ Goto("delete")
    <3>1. pc' = "delete" /\ UNCHANGED <<remote, tracking, head>> /\ Fits(head)
      BY <1>24, <2>1 DEF Merge
    <3>2. remote # NoCommit /\ Behind(tracking, head)
      BY <1>1, <2>1, <3>1 DEF Fits
    <3> QED
      BY <3>1, <3>2 DEF Fits, Behind
  <2>2. CASE UNCHANGED <<merged, pr>>
    BY <1>2, <1>3, <1>4, <1>24, <2>2 DEF Merge
  <2> QED
    BY <1>24, <2>1, <2>2 DEF Merge
<1>25. CASE DeleteBranch
  BY <1>2, <1>25 DEF DeleteBranch, Fits, Behind
<1>26. CASE Fail
  BY <1>2, <1>3, <1>26 DEF Fail
<1> QED
  BY <1>5, <1>6, <1>7, <1>8, <1>9, <1>10, <1>12, <1>13, <1>14, <1>15, <1>16, <1>17, <1>18,
     <1>19, <1>20, <1>21, <1>22, <1>23, <1>24, <1>25, <1>26 DEF LoopStep

LEMMA EnvLeases ==
  ASSUME TypeInv, TypeInv', FollowInv, LeaseInv, EnvStep, QuietFetch
  PROVE  LeaseInv'
<1> USE DEF LeaseInv, Settled, At
<1>1. UNCHANGED <<pc, cp, head>> /\ (tracking' = tracking \/ SharedFetch)
  BY DEF EnvStep, HumanPush, BaseMoves, PrChanges, HumanMerge, SharedFetch, LoseWorktree,
         gitVars, loopVars, restVars
<1>2. ASSUME remote' # NoCommit
      PROVE  /\ Behind(tracking, remote')
             /\ pc = "lease" => Within(head, remote')
  <2>1. /\ remote \in Commit /\ remote # NoCommit /\ remote' \in Commit
        /\ Ancestor(remote, remote')
    BY <1>2, EnvGrows
  <2>2. /\ tracking # NoCommit => tracking \in Commit
        /\ pc = "lease" => head \in Commit
    BY DEF TypeInv, TypeOK, BranchTypeOK
  <2>3. Behind(tracking, remote')
    BY <2>1, <2>2, LogLength DEF Behind, Ancestor
  <2>4. ASSUME pc = "lease" PROVE Within(head, remote')
    BY <2>1, <2>2, <2>4, LogLength DEF Within, Ancestor
  <2> QED
    BY <2>3, <2>4
<1>3. merged' = merged \/ (merged' = remote /\ pr = "open" /\ remote # NoCommit)
  BY DEF EnvStep, HumanPush, BaseMoves, PrChanges, HumanMerge, SharedFetch, LoseWorktree,
         restVars, TypeInv, PrInv
<1>4. ASSUME pc = "worktree", merged' # NoCommit
      PROVE  Behind(tracking, merged')
  BY <1>3, <1>4 DEF TypeInv, PrInv
\* The branch goes with a merge of its head, which has what HEAD has, or was gone before.
<1>5. ASSUME NEW c, Fits(c), tracking' = tracking,
             remote # NoCommit => Within(c, remote)
      PROVE  Behind(tracking', c) /\ (remote' = NoCommit => Within(c, merged'))
  <2>1. CASE remote = NoCommit
    <3>1. merged' = merged
      BY <1>3, <2>1 DEF TypeInv, PrInv
    <3> QED
      BY <1>5, <2>1, <3>1 DEF Fits
  <2>2. CASE remote # NoCommit /\ remote' = NoCommit
    <3>1. CASE HumanPush
      <4>1. PICK h \in unpushed : remote' = OnTop(remote, h)
        BY <3>1 DEF HumanPush
      <4>2. remote' # NoCommit
        BY <2>2, <4>1, OnTopCommit DEF TypeInv, TypeOK, BranchTypeOK, Patch
      <4> QED
        BY <2>2, <4>2
    <3>2. CASE merged' = remote
      BY <1>5, <2>2, <3>2 DEF Fits
    <3> QED
      BY <2>2, <3>1, <3>2 DEF EnvStep, BaseMoves, PrChanges, HumanMerge, SharedFetch,
                              LoseWorktree, gitVars
  <2>3. CASE remote' # NoCommit
    BY <1>5, <2>3 DEF Fits
  <2> QED
    BY <2>1, <2>2, <2>3
<1>6. \A c, d : Ancestor(c, d) => Within(c, d)
  BY DEF Ancestor, Within
<1>7. ASSUME tracking' = tracking
      PROVE  /\ pc \in Settled => Fits(head)'
             /\ At("returned") => Fits(head)'
             /\ pc = "commit" /\ cp.result # "committed" => Fits(cp.pre)'
  <2>1. ASSUME Fits(head), remote # NoCommit => Within(head, remote)
        PROVE  Fits(head)'
    BY <1>1, <1>5, <1>7, <2>1 DEF Fits
  <2>2. ASSUME Fits(cp.pre), remote # NoCommit => Within(cp.pre, remote)
        PROVE  Fits(cp.pre)'
    BY <1>1, <1>5, <1>7, <2>2 DEF Fits
  <2> QED
    BY <1>6, <2>1, <2>2 DEF FollowInv, Following
<1>8. CASE SharedFetch
  <2>1. pc \in {"off", "view"} /\ remote' = remote /\ tracking' = remote /\ remote \in Commit
    BY <1>8 DEF QuietFetch, SharedFetch, TypeInv, TypeOK, BranchTypeOK
  <2> QED
    BY <1>1, <2>1, LogLength DEF Behind
<1>9. CASE tracking' = tracking
  BY <1>1, <1>2, <1>4, <1>7, <1>9
<1> QED
  BY <1>1, <1>8, <1>9

LEMMA LeaseInvariant == Spec /\ [][CheckoutSynced]_vars /\ [][QuietFetch]_vars => []LeaseInv
<1>1. TypeInv /\ TypeInv' /\ VetInv /\ FollowInv /\ LeaseInv /\ [Next]_vars
        /\ [CheckoutSynced]_vars /\ [QuietFetch]_vars => LeaseInv'
  <2> SUFFICES ASSUME TypeInv, TypeInv', VetInv, FollowInv, LeaseInv, [Next]_vars,
                      [CheckoutSynced]_vars, [QuietFetch]_vars
               PROVE  LeaseInv'
    OBVIOUS
  <2>1. CASE CallStep
    BY <2>1, CallLeases
  <2>2. CASE (LoopStep \/ Start \/ Fail) /\ ~CallStep /\ CheckoutSynced
    BY <2>2, MainLeases
  <2>3. CASE EnvStep /\ QuietFetch
    BY <2>3, EnvLeases
  <2>4. CASE UNCHANGED vars
    BY <2>4 DEF LeaseInv, Fits, Settled, At, vars, gitVars, loopVars, restVars
  <2> QED
    BY <2>1, <2>2, <2>3, <2>4 DEF Next
<1> QED
  BY <1>1, TypeInvariant, SyncedVets, FollowInvariant, LeaseInit, PTL DEF Spec

(***************************************************************************)
(* The refinement.                                                         *)
(***************************************************************************)

\* Two logs within each other are one.
LEMMA SameLog ==
  ASSUME NEW c \in Commit, NEW d \in Commit, Within(c, d), Len(d.log) <= Len(c.log)
  PROVE  c.log = d.log
BY LogLength DEF Within, Commit, Log

\* What is within a commit is the first patches of it.
LEMMA WithinPrefix ==
  ASSUME NEW c \in Commit, NEW d \in Commit, Within(c, d)
  PROVE  c.log = SubSeq(d.log, 1, Len(c.log)) /\ Len(c.log) \in 0..Len(d.log)
BY LogLength DEF Within, Commit, Log

LEMMA GBInit == Init => GB!Init
<1> SUFFICES ASSUME Init PROVE GB!Init
  OBVIOUS
<1>1. remote \in [base : Nat, log : Seq(HumanPatches)]
  BY FirstPatchHuman DEF Init
<1> QED
  BY <1>1 DEF Init, GB!Init

\* A push of the loop adds Ralph's gated commit, or makes a deleted branch anew.
LEMMA GBPush ==
  ASSUME TypeInv, FollowInv, CpPush, UNCHANGED merged
  PROVE  [GB!Next]_(GB!vars)
<1>1. /\ At("push") /\ pc = "commit" /\ gated' = gated
      /\ head = OnTop(cp.pre, "ralph") /\ head.log \in gated
  BY DEF CpPush, FollowInv, At
<1>2. head \in Commit /\ cp.pre \in Commit /\ "ralph" \in Patch
  BY <1>1 DEF TypeInv, TypeOK, BranchTypeOK, CpType, Patch
<1>3. CASE UNCHANGED remote
  BY <1>1, <1>3 DEF GB!vars
<1>4. CASE CanPush /\ remote' = head /\ remote = NoCommit
  <2>1. merged # NoCommit
    BY <1>4 DEF TypeInv, PrInv
  <2>2. head \in [base : Nat, log : gated \cup GB!OfMerged]
    BY <1>1, <1>2 DEF Commit
  <2> QED
    BY <1>1, <1>4, <2>1, <2>2 DEF GB!Next, GB!Recreated
<1>5. CASE CanPush /\ remote' = head /\ remote # NoCommit
  <2>1. remote \in Commit
    BY <1>5 DEF TypeInv, TypeOK, BranchTypeOK
  <2>2. Ancestor(cp.pre, remote) /\ Ancestor(remote, head)
    BY <1>1, <1>5 DEF FollowInv, CanPush
  <2>3. Len(head.log) = Len(cp.pre.log) + 1
    BY <1>1, <1>2, OnTopCommit
  <2>4. Len(cp.pre.log) \in Nat /\ Len(remote.log) \in Nat /\ Len(head.log) \in Nat
    BY <1>2, <2>1, LogLength
  <2>5. CASE Len(remote.log) = Len(head.log)
    <3>1. Ancestor(head, remote)
      BY <2>2, <2>4, <2>5 DEF Ancestor
    <3> QED
      BY <1>1, <1>2, <1>5, <2>1, <2>2, <3>1, AncestorAntisymmetric DEF GB!vars
  <2>6. CASE Len(remote.log) = Len(cp.pre.log)
    <3>1. Ancestor(remote, cp.pre)
      BY <2>2, <2>4, <2>6 DEF Ancestor
    <3>2. remote = cp.pre
      BY <1>2, <2>1, <2>2, <3>1, AncestorAntisymmetric
    <3>3. remote' = [base |-> remote.base, log |-> Append(remote.log, "ralph")]
      BY <1>1, <1>5, <3>2 DEF OnTop
    <3> QED
      BY <1>1, <1>5, <3>3 DEF GB!Next, GB!RalphPushes, GB!Grows
  <2>7. Len(remote.log) = Len(head.log) \/ Len(remote.log) = Len(cp.pre.log)
    BY <2>2, <2>3, <2>4 DEF Ancestor
  <2> QED
    BY <2>5, <2>6, <2>7
<1> QED
  BY <1>3, <1>4, <1>5 DEF CpPush, Pushed

\* A lease that holds means HEAD has every patch GitHub has, and no other, or that there
\* is no branch and HEAD has only what was merged.
LEMMA GBLease ==
  ASSUME TypeInv, LeaseInv, LeasePush
  PROVE  [GB!Next]_(GB!vars)
<1>1. pc = "lease" /\ gated' = gated /\ merged' = merged
  BY DEF LeasePush, restVars
<1>2. CASE UNCHANGED remote
  BY <1>1, <1>2 DEF GB!vars
<1>3. CASE LeaseHolds /\ remote' = head /\ remote = head
  BY <1>1, <1>3 DEF GB!vars
<1>4. CASE LeaseHolds /\ remote' = head /\ remote = tracking /\ remote # NoCommit
  <2>1. head \in Commit /\ remote \in Commit
    BY <1>1, <1>4 DEF TypeInv, TypeOK, BranchTypeOK
  <2>2. Within(head, remote) /\ Len(remote.log) <= Len(head.log)
    BY <1>1, <1>4, <2>1 DEF LeaseInv, Fits, Behind, Settled
  <2>3. head.log = remote.log
    BY <2>1, <2>2, SameLog
  <2>4. remote' \in [base : Nat, log : {remote.log}]
    BY <1>4, <2>1, <2>3 DEF Commit
  <2> QED
    BY <1>1, <1>4, <2>4 DEF GB!Next, GB!Rebased
\* The branch is gone and the clone never knew it: the push makes it anew.
<1>5. CASE LeaseHolds /\ remote' = head /\ remote = NoCommit
  <2>1. head \in Commit /\ merged \in Commit /\ merged # NoCommit
    BY <1>1, <1>5 DEF TypeInv, TypeOK, BranchTypeOK, PrInv
  <2>2. Within(head, merged)
    BY <1>1, <1>5 DEF LeaseInv, Fits, Settled
  <2>3. head.log = SubSeq(merged.log, 1, Len(head.log)) /\ Len(head.log) \in 0..Len(merged.log)
    BY <2>1, <2>2, WithinPrefix
  <2>4. head.log \in GB!OfMerged
    BY <2>3 DEF GB!OfMerged
  <2>5. remote' \in [base : Nat, log : gated \cup GB!OfMerged]
    BY <1>5, <2>1, <2>4 DEF Commit
  <2> QED
    BY <1>1, <1>5, <2>1, <2>5 DEF GB!Next, GB!Recreated
<1> QED
  BY <1>2, <1>3, <1>4, <1>5 DEF LeasePush, Pushed, LeaseHolds

LEMMA GBCall ==
  ASSUME TypeInv, FollowInv, CallStep
  PROVE  [GB!Next]_(GB!vars)
<1>1. UNCHANGED merged
  BY DEF CallStep, restVars
<1>2. CASE CpPush
  BY <1>1, <1>2, GBPush
<1>3. CASE CpStep /\ ~CpPush
  <2>1. remote' = remote /\ gated \subseteq gated'
    BY <1>3 DEF CpStep, CpTop, CpReviewGate, CpGates, CpFixReady, CpFixFails, CpFixUseless,
                CpCommit, CommitChanges
  <2> QED
    BY <1>1, <2>1 DEF GB!Next, GB!GatesPass
<1> QED
  BY <1>2, <1>3 DEF CallStep

LEMMA GBMain ==
  ASSUME TypeInv, LeaseInv, LoopStep \/ Start \/ Fail, ~CallStep
  PROVE  [GB!Next]_(GB!vars)
<1>1. CASE LeasePush
  BY <1>1, GBLease
<1>2. CASE Merge
  <2>1. CASE pr = "open" /\ remote = head /\ merged' = head
    <3>1. merged = NoCommit /\ merged' = remote
      BY <2>1 DEF TypeInv, PrInv
    <3> QED
      BY <1>2, <3>1 DEF Merge, gitVars, GB!Next, GB!Merged
  <2>2. CASE UNCHANGED merged
    BY <1>2, <2>2 DEF Merge, gitVars, GB!vars
  <2> QED
    BY <1>2, <2>1, <2>2 DEF Merge
<1>3. CASE DeleteBranch
  <2>1. merged # NoCommit /\ UNCHANGED <<gated, merged>>
    BY <1>3 DEF DeleteBranch, restVars, TypeInv, PrInv
  <2> QED
    BY <1>3, <2>1 DEF DeleteBranch, GB!Next, GB!Deleted, GB!vars
<1>4. CASE Start
  BY <1>4, Zenon DEF Start, gitVars, GB!vars
<1>5. CASE (LoopStep /\ ~LeasePush /\ ~Merge /\ ~DeleteBranch) \/ Fail
  <2>1. UNCHANGED <<remote, gated, merged>>
    BY <1>5 DEF LoopStep, View, EnsureWorktree, BranchElsewhere, Rebase, ReviewRound,
                ReviewExhausted, ReviewAgain, ReviewDone, CiWait, CiExhausted, CiFix, CiCommitted,
                CiWaitAgain, FinalWait, Fresh, SignOff, Fail, gitVars, restVars
  <2> QED
    BY <2>1 DEF GB!vars
<1> QED
  BY <1>1, <1>2, <1>3, <1>4, <1>5 DEF LoopStep

LEMMA GBEnv ==
  ASSUME TypeInv, EnvStep
  PROVE  [GB!Next]_(GB!vars)
<1>1. CASE HumanPush
  <2>1. PICK h \in unpushed : remote' = OnTop(remote, h)
    BY <1>1 DEF HumanPush
  <2>2. h \in HumanPatches
    BY <2>1 DEF TypeInv, TypeOK
  <2>3. GB!Grows(h) /\ UNCHANGED gated
    BY <1>1, <2>1 DEF HumanPush, GB!Grows, OnTop
  <2> QED
    BY <2>2, <2>3 DEF GB!Next, GB!PersonPushes
<1>2. CASE HumanMerge
  <2>1. merged = NoCommit
    BY <1>2 DEF HumanMerge, TypeInv, PrInv
  <2> QED
    BY <1>2, <2>1 DEF HumanMerge, GB!Next, GB!Merged
<1>3. CASE UNCHANGED <<remote, gated, merged>>
  BY <1>3 DEF GB!vars
<1> QED
  BY <1>1, <1>2, <1>3 DEF EnvStep, BaseMoves, PrChanges, SharedFetch, LoseWorktree, gitVars,
                          restVars

\* Loops that are killed and started again, and lose answers on the way, only ever
\* add gated commits to the PR branch, rebase exactly what is on it, merge its head
\* and delete it merged: no push of theirs drops a person's commit, unless a branch is
\* checked out unsynced or somebody fetches under a loop at work.
THEOREM GatedBranchRefined ==
  Spec /\ [][CheckoutSynced]_vars /\ [][QuietFetch]_vars => ImplementsGatedBranch
<1>1. TypeInv /\ FollowInv /\ LeaseInv /\ [Next]_vars => [GB!Next]_(GB!vars)
  <2> SUFFICES ASSUME TypeInv, FollowInv, LeaseInv, [Next]_vars PROVE [GB!Next]_(GB!vars)
    OBVIOUS
  <2>1. CASE CallStep
    BY <2>1, GBCall
  <2>2. CASE (LoopStep \/ Start \/ Fail) /\ ~CallStep
    BY <2>2, GBMain
  <2>3. CASE EnvStep
    BY <2>3, GBEnv
  <2>4. CASE UNCHANGED vars
    BY <2>4 DEF vars, gitVars, restVars, GB!vars
  <2> QED
    BY <2>1, <2>2, <2>3, <2>4 DEF Next
<1> QED
  BY <1>1, GBInit, TypeInvariant, FollowInvariant, LeaseInvariant, PTL
  DEF Spec, GB!Spec, ImplementsGatedBranch

\* Nothing else is in the way: with no directory lost and no fetch of somebody else's, the
\* refinement holds for every run.
THEOREM GatedBranchUndisturbed ==
  ASSUME ~WorktreesLost, ~SharedFetches
  PROVE  Spec => ImplementsGatedBranch
<1>1. QuietFetch
  BY DEF QuietFetch, SharedFetch
<1> QED
  BY <1>1, WorktreesThere, GatedBranchRefined, PTL
===============================================================================
