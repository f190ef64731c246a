------------------------------ MODULE GatedBranch ------------------------------
(***************************************************************************)
(* What automation may do to a PR branch on GitHub, as GUIDE.md promises it *)
(* ("Commit and push behavior", "Merge behavior"): the branch grows by one  *)
(* commit at a time, people's or one of Ralph's whose files passed the      *)
(* local gates; a rebase changes the commits but not what is in them; and   *)
(* it is deleted only after the PR was merged, and made anew after that    *)
(* only of what was merged or gated.  PrLoop is shown to implement this    *)
(* module: no push of the loop loses a person's commit and no commit of    *)
(* Codex's own gets out.                                                   *)
(***************************************************************************)
EXTENDS Naturals, Sequences

CONSTANTS HumanPatches, NoCommit

VARIABLES branch,   \* the head of the branch, or NoCommit
          gated,    \* the logs the local gates passed on
          merged    \* the head that was merged, or NoCommit

vars == <<branch, gated, merged>>

Init == /\ branch \in [base : Nat, log : Seq(HumanPatches)]
        /\ gated = {}
        /\ merged = NoCommit

Grows(patch) == /\ branch # NoCommit
                /\ branch' = [base |-> branch.base, log |-> Append(branch.log, patch)]
                /\ UNCHANGED merged

PersonPushes == /\ \E h \in HumanPatches : Grows(h)
                /\ UNCHANGED gated

RalphPushes == /\ Grows("ralph")
               /\ branch'.log \in gated
               /\ UNCHANGED gated

\* What was merged, or the first commits of it.
OfMerged == {SubSeq(merged.log, 1, i) : i \in 0..Len(merged.log)}

\* After GitHub deleted the branch a push makes it anew, of what passed the gates or is
\* in what was merged.
Recreated == /\ branch = NoCommit /\ merged # NoCommit
             /\ branch' \in [base : Nat, log : gated \cup OfMerged]
             /\ UNCHANGED <<gated, merged>>

Rebased == /\ branch # NoCommit
           /\ branch' \in [base : Nat, log : {branch.log}]
           /\ UNCHANGED <<gated, merged>>

GatesPass == /\ gated \subseteq gated'
             /\ UNCHANGED <<branch, merged>>

\* The head is merged, and the branch may go with it or later.
Merged == /\ merged = NoCommit /\ merged' = branch
          /\ branch' \in {branch, NoCommit}
          /\ UNCHANGED gated

Deleted == /\ merged # NoCommit
           /\ branch' = NoCommit
           /\ UNCHANGED <<gated, merged>>

Next == \/ PersonPushes \/ RalphPushes \/ Recreated \/ Rebased \/ GatesPass
        \/ Merged \/ Deleted

Spec == Init /\ [][Next]_vars
==============================================================================
