--------------------------- MODULE GitHubCallsProofs --------------------------
(***************************************************************************)
(* Proofs about GitHubCalls, for any number of attempts, rounds, comments   *)
(* and messages: the merge is of an approved head, the exit code is right,  *)
(* retries are transparent, Codex's answer is taken as it was given, and    *)
(* nobody is told of a fix that was not pushed.                             *)
(***************************************************************************)
EXTENDS GitHubCalls, CodexAnswerProofs, TLAPS

(***************************************************************************)
(* The inductive invariant: where the run is past its last look at the PR, *)
(* what each state of GitHub that could fail a call is owed to, and what   *)
(* an approval that would be accepted stands for.                          *)
(***************************************************************************)
PastLook == {"prepare", "head", "user", "reviews", "approve", "merge", "verify"}

BeforeLook == RoundPC \cup {"login", "config", "ready", "fresh"}

ClosingInv == /\ pc \in PastLook => closing
              /\ pc \in BeforeLook => ~closing

Reasons == /\ ~ours => excused
           /\ pr = "closed" => excused
           /\ ~closing /\ pr # "open" => excused
           /\ pc = "relabel" /\ label = "absent" => excused
           /\ pc = "verify" /\ ~Merged => excused

Approval == /\ review \in {"current", "unpinned"} => signed
            /\ pc = "merge" /\ ours => signed

CallsInv == /\ MergeTypeOK
            /\ ClosingInv
            /\ Reasons
            /\ Approval
            /\ MergedApproved
            /\ ExitTrue
            /\ RetriesTransparent

LEMMA InitCalls == Init => CallsInv
<1> SUFFICES ASSUME Init PROVE CallsInv
  OBVIOUS
<1>1. /\ pc = "login" /\ attempt = 1 /\ excused = FALSE /\ closing = FALSE
      /\ label \in {"absent", "exists", "on"}
      /\ pr = "open" /\ ours = TRUE
      /\ review \in Approvals \cup {"none"}
      /\ signed \in BOOLEAN /\ (signed <=> review \in {"current", "unpinned"})
  BY DEF Init
<1>2. MergeTypeOK
  <2>1. attempt \in 1..MaxAttempts
    BY <1>1, MaxAttemptsPositive
  <2>2. QED
    BY <1>1, <2>1, Zenon DEF MergeTypeOK, StartPC, RoundPC, MergePC, Approvals
<1>3. ClosingInv /\ Reasons /\ Approval
  BY <1>1 DEF ClosingInv, Reasons, Approval, PastLook, BeforeLook, RoundPC
<1>4. MergedApproved /\ ExitTrue /\ RetriesTransparent
  BY <1>1 DEF MergedApproved, ExitTrue, RetriesTransparent
<1>5. QED
  BY <1>2, <1>3, <1>4 DEF CallsInv

(***************************************************************************)
(* A call: its effect on GitHub, and how it ends.                          *)
(***************************************************************************)

\* An effect that keeps what the invariant says of GitHub.
Effect == /\ closing' = closing
          /\ label' \in {"absent", "exists", "on"} /\ (label' = "absent" => label = "absent")
          /\ pr' \in {"open", "closed", "ralph", "person"} /\ (Merged => Merged')
          /\ ours' \in BOOLEAN
          /\ review' \in Approvals \cup {"none", "withdrawn"}
          /\ signed' \in BOOLEAN
          /\ ~ours' => excused
          /\ pr' = "closed" => excused
          /\ ~closing /\ pr' # "open" => excused
          /\ review' \in {"current", "unpinned"} => signed'
          /\ pc = "merge" /\ ours' => signed'
          /\ pr' = "ralph" => signed'

LEMMA NoEffect == CallsInv /\ UNCHANGED <<closing, label, prVars>> => Effect
<1> SUFFICES ASSUME CallsInv, UNCHANGED <<closing, label, prVars>> PROVE Effect
  OBVIOUS
<1>1. /\ closing' = closing /\ label' = label
      /\ pr' = pr /\ ours' = ours /\ review' = review /\ signed' = signed
  BY DEF prVars
<1>2. QED
  BY <1>1, Zenon DEF Effect, CallsInv, MergeTypeOK, Reasons, Approval, MergedApproved, Merged

\* What is left when a call ends, or is tried again.
LEMMA CallStep ==
  ASSUME MergeTypeOK, NEW next
  PROVE  /\ Answered(next) => pc' = next /\ attempt' \in 1..MaxAttempts /\ excused' = excused
         /\ TryAgain => pc' = pc /\ attempt' \in 1..MaxAttempts /\ excused' = excused
         /\ GivesUp(next) => pc' = next /\ attempt' \in 1..MaxAttempts /\ excused' = TRUE
  BY MaxAttemptsPositive DEF Answered, TryAgain, GivesUp, Over, MergeTypeOK

LEMMA Waits == CallsInv /\ TryAgain /\ Effect => CallsInv'
<1> SUFFICES ASSUME CallsInv, TryAgain, Effect PROVE CallsInv'
  OBVIOUS
<1>1. pc' = pc /\ excused' = excused /\ attempt' \in 1..MaxAttempts
  BY CallStep DEF CallsInv
<1>2. MergeTypeOK'
  BY <1>1, Zenon DEF CallsInv, MergeTypeOK, Effect
<1>3. ClosingInv'
  BY <1>1, Zenon DEF CallsInv, ClosingInv, Effect
<1>4. Reasons'
  BY <1>1, Zenon DEF CallsInv, Reasons, Effect
<1>5. (Approval /\ MergedApproved)'
  BY <1>1, Zenon DEF CallsInv, Approval, MergedApproved, Effect
<1>6. (ExitTrue /\ RetriesTransparent)'
  BY <1>1, Zenon DEF CallsInv, ExitTrue, RetriesTransparent, Effect
<1>7. QED
  BY <1>2, <1>3, <1>4, <1>5, <1>6 DEF CallsInv

LEMMA Fails == CallsInv /\ GivesUp("failed") /\ Effect => CallsInv'
<1> SUFFICES ASSUME CallsInv, GivesUp("failed"), Effect PROVE CallsInv'
  OBVIOUS
<1>1. pc' = "failed" /\ excused' = TRUE /\ attempt' \in 1..MaxAttempts
  BY CallStep DEF CallsInv
<1>2. MergeTypeOK'
  BY <1>1, Zenon DEF CallsInv, MergeTypeOK, Effect
<1>3. (ClosingInv /\ Reasons /\ RetriesTransparent)'
  BY <1>1 DEF ClosingInv, Reasons, RetriesTransparent, PastLook, BeforeLook, RoundPC
<1>4. (Approval /\ MergedApproved /\ ExitTrue)'
  BY <1>1 DEF CallsInv, Approval, MergedApproved, ExitTrue, Effect
<1>5. QED
  BY <1>2, <1>3, <1>4 DEF CallsInv

\* Where the invariant lets the run go on.
Allowed(next) == /\ next \in StartPC \cup RoundPC \cup MergePC \cup {"done", "failed"}
                 /\ next \in PastLook => closing
                 /\ next \in BeforeLook => ~closing
                 /\ next = "relabel" => label' # "absent"
                 /\ next = "verify" => Merged' \/ excused
                 /\ next = "merge" /\ ours' => signed'
                 /\ next \in {"view", "delete", "done"} => Merged'
                 /\ next = "failed" => excused

LEMMA GoesOn ==
  ASSUME CallsInv, Effect, NEW next, Answered(next), Allowed(next)
  PROVE  CallsInv'
<1>1. pc' = next /\ excused' = excused /\ attempt' \in 1..MaxAttempts
  BY CallStep DEF CallsInv
<1>2. MergeTypeOK'
  BY <1>1, Zenon DEF CallsInv, MergeTypeOK, Effect, Allowed
<1>3. ClosingInv'
  BY <1>1, Zenon DEF ClosingInv, Effect, Allowed
<1>4. Reasons'
  BY <1>1, Zenon DEF Reasons, Effect, Allowed
<1>5. (Approval /\ MergedApproved)'
  BY <1>1, Zenon DEF Approval, MergedApproved, Effect, Allowed
<1>6. (ExitTrue /\ RetriesTransparent)'
  BY <1>1, Zenon DEF ExitTrue, RetriesTransparent, Allowed
<1>7. QED
  BY <1>2, <1>3, <1>4, <1>5, <1>6 DEF CallsInv

LEMMA CallEnds ==
  ASSUME CallsInv, Effect, NEW next, Allowed(next), Answered(next) \/ Errs("failed")
  PROVE  CallsInv'
<1>1. CASE Answered(next)
  BY <1>1, GoesOn
<1>2. CASE TryAgain
  BY <1>2, Waits
<1>3. CASE GivesUp("failed")
  BY <1>3, Fails
<1>4. QED
  BY <1>1, <1>2, <1>3 DEF Errs

(***************************************************************************)
(* The actions of the run.                                                 *)
(***************************************************************************)

LEMMA LoginStep == CallsInv /\ Login => CallsInv'
<1> SUFFICES ASSUME CallsInv, Login PROVE CallsInv'
  OBVIOUS
<1> DEFINE next == "config"
<1>1. Effect
  BY NoEffect DEF Login
<1>2. Answered(next) \/ Errs("failed")
  BY DEF Login, Errs
<1>3. Allowed(next)
  BY NoEffect DEF Login, Allowed, CallsInv, prVars, StartPC, RoundPC, MergePC, PastLook, BeforeLook, ClosingInv
<1> HIDE DEF next
<1>4. QED
  BY <1>1, <1>2, <1>3, CallEnds

LEMMA SetConfigStep == CallsInv /\ SetConfig => CallsInv'
<1> SUFFICES ASSUME CallsInv, SetConfig PROVE CallsInv'
  OBVIOUS
<1> DEFINE next == "edit"
<1>1. Effect
  BY NoEffect DEF SetConfig
<1>2. Answered(next) \/ Errs("failed")
  BY DEF SetConfig, Errs
<1>3. Allowed(next)
  BY NoEffect DEF SetConfig, Allowed, CallsInv, prVars, StartPC, RoundPC, MergePC, PastLook, BeforeLook
<1> HIDE DEF next
<1>4. QED
  BY <1>1, <1>2, <1>3, CallEnds

LEMMA FetchCommentsStep == CallsInv /\ FetchComments => CallsInv'
<1> SUFFICES ASSUME CallsInv, FetchComments PROVE CallsInv'
  OBVIOUS
<1> DEFINE next == "codex"
<1>1. Effect
  BY NoEffect DEF FetchComments
<1>2. Answered(next) \/ Errs("failed")
  BY DEF FetchComments, Errs
<1>3. Allowed(next)
  BY NoEffect DEF FetchComments, Allowed, CallsInv, prVars, StartPC, RoundPC, MergePC, PastLook, BeforeLook, ClosingInv
<1> HIDE DEF next
<1>4. QED
  BY <1>1, <1>2, <1>3, CallEnds

LEMMA CodexSessionStep == CallsInv /\ CodexSession => CallsInv'
<1> SUFFICES ASSUME CallsInv, CodexSession PROVE CallsInv'
  OBVIOUS
<1> DEFINE next == "read"
<1>1. Effect
  BY NoEffect DEF CodexSession
<1>2. Answered(next) \/ Errs("failed")
  BY DEF CodexSession, Errs
<1>3. Allowed(next)
  BY NoEffect DEF CodexSession, Allowed, CallsInv, prVars, StartPC, RoundPC, MergePC, PastLook, BeforeLook, ClosingInv
<1> HIDE DEF next
<1>4. QED
  BY <1>1, <1>2, <1>3, CallEnds

LEMMA ReadAnswerStep == CallsInv /\ ReadAnswer => CallsInv'
<1> SUFFICES ASSUME CallsInv, ReadAnswer PROVE CallsInv'
  OBVIOUS
<1> DEFINE next == "commit"
<1>1. Effect
  BY NoEffect DEF ReadAnswer
<1>2. Answered(next) \/ Errs("failed")
  BY DEF ReadAnswer, Errs
<1>3. Allowed(next)
  BY NoEffect DEF ReadAnswer, Allowed, CallsInv, prVars, StartPC, RoundPC, MergePC, PastLook, BeforeLook, ClosingInv
<1> HIDE DEF next
<1>4. QED
  BY <1>1, <1>2, <1>3, CallEnds

LEMMA ReplyStep == CallsInv /\ Reply => CallsInv'
<1> SUFFICES ASSUME CallsInv, Reply PROVE CallsInv'
  OBVIOUS
<1> DEFINE next == "reply"
<1>1. Effect
  BY NoEffect DEF Reply
<1>2. Answered(next) \/ Errs("failed")
  BY DEF Reply, Errs, Answered, TryAgain
<1>3. Allowed(next)
  BY NoEffect DEF Reply, Allowed, CallsInv, prVars, StartPC, RoundPC, MergePC, PastLook, BeforeLook, ClosingInv
<1> HIDE DEF next
<1>4. QED
  BY <1>1, <1>2, <1>3, CallEnds

LEMMA RepliesOverStep == CallsInv /\ RepliesOver => CallsInv'
<1> SUFFICES ASSUME CallsInv, RepliesOver PROVE CallsInv'
  OBVIOUS
<1> DEFINE next == RoundOver
<1>1. Effect
  BY NoEffect DEF RepliesOver
<1>2. Answered(next) \/ Errs("failed")
  BY DEF RepliesOver, Errs
<1>3. Allowed(next)
  BY NoEffect DEF RepliesOver, Allowed, CallsInv, prVars, StartPC, RoundPC, MergePC, PastLook, BeforeLook, ClosingInv, RoundOver
<1> HIDE DEF next
<1>4. QED
  BY <1>1, <1>2, <1>3, CallEnds

LEMMA PrepareMergeStep == CallsInv /\ PrepareMerge => CallsInv'
<1> SUFFICES ASSUME CallsInv, PrepareMerge PROVE CallsInv'
  OBVIOUS
<1> DEFINE next == "head"
<1>1. Effect
  BY NoEffect DEF PrepareMerge
<1>2. Answered(next) \/ Errs("failed")
  BY DEF PrepareMerge, Errs
<1>3. Allowed(next)
  BY NoEffect DEF PrepareMerge, Allowed, CallsInv, prVars, StartPC, RoundPC, MergePC, PastLook, BeforeLook, ClosingInv
<1> HIDE DEF next
<1>4. QED
  BY <1>1, <1>2, <1>3, CallEnds

LEMMA CheckHeadStep == CallsInv /\ CheckHead => CallsInv'
<1> SUFFICES ASSUME CallsInv, CheckHead PROVE CallsInv'
  OBVIOUS
<1> DEFINE next == IF ours THEN "user" ELSE "failed"
<1>1. Effect
  BY NoEffect DEF CheckHead
<1>2. Answered(next) \/ Errs("failed")
  BY DEF CheckHead, Errs
<1>3. Allowed(next)
  BY NoEffect DEF CheckHead, Allowed, CallsInv, prVars, StartPC, RoundPC, MergePC, PastLook, BeforeLook, ClosingInv, Reasons
<1> HIDE DEF next
<1>4. QED
  BY <1>1, <1>2, <1>3, CallEnds

LEMMA AskUserStep == CallsInv /\ AskUser => CallsInv'
<1> SUFFICES ASSUME CallsInv, AskUser PROVE CallsInv'
  OBVIOUS
<1> DEFINE next == "reviews"
<1>1. Effect
  BY NoEffect DEF AskUser
<1>2. Answered(next) \/ Errs("failed")
  BY DEF AskUser, Errs
<1>3. Allowed(next)
  BY NoEffect DEF AskUser, Allowed, CallsInv, prVars, StartPC, RoundPC, MergePC, PastLook, BeforeLook, ClosingInv
<1> HIDE DEF next
<1>4. QED
  BY <1>1, <1>2, <1>3, CallEnds

LEMMA AskReviewsStep == CallsInv /\ AskReviews => CallsInv'
<1> SUFFICES ASSUME CallsInv, AskReviews PROVE CallsInv'
  OBVIOUS
<1> DEFINE next == IF HasApproval THEN "merge" ELSE "approve"
<1>1. Effect
  BY NoEffect DEF AskReviews
<1>2. Answered(next) \/ Errs("failed")
  BY DEF AskReviews, Errs
<1>3. Allowed(next)
  BY NoEffect DEF AskReviews, Allowed, CallsInv, prVars, StartPC, RoundPC, MergePC, PastLook, BeforeLook, ClosingInv, Approval, HasApproval
<1> HIDE DEF next
<1>4. QED
  BY <1>1, <1>2, <1>3, CallEnds

LEMMA VerifyMergeStep == CallsInv /\ VerifyMerge => CallsInv'
<1> SUFFICES ASSUME CallsInv, VerifyMerge PROVE CallsInv'
  OBVIOUS
<1> DEFINE next == IF Merged THEN "view" ELSE "failed"
<1>1. Effect
  BY NoEffect DEF VerifyMerge
<1>2. Answered(next) \/ Errs("failed")
  BY DEF VerifyMerge, Errs
<1>3. Allowed(next)
  BY NoEffect DEF VerifyMerge, Allowed, CallsInv, prVars, StartPC, RoundPC, MergePC, PastLook, BeforeLook, Reasons, Merged
<1> HIDE DEF next
<1>4. QED
  BY <1>1, <1>2, <1>3, CallEnds

LEMMA DeleteBranchStep == CallsInv /\ DeleteBranch => CallsInv'
<1> SUFFICES ASSUME CallsInv, DeleteBranch PROVE CallsInv'
  OBVIOUS
<1> DEFINE next == "done"
<1>1. Effect
  BY NoEffect DEF DeleteBranch
<1>2. Answered(next) \/ Errs("failed")
  BY DEF DeleteBranch, Errs
<1>3. Allowed(next)
  BY NoEffect DEF DeleteBranch, Allowed, CallsInv, prVars, StartPC, RoundPC, MergePC, PastLook, BeforeLook, ExitTrue, Merged
<1> HIDE DEF next
<1>4. QED
  BY <1>1, <1>2, <1>3, CallEnds

\* The label is put on the PR.
LEMMA AddLabelStep ==
  CallsInv /\ AddLabel /\ pc \in {"edit", "relabel"} /\ UNCHANGED <<closing, prVars>> => CallsInv'
<1> SUFFICES ASSUME CallsInv, AddLabel, pc \in {"edit", "relabel"},
                    UNCHANGED <<closing, prVars>>
             PROVE  CallsInv'
  OBVIOUS
<1> DEFINE next == AfterLabel
<1>1. /\ closing' = closing /\ label' = "on"
      /\ pr' = pr /\ ours' = ours /\ review' = review /\ signed' = signed
  BY DEF AddLabel, prVars
<1>2. Effect
  BY <1>1, Zenon
  DEF Effect, CallsInv, MergeTypeOK, Reasons, Approval, MergedApproved, Merged
<1>3. Allowed(next)
  BY DEF Allowed, AfterLabel, CallsInv, MergeTypeOK, StartPC, RoundPC, MergePC, PastLook, BeforeLook
<1>4. Answered(next) \/ Errs("failed")
  BY DEF AddLabel
<1> HIDE DEF next
<1>5. QED
  BY <1>2, <1>3, <1>4, CallEnds

LEMMA EditStep == CallsInv /\ Edit => CallsInv'
<1> SUFFICES ASSUME CallsInv, Edit PROVE CallsInv'
  OBVIOUS
<1>1. CASE AddLabel
  BY <1>1, AddLabelStep DEF Edit
<1>2. CASE (Answered("create") \/ Errs("failed")) /\ UNCHANGED label
  <2>1. Effect
    BY <1>2, NoEffect DEF Edit
  <2>2. Allowed("create")
    BY DEF Allowed, StartPC, RoundPC, PastLook, BeforeLook
  <2>3. QED
    BY <1>2, <2>1, <2>2, CallEnds
<1>3. QED
  BY <1>1, <1>2 DEF Edit

LEMMA CreateStep == CallsInv /\ Create => CallsInv'
<1> SUFFICES ASSUME CallsInv, Create PROVE CallsInv'
  OBVIOUS
<1>1. /\ pc = "create" /\ closing' = closing
      /\ pr' = pr /\ ours' = ours /\ review' = review /\ signed' = signed
  BY DEF Create, prVars
<1>2. label' \in {"absent", "exists", "on"} /\ (label' = "absent" => label = "absent")
  BY DEF Create, CallsInv, MergeTypeOK
<1>3. Effect
  BY <1>1, <1>2, Zenon
  DEF Effect, CallsInv, MergeTypeOK, Reasons, Approval, MergedApproved, Merged
<1>4. CASE Errs("failed")
  <2>1. Allowed("create")
    BY DEF Allowed, StartPC, RoundPC, PastLook, BeforeLook
  <2>2. QED
    BY <1>3, <1>4, <2>1, CallEnds
<1>5. CASE Answered("relabel") /\ label' # "absent"
  <2>1. Allowed("relabel")
    BY <1>5 DEF Allowed, StartPC, RoundPC, PastLook, BeforeLook
  <2>2. QED
    BY <1>3, <1>5, <2>1, CallEnds
<1>6. QED
  BY <1>4, <1>5 DEF Create

LEMMA RelabelStep == CallsInv /\ Relabel => CallsInv'
<1> SUFFICES ASSUME CallsInv, Relabel PROVE CallsInv'
  OBVIOUS
<1>1. CASE AddLabel
  BY <1>1, AddLabelStep DEF Relabel
<1>2. CASE label = "absent" /\ Answered("failed") /\ UNCHANGED label
  <2>1. Effect
    BY <1>2, NoEffect DEF Relabel
  <2>2. Allowed("failed")
    BY <1>2 DEF Relabel, CallsInv, Reasons, Allowed, PastLook, BeforeLook, RoundPC
  <2>3. QED
    BY <1>2, <2>1, <2>2, CallEnds
<1>3. CASE Errs("failed") /\ UNCHANGED label
  <2>1. Effect
    BY <1>3, NoEffect DEF Relabel
  <2>2. CASE TryAgain
    BY <2>1, <2>2, Waits
  <2>3. CASE GivesUp("failed")
    BY <2>1, <2>3, Fails
  <2>4. QED
    BY <1>3, <2>2, <2>3 DEF Errs
<1>4. QED
  BY <1>1, <1>2, <1>3 DEF Relabel

\* A new head of the loop's own.
LEMMA NewHeadEffect ==
  ASSUME CallsInv, NewHead, UNCHANGED <<closing, label>>, pc # "merge"
  PROVE  Effect
<1>1. /\ closing' = closing /\ label' = label /\ ours' = ours /\ pr' = pr /\ pr = "open"
      /\ review' = IF review = "current" THEN "stale" ELSE review
      /\ signed' = (review = "unpinned")
  BY DEF NewHead
<1>2. /\ signed' \in BOOLEAN
      /\ review' \in Approvals \cup {"none", "withdrawn"}
  BY <1>1, Zenon DEF CallsInv, MergeTypeOK, Approvals
<1>3. review' \in {"current", "unpinned"} => review = "unpinned"
  BY <1>1
<1>4. review' \in {"current", "unpinned"} => signed'
  BY <1>1, <1>3, Zenon
<1>5. pr' # "closed" /\ pr' = "open" /\ pr' # "ralph"
  BY <1>1
<1>6. QED
  BY <1>1, <1>2, <1>4, <1>5, Zenon DEF Effect, CallsInv, MergeTypeOK, Reasons, Merged

LEMMA CommitRoundStep == CallsInv /\ CommitRound => CallsInv'
<1> SUFFICES ASSUME CallsInv, CommitRound PROVE CallsInv'
  OBVIOUS
<1>1. ~closing /\ UNCHANGED <<closing, label>> /\ pc # "merge"
  BY DEF CommitRound, CallsInv, ClosingInv, BeforeLook, RoundPC
<1>2. CASE UNCHANGED prVars /\ Answered("comments")
  <2>1. Allowed("comments")
    BY <1>1 DEF Allowed, RoundPC, PastLook
  <2>2. QED
    BY <1>1, <1>2, <2>1, NoEffect, CallEnds
<1>3. CASE UNCHANGED prVars /\ Answered("ready")
  <2>1. Allowed("ready")
    BY <1>1 DEF Allowed, MergePC, PastLook
  <2>2. QED
    BY <1>1, <1>3, <2>1, NoEffect, CallEnds
<1>4. CASE NewHead /\ Answered("reply")
  <2>1. Allowed("reply")
    BY <1>1 DEF Allowed, RoundPC, PastLook
  <2>2. QED
    BY <1>1, <1>4, <2>1, NewHeadEffect, CallEnds
<1>5. CASE UNCHANGED prVars /\ GivesUp("failed")
  BY <1>1, <1>5, NoEffect, Fails
<1>6. QED
  BY <1>2, <1>3, <1>4, <1>5 DEF CommitRound, RoundOver

LEMMA ChecksGreenStep == CallsInv /\ ChecksGreen => CallsInv'
<1> SUFFICES ASSUME CallsInv, ChecksGreen PROVE CallsInv'
  OBVIOUS
<1>1. ~closing /\ UNCHANGED <<closing, label>> /\ pc # "merge"
  BY DEF ChecksGreen, CallsInv, ClosingInv, BeforeLook
<1>2. Effect
  BY <1>1, NoEffect, NewHeadEffect DEF ChecksGreen
<1>3. Allowed("fresh")
  BY <1>1 DEF Allowed, MergePC, PastLook
<1>4. QED
  BY <1>2, <1>3, CallEnds, Fails DEF ChecksGreen

LEMMA FreshViewStep == CallsInv /\ FreshView => CallsInv'
<1> SUFFICES ASSUME CallsInv, FreshView PROVE CallsInv'
  OBVIOUS
<1>1. pc = "fresh" /\ ~closing /\ UNCHANGED <<label, prVars>>
  BY DEF FreshView, CallsInv, ClosingInv, BeforeLook
<1>2. CASE Errs("failed") /\ UNCHANGED closing
  BY <1>1, <1>2, NoEffect, Waits, Fails DEF Errs
<1>3. CASE pr # "open" /\ Answered("failed") /\ UNCHANGED closing
  <2>1. Allowed("failed")
    BY <1>1, <1>3 DEF CallsInv, Reasons, Allowed, PastLook, BeforeLook, RoundPC
  <2>2. QED
    BY <1>1, <1>3, <2>1, NoEffect, CallEnds
<1>4. CASE pr = "open" /\ Answered("edit") /\ closing'
  <2>1. /\ pc' = "edit" /\ excused' = excused /\ attempt' \in 1..MaxAttempts /\ label' = label
        /\ pr' = pr /\ ours' = ours /\ review' = review /\ signed' = signed
    BY <1>1, <1>4, CallStep DEF CallsInv, prVars
  <2>2. closing' \in BOOLEAN
    BY <1>4, Zenon DEF FreshView
  <2>3. MergeTypeOK'
    BY <2>1, <2>2, Zenon DEF CallsInv, MergeTypeOK, StartPC
  <2>4. ClosingInv'
    BY <1>4, <2>1 DEF ClosingInv, BeforeLook, RoundPC
  <2>5. (Reasons /\ Approval /\ MergedApproved /\ ExitTrue /\ RetriesTransparent)'
    BY <1>4, <2>1
    DEF CallsInv, Reasons, Approval, MergedApproved, ExitTrue, RetriesTransparent, Merged
  <2>6. QED
    BY <2>3, <2>4, <2>5 DEF CallsInv
<1>5. QED
  <2>1. CASE Errs("failed") /\ UNCHANGED closing
    BY <1>2, <2>1
  <2>2. CASE Answered(IF pr = "open" THEN "edit" ELSE "failed") /\ closing' = (pr = "open")
    <3>1. CASE pr = "open"
      <4>1. closing'
        BY <2>2, <3>1, Zenon
      <4>2. QED
        BY <2>2, <3>1, <4>1, <1>4
    <3>2. CASE pr # "open"
      <4>1. closing' = FALSE /\ closing = FALSE
        BY <1>1, <2>2, <3>2, Zenon DEF CallsInv, MergeTypeOK
      <4>2. QED
        BY <2>2, <3>2, <4>1, <1>3
    <3>3. QED
      BY <3>1, <3>2
  <2>3. QED
    BY <2>1, <2>2 DEF FreshView

LEMMA ApproveStep == CallsInv /\ Approve => CallsInv'
<1> SUFFICES ASSUME CallsInv, Approve PROVE CallsInv'
  OBVIOUS
<1>1. /\ pc = "approve" /\ closing /\ closing' = closing /\ label' = label
      /\ pr' = pr /\ ours' = ours
  BY DEF Approve, CallsInv, ClosingInv, PastLook
<1>2. CASE /\ review' = IF ours THEN "current" ELSE "stale"
           /\ signed' = (signed \/ ours)
           /\ Answered("merge") \/ Errs("failed")
  <2>1. signed' \in BOOLEAN /\ (ours => signed') /\ (signed => signed')
    BY <1>2, Zenon DEF CallsInv, MergeTypeOK
  <2>2. /\ review' \in Approvals \cup {"none", "withdrawn"}
        /\ review' \in {"current", "unpinned"} => ours
    BY <1>2 DEF Approvals
  <2>3. Effect
    BY <1>1, <2>1, <2>2, Zenon
    DEF Effect, CallsInv, MergeTypeOK, Reasons, MergedApproved, Merged
  <2>4. Allowed("merge")
    BY <1>1, <2>1 DEF Allowed, MergePC, BeforeLook, RoundPC
  <2>5. QED
    BY <1>2, <2>3, <2>4, CallEnds
<1>3. CASE /\ UNCHANGED <<review, signed>>
           /\ (review = "current" /\ Answered("merge")) \/ Errs("failed")
  <2>1. Effect
    BY <1>1, <1>3, NoEffect DEF prVars
  <2>2. CASE review = "current" /\ Answered("merge")
    <3>1. Allowed("merge")
      BY <1>1, <1>3, <2>2 DEF CallsInv, Approval, Allowed, MergePC, BeforeLook, RoundPC
    <3>2. QED
      BY <2>1, <2>2, <3>1, CallEnds
  <2>3. CASE Errs("failed")
    BY <2>1, <2>3, Waits, Fails DEF Errs
  <2>4. QED
    BY <1>3, <2>2, <2>3
<1>4. QED
  BY <1>2, <1>3 DEF Approve

\* A merge that is given up is looked at.
LEMMA VerifyGiveUp == CallsInv /\ pc = "merge" /\ GivesUp("verify") /\ Effect => CallsInv'
<1> SUFFICES ASSUME CallsInv, pc = "merge", GivesUp("verify"), Effect PROVE CallsInv'
  OBVIOUS
<1>1. pc' = "verify" /\ excused' = TRUE /\ attempt' \in 1..MaxAttempts
  BY CallStep DEF CallsInv
<1>2. pc' \in MergePC
  BY <1>1 DEF MergePC
<1>3. MergeTypeOK'
  BY <1>1, <1>2, Zenon DEF CallsInv, MergeTypeOK, Effect
<1>4. ClosingInv'
  BY <1>1 DEF CallsInv, ClosingInv, PastLook, BeforeLook, RoundPC, Effect
<1>5. (Reasons /\ RetriesTransparent)'
  BY <1>1 DEF Reasons, RetriesTransparent
<1>6. (Approval /\ MergedApproved /\ ExitTrue)'
  BY <1>1 DEF Approval, MergedApproved, ExitTrue, Effect
<1>7. QED
  BY <1>3, <1>4, <1>5, <1>6 DEF CallsInv

LEMMA MergeStep == CallsInv /\ Merge => CallsInv'
<1> SUFFICES ASSUME CallsInv, Merge PROVE CallsInv'
  OBVIOUS
<1>1. /\ pc = "merge" /\ closing /\ closing' = closing /\ label' = label
      /\ ours' = ours /\ review' = review /\ signed' = signed
  BY DEF Merge, CallsInv, ClosingInv, PastLook
<1>2. CASE ours /\ pr' = "ralph"
  <2>1. signed
    BY <1>1, <1>2 DEF CallsInv, Approval
  <2>2. pr' # "closed" /\ Merged'
    BY <1>2 DEF Merged
  <2>3. Effect
    BY <1>1, <1>2, <2>1, <2>2, Zenon DEF Effect, CallsInv, MergeTypeOK, Approval
  <2>4. Allowed("view") /\ Allowed("verify")
    BY <1>1, <2>2 DEF Allowed, MergePC, PastLook, BeforeLook, RoundPC
  <2>5. CASE TryAgain
    BY <2>3, <2>5, Waits
  <2>6. CASE Answered("view")
    BY <2>3, <2>4, <2>6, CallEnds
  <2>7. CASE GivesUp("verify")
    BY <1>1, <2>3, <2>7, VerifyGiveUp
  <2>8. CASE Answered("verify")
    BY <2>3, <2>4, <2>8, CallEnds
  <2>9. QED
    BY <1>2, <2>5, <2>6, <2>7, <2>8 DEF Merge, Errs
<1>3. CASE UNCHANGED pr
  <2>1. Effect
    BY <1>1, <1>3, NoEffect DEF prVars
  <2>2. CASE (pr # "open" \/ ~ours) /\ Answered("verify")
    <3>1. Merged' \/ excused
      BY <1>3, <2>2 DEF CallsInv, MergeTypeOK, Reasons, Merged
    <3>2. Allowed("verify")
      BY <1>1, <3>1 DEF Allowed, MergePC, BeforeLook, RoundPC
    <3>3. QED
      BY <2>1, <2>2, <3>2, CallEnds
  <2>3. CASE TryAgain
    BY <2>1, <2>3, Waits
  <2>4. CASE GivesUp("verify")
    BY <1>1, <2>1, <2>4, VerifyGiveUp
  <2>5. CASE pr = "open" /\ pr' = "ralph"
    BY <1>3, <2>5
  <2>6. QED
    BY <2>2, <2>3, <2>4, <2>5 DEF Merge, Errs
<1>4. QED
  BY <1>2, <1>3 DEF Merge

LEMMA ViewBranchStep == CallsInv /\ ViewBranch => CallsInv'
<1> SUFFICES ASSUME CallsInv, ViewBranch PROVE CallsInv'
  OBVIOUS
<1>1. Effect
  BY NoEffect DEF ViewBranch
<1>2. Allowed("delete") /\ Allowed("done")
  BY NoEffect
  DEF ViewBranch, CallsInv, ExitTrue, Merged, prVars, Allowed, MergePC, PastLook, BeforeLook,
      RoundPC
<1>3. QED
  BY <1>1, <1>2, CallEnds, Waits DEF ViewBranch

LEMMA CutStep == CallsInv /\ Cut => CallsInv'
<1> SUFFICES ASSUME CallsInv, Cut PROVE CallsInv'
  OBVIOUS
<1>1. Effect
  BY NoEffect DEF Cut
<1>2. CASE pc \in {"view", "delete"}
  <2>1. Allowed("done")
    BY <1>2, NoEffect
    DEF Cut, CallsInv, ExitTrue, Merged, prVars, Allowed, PastLook, BeforeLook, RoundPC
  <2>2. QED
    BY <1>1, <1>2, <2>1, CallEnds DEF Cut
<1>3. CASE pc \notin {"view", "delete"}
  BY <1>1, <1>3, Fails DEF Cut
<1>4. QED
  BY <1>2, <1>3

(***************************************************************************)
(* People and other loops.                                                 *)
(***************************************************************************)

LEMMA LabelCreatedStep == CallsInv /\ LabelCreated => CallsInv'
  BY DEF LabelCreated, Others, CallsInv, MergeTypeOK, ClosingInv, Reasons, Approval, MergedApproved,
         ExitTrue, RetriesTransparent, StartPC, RoundPC, MergePC, PastLook, BeforeLook, Approvals,
         Merged, prVars

LEMMA LabelDeletedStep == CallsInv /\ LabelDeleted => CallsInv'
  BY DEF LabelDeleted, Others, CallsInv, MergeTypeOK, ClosingInv, Reasons, Approval, MergedApproved,
         ExitTrue, RetriesTransparent, StartPC, RoundPC, MergePC, PastLook, BeforeLook, Approvals,
         Merged, prVars

LEMMA CloseOrReopenStep == CallsInv /\ CloseOrReopen => CallsInv'
  BY DEF CloseOrReopen, Others, CallsInv, MergeTypeOK, ClosingInv, Reasons, Approval, MergedApproved,
         ExitTrue, RetriesTransparent, StartPC, RoundPC, MergePC, PastLook, BeforeLook, Approvals,
         Merged, prVars

LEMMA PersonMergesStep == CallsInv /\ PersonMerges => CallsInv'
  BY DEF PersonMerges, Others, CallsInv, MergeTypeOK, ClosingInv, Reasons, Approval, MergedApproved,
         ExitTrue, RetriesTransparent, StartPC, RoundPC, MergePC, PastLook, BeforeLook, Approvals,
         Merged, prVars

LEMMA PushStep == CallsInv /\ Push => CallsInv'
<1> SUFFICES ASSUME CallsInv, Push PROVE CallsInv'
  OBVIOUS
<1>1. /\ pc' = pc /\ attempt' = attempt /\ closing' = closing /\ label' = label
      /\ pr' = pr /\ pr = "open" /\ ours' = FALSE /\ excused' = TRUE
      /\ review' = IF review = "current" THEN "stale" ELSE review
      /\ signed' = (review = "unpinned")
  BY DEF Push, Others
<1>2. /\ review' \in Approvals \cup {"none", "withdrawn"}
      /\ review' \in {"current", "unpinned"} => review = "unpinned"
  BY <1>1 DEF CallsInv, MergeTypeOK, Approvals
<1>3. signed' \in BOOLEAN /\ (review = "unpinned" => signed')
  BY <1>1, Zenon
<1>4. MergeTypeOK'
  BY <1>1, <1>2, <1>3, Zenon DEF CallsInv, MergeTypeOK
<1>5. (ClosingInv /\ Reasons /\ RetriesTransparent)'
  BY <1>1, Zenon DEF CallsInv, ClosingInv, Reasons, RetriesTransparent
<1>6. Approval'
  BY <1>1, <1>2, <1>3, Zenon DEF Approval
<1>7. (MergedApproved /\ ExitTrue)'
  BY <1>1 DEF CallsInv, MergedApproved, ExitTrue, Merged
<1>8. QED
  BY <1>4, <1>5, <1>6, <1>7 DEF CallsInv

LEMMA ReviewedStep == CallsInv /\ Reviewed => CallsInv'
<1> SUFFICES ASSUME CallsInv, Reviewed PROVE CallsInv'
  OBVIOUS
<1>1. /\ pc' = pc /\ attempt' = attempt /\ closing' = closing /\ label' = label
      /\ pr' = pr /\ ~Merged /\ ours' = ours /\ excused' = excused
      /\ \/ review' = "current" /\ signed' = TRUE
         \/ review' = "withdrawn" /\ signed' = signed
  BY DEF Reviewed, Others
<1>2. /\ review' \in Approvals \cup {"none", "withdrawn"}
      /\ review' \in {"current", "unpinned"} => signed'
  BY <1>1 DEF Approvals
<1>3. signed' \in BOOLEAN /\ (signed => signed')
  <2>1. CASE signed' = TRUE
    BY <2>1
  <2>2. CASE signed' = signed
    BY <2>2, Zenon DEF CallsInv, MergeTypeOK
  <2>3. QED
    BY <1>1, <2>1, <2>2
<1>4. MergeTypeOK'
  BY <1>1, <1>2, <1>3, Zenon DEF CallsInv, MergeTypeOK
<1>5. (ClosingInv /\ Reasons /\ RetriesTransparent)'
  BY <1>1, Zenon DEF CallsInv, ClosingInv, Reasons, RetriesTransparent, Merged
<1>6. Approval'
  BY <1>1, <1>2, <1>3, Zenon DEF CallsInv, Approval
<1>7. (MergedApproved /\ ExitTrue)'
  BY <1>1, <1>3, Zenon DEF CallsInv, MergedApproved, ExitTrue, Merged
<1>8. QED
  BY <1>4, <1>5, <1>6, <1>7 DEF CallsInv

(***************************************************************************)
(* Theorems.                                                               *)
(***************************************************************************)

LEMMA CallsInvStep == CallsInv /\ [Next]_vars => CallsInv'
<1> SUFFICES ASSUME CallsInv, [Next]_vars PROVE CallsInv'
  OBVIOUS
<1>1. CASE LoopStep
  BY <1>1, LoginStep, SetConfigStep, EditStep, CreateStep, RelabelStep, FetchCommentsStep,
     CodexSessionStep, ReadAnswerStep, CommitRoundStep, ReplyStep, RepliesOverStep,
     ChecksGreenStep, FreshViewStep, PrepareMergeStep, CheckHeadStep, AskUserStep,
     AskReviewsStep, ApproveStep, MergeStep, VerifyMergeStep, ViewBranchStep,
     DeleteBranchStep, CutStep
  DEF LoopStep
<1>2. CASE OthersStep
  BY <1>2, LabelCreatedStep, LabelDeletedStep, PushStep, CloseOrReopenStep, PersonMergesStep,
     ReviewedStep
  DEF OthersStep
<1>3. CASE UNCHANGED vars
  <2>1. /\ pc' = pc /\ attempt' = attempt /\ excused' = excused /\ closing' = closing
        /\ label' = label /\ pr' = pr /\ ours' = ours /\ review' = review /\ signed' = signed
    BY <1>3 DEF vars, callVars, prVars
  <2>2. QED
    BY <2>1, Zenon
    DEF CallsInv, MergeTypeOK, ClosingInv, Reasons, Approval, MergedApproved, ExitTrue,
        RetriesTransparent, Merged
<1>4. QED
  BY <1>1, <1>2, <1>3 DEF Next

LEMMA CallsInvHolds == Spec => []CallsInv
  BY InitCalls, CallsInvStep, PTL DEF Spec

\* What the run merges, its account has approved.
THEOREM MergeIsApproved == Spec => []MergedApproved
<1>1. CallsInv => MergedApproved
  BY DEF CallsInv
<1>2. QED
  BY <1>1, CallsInvHolds, PTL

\* The run ends well only if the PR is merged.
THEOREM ExitIsTrue == Spec => []ExitTrue
<1>1. CallsInv => ExitTrue
  BY DEF CallsInv
<1>2. QED
  BY <1>1, CallsInvHolds, PTL

\* Lost answers, label races and another's merge never fail a run.
THEOREM RetriesAreTransparent == Spec => []RetriesTransparent
<1>1. CallsInv => RetriesTransparent
  BY DEF CallsInv
<1>2. QED
  BY <1>1, CallsInvHolds, PTL

(***************************************************************************)
(* The rounds.  A comment is in todo once.  While it is, all that is on    *)
(* GitHub of the replies to it is unheard, and less than the attempts made.*)
(***************************************************************************)
Once(s) == \A i, j \in 1..Len(s) : s[i] = s[j] => i = j

RoundTypeOK == /\ round \in 0..MaxRounds
               /\ message \in Messages
               /\ passed \in BOOLEAN
               /\ todo \in Seq(Comments)
               /\ pushed \in BOOLEAN
               /\ posted \in [Comments -> 0..MaxAttempts]
               /\ unheard \in [Comments -> 0..MaxAttempts]

\* Between the rounds, no reply is counted.
Quiet == pc \notin {"reply", "failed"} => posted = None /\ unheard = None /\ ~pushed

Replying == pc = "reply" => /\ pushed
                            /\ \A i \in 1..Len(todo) : posted[todo[i]] = unheard[todo[i]]
                            /\ todo # <<>> => posted[todo[1]] < attempt
                            /\ \A i \in 2..Len(todo) : posted[todo[i]] = 0

Heard == \A c \in Comments : unheard[c] <= posted[c]

RoundInv == RoundTypeOK /\ Once(todo) /\ Quiet /\ Replying /\ Heard /\ RepliesHonest

LEMMA MessageForm == <<>> \in Messages /\ Messages \subseteq Seq(Line)
<1>1. 0 \in 0..MaxLines /\ <<>> \in [1..0 -> Line]
  BY BoundsNat
<1>2. \A n \in 0..MaxLines : [1..n -> Line] \subseteq Seq(Line)
  BY BoundsNat
<1>3. QED
  BY <1>1, <1>2 DEF Messages

LEMMA RoundInit == Init => RoundInv
<1> SUFFICES ASSUME Init PROVE RoundInv
  OBVIOUS
<1>1. /\ pc = "login" /\ round = 0 /\ message = <<>> /\ passed = FALSE /\ todo = <<>>
      /\ pushed = FALSE /\ posted = None /\ unheard = None
  BY DEF Init
<1>2. None \in [Comments -> 0..MaxAttempts] /\ \A c \in Comments : None[c] = 0
  BY MaxAttemptsPositive DEF None
<1>3. RoundTypeOK
  <2>1. round \in 0..MaxRounds /\ todo \in Seq(Comments)
    BY <1>1, BoundsNat
  <2>2. QED
    BY <1>1, <1>2, <2>1, MessageForm, Zenon DEF RoundTypeOK
<1>4. Once(todo) /\ Quiet /\ Replying
  BY <1>1 DEF Once, Quiet, Replying
<1>5. Heard /\ RepliesHonest
  BY <1>1, <1>2 DEF Heard, RepliesHonest
<1>6. QED
  BY <1>3, <1>4, <1>5 DEF RoundInv

\* Outside the loop over the replies, an action that leaves the round alone.
LEMMA RoundKept ==
  ASSUME RoundInv, UNCHANGED roundVars,
         \/ pc' = pc /\ attempt' = attempt
         \/ pc \notin {"reply", "failed"} /\ pc' # "reply"
         \/ pc' = "failed"
  PROVE  RoundInv'
<1>1. /\ round' = round /\ message' = message /\ passed' = passed /\ todo' = todo
      /\ pushed' = pushed /\ posted' = posted /\ unheard' = unheard
  BY DEF roundVars
<1>2. RoundTypeOK' /\ Once(todo)' /\ Heard' /\ RepliesHonest'
  BY <1>1, Zenon DEF RoundInv, RoundTypeOK, Once, Heard, RepliesHonest
<1>3. Quiet' /\ Replying'
  <2>1. CASE pc' = pc /\ attempt' = attempt
    BY <1>1, <2>1, Zenon DEF RoundInv, Quiet, Replying
  <2>2. CASE pc \notin {"reply", "failed"} /\ pc' # "reply"
    BY <1>1, <2>2, Zenon DEF RoundInv, Quiet, Replying
  <2>3. CASE pc' = "failed"
    BY <2>3 DEF Quiet, Replying
  <2>4. QED
    BY <2>1, <2>2, <2>3
<1>4. QED
  BY <1>2, <1>3 DEF RoundInv

\* The calls before and after the rounds.
CallsAside == \/ Login \/ SetConfig \/ Edit \/ Create \/ Relabel
              \/ ChecksGreen \/ FreshView \/ PrepareMerge \/ CheckHead \/ AskUser \/ AskReviews
              \/ Approve \/ Merge \/ VerifyMerge \/ ViewBranch \/ DeleteBranch

LEMMA CallsAsideKeep ==
  ASSUME CallsAside
  PROVE  UNCHANGED roundVars /\ pc \notin {"reply", "failed", "read"} /\ pc' # "reply"
<1> USE DEF Errs, Answered, GivesUp, TryAgain, Over
<1>1. CASE Login \/ SetConfig \/ PrepareMerge \/ AskUser
  BY <1>1 DEF Login, SetConfig, PrepareMerge, AskUser
<1>2. CASE Edit \/ Create \/ Relabel
  BY <1>2 DEF Edit, Create, Relabel, AddLabel, AfterLabel
<1>3. CASE ChecksGreen \/ FreshView \/ CheckHead \/ AskReviews
  BY <1>3 DEF ChecksGreen, FreshView, CheckHead, AskReviews
<1>4. CASE Approve \/ Merge
  BY <1>4 DEF Approve, Merge
<1>5. CASE VerifyMerge \/ ViewBranch \/ DeleteBranch
  BY <1>5 DEF VerifyMerge, ViewBranch, DeleteBranch
<1>6. QED
  BY <1>1, <1>2, <1>3, <1>4, <1>5 DEF CallsAside

LEMMA OthersKeep == OthersStep => UNCHANGED <<pc, attempt, roundVars>>
  BY DEF OthersStep, LabelCreated, LabelDeleted, Push, CloseOrReopen, PersonMerges, Reviewed, Others

\* Steps of a round that count no reply.
LEMMA RoundMoves ==
  ASSUME RoundInv, UNCHANGED <<posted, unheard>>,
         RoundTypeOK', Once(todo)',
         pc \notin {"reply", "failed"},
         pc' = "reply" => pushed' /\ attempt' \in 1..MaxAttempts,
         pc' \notin {"reply", "failed"} => ~pushed'
  PROVE  RoundInv'
<1>1. /\ posted' = None /\ unheard' = None
      /\ \A c \in Comments : None[c] = 0
  BY DEF RoundInv, Quiet, None
<1>2. Quiet'
  BY <1>1 DEF Quiet
<1>3. Heard' /\ RepliesHonest'
  BY <1>1 DEF Heard, RepliesHonest
<1>4. Replying'
  <2>1. SUFFICES ASSUME pc' = "reply" PROVE Replying'
    BY DEF Replying
  <2>2. \A i \in 1..Len(todo') : todo'[i] \in Comments
    BY DEF RoundTypeOK
  <2>3. \A i \in 1..Len(todo') : posted'[todo'[i]] = 0 /\ unheard'[todo'[i]] = 0
    BY <1>1, <2>2
  <2>4. todo' # <<>> => 1 \in 1..Len(todo')
    BY DEF RoundTypeOK
  <2>5. attempt' > 0
    BY <2>1
  <2>6. \A i \in 2..Len(todo') : i \in 1..Len(todo')
    BY DEF RoundTypeOK
  <2>7. QED
    BY <2>1, <2>3, <2>4, <2>5, <2>6 DEF Replying
<1>5. QED
  BY <1>2, <1>3, <1>4 DEF RoundInv

LEMMA FetchCommentsKeeps == RoundInv /\ FetchComments => RoundInv'
<1> SUFFICES ASSUME RoundInv, FetchComments PROVE RoundInv'
  OBVIOUS
<1>1. /\ pc = "comments" /\ pc' \in {"comments", "codex", "failed"} /\ round' \in 0..MaxRounds
      /\ UNCHANGED <<message, passed, todo, pushed, posted, unheard>>
  BY BoundsNat DEF FetchComments, RoundInv, RoundTypeOK, Answered, TryAgain, GivesUp, Over
<1>2. RoundTypeOK' /\ Once(todo)'
  BY <1>1, Zenon DEF RoundInv, RoundTypeOK, Once
<1>3. ~pushed'
  BY <1>1 DEF RoundInv, Quiet
<1>4. QED
  BY <1>1, <1>2, <1>3, RoundMoves

LEMMA CodexSessionKeeps == RoundInv /\ CodexSession => RoundInv'
<1> SUFFICES ASSUME RoundInv, CodexSession PROVE RoundInv'
  OBVIOUS
<1>1. /\ pc = "codex" /\ pc' \in {"read", "failed"} /\ message' \in Messages
      /\ UNCHANGED <<round, passed, todo, pushed, posted, unheard>>
  BY DEF CodexSession, RoundInv, RoundTypeOK, Answered, GivesUp, Over
<1>2. RoundTypeOK' /\ Once(todo)'
  BY <1>1, Zenon DEF RoundInv, RoundTypeOK, Once
<1>3. ~pushed'
  BY <1>1 DEF RoundInv, Quiet
<1>4. QED
  BY <1>1, <1>2, <1>3, RoundMoves

LEMMA ShownIsAnswer == message \in Messages => Shown(message) \in Answers
<1> SUFFICES ASSUME message \in Messages PROVE Shown(message) \in Answers
  OBVIOUS
<1>1. message \in Seq(Line)
  BY MessageForm
<1>2. CASE message = <<>>
  BY <1>2, MaxShownPositive DEF Shown, Answers
<1>3. CASE message # <<>>
  BY <1>1, <1>3, ShownLast DEF Answers
<1>4. QED
  BY <1>2, <1>3

LEMMA ReadAnswerKeeps == RoundInv /\ ReadAnswer => RoundInv'
<1> SUFFICES ASSUME RoundInv, ReadAnswer PROVE RoundInv'
  OBVIOUS
<1>1. /\ pc = "read" /\ pc' \in {"commit", "failed"} /\ message' = <<>>
      /\ UNCHANGED <<round, pushed, posted, unheard>>
      /\ \/ UNCHANGED <<passed, todo>>
         \/ passed' = (Verdict(Shown(message)) = "yes") /\ todo' = Addressed(Shown(message))
  BY DEF ReadAnswer, Answered, GivesUp, Over
<1>2. Shown(message) \in Answers
  BY ShownIsAnswer DEF RoundInv, RoundTypeOK
<1>3. passed' \in BOOLEAN
  BY <1>1, Zenon DEF RoundInv, RoundTypeOK
<1>4. todo' \in Seq(Comments) /\ Once(todo')
  <2>1. CASE todo' = todo
    BY <2>1 DEF RoundInv, RoundTypeOK
  <2>2. CASE todo' = Addressed(Shown(message))
    BY <1>2, <2>2, AddressedIsClaimed DEF Once
  <2>3. QED
    BY <1>1, <2>1, <2>2
<1>5. RoundTypeOK'
  BY <1>1, <1>3, <1>4, MessageForm, Zenon DEF RoundInv, RoundTypeOK
<1>6. Once(todo)'
  BY <1>4 DEF Once
<1>7. ~pushed'
  BY <1>1 DEF RoundInv, Quiet
<1>8. QED
  BY <1>1, <1>5, <1>6, <1>7, RoundMoves

LEMMA CommitRoundKeeps == RoundInv /\ CommitRound /\ CallsInv' => RoundInv'
<1> SUFFICES ASSUME RoundInv, CommitRound, CallsInv' PROVE RoundInv'
  OBVIOUS
<1>1. pc = "commit" /\ UNCHANGED <<round, message, posted, unheard>>
  BY DEF CommitRound
<1>2. /\ pushed' \in BOOLEAN /\ passed' \in BOOLEAN /\ todo' \in Seq(Comments) /\ Once(todo')
      /\ pc' = "reply" => pushed'
      /\ pc' \notin {"reply", "failed"} => ~pushed'
  <2>1. CASE passed' = FALSE /\ todo' = <<>> /\ UNCHANGED pushed /\ pc' \in {"comments", "ready"}
    <3>1. ~pushed
      BY <1>1, Zenon DEF RoundInv, Quiet
    <3>2. pushed' = FALSE
      BY <2>1, <3>1, Zenon DEF RoundInv, RoundTypeOK
    <3>3. todo' \in Seq(Comments) /\ Once(todo')
      BY <2>1 DEF Once
    <3>4. pc' # "reply"
      BY <2>1
    <3>5. QED
      BY <2>1, <3>2, <3>3, <3>4, Zenon
  <2>2. CASE pushed' = TRUE /\ pc' = "reply" /\ UNCHANGED <<passed, todo>>
    BY <2>2 DEF RoundInv, RoundTypeOK
  <2>3. CASE pc' = "failed" /\ UNCHANGED <<pushed, passed, todo>>
    BY <2>3 DEF RoundInv, RoundTypeOK
  <2>4. QED
    BY <2>1, <2>2, <2>3 DEF CommitRound, RoundOver, Answered, GivesUp, Over
<1>3. RoundTypeOK'
  BY <1>1, <1>2, Zenon DEF RoundInv, RoundTypeOK
<1>4. Once(todo)'
  BY <1>2 DEF Once
<1>5. attempt' \in 1..MaxAttempts
  BY DEF CallsInv, MergeTypeOK
<1>6. QED
  BY <1>1, <1>2, <1>3, <1>4, <1>5, RoundMoves

LEMMA HeadAndTail ==
  ASSUME NEW s \in Seq(Comments), s # <<>>, Once(s)
  PROVE  /\ Head(s) = s[1] /\ s[1] \in Comments
         /\ Tail(s) \in Seq(Comments) /\ Len(Tail(s)) = Len(s) - 1 /\ Once(Tail(s))
         /\ \A i \in 1..Len(s) - 1 : Tail(s)[i] = s[i + 1] /\ s[i + 1] # s[1]
<1>1. /\ Head(s) = s[1] /\ s[1] \in Comments /\ Len(s) \in Nat \ {0}
      /\ Tail(s) \in Seq(Comments) /\ Len(Tail(s)) = Len(s) - 1
      /\ \A i \in 1..Len(s) - 1 : Tail(s)[i] = s[i + 1]
  OBVIOUS
<1>2. \A i \in 1..Len(s) - 1 : s[i + 1] # s[1]
  BY <1>1 DEF Once
<1>3. Once(Tail(s))
  <2> SUFFICES ASSUME NEW i \in 1..Len(s) - 1, NEW j \in 1..Len(s) - 1,
                      Tail(s)[i] = Tail(s)[j]
               PROVE  i = j
    BY <1>1 DEF Once
  <2>1. i + 1 \in 1..Len(s) /\ j + 1 \in 1..Len(s) /\ s[i + 1] = s[j + 1]
    BY <1>1
  <2>2. i + 1 = j + 1
    BY <2>1 DEF Once
  <2>3. QED
    BY <1>1, <2>2
<1>4. QED
  BY <1>1, <1>2, <1>3

\* What a reply does: to the counts of the comment it is to, to the list, to the attempts.
LEMMA ReplyCases ==
  ASSUME Reply
  PROVE  /\ pc = "reply" /\ todo # <<>> /\ pc' = "reply"
         /\ UNCHANGED <<round, message, passed, pushed>>
         /\ \/ todo' = Tail(todo) /\ attempt' = 1
            \/ todo' = todo /\ attempt < MaxAttempts /\ attempt' = attempt + 1
         /\ \/ UNCHANGED <<posted, unheard>>
            \/ /\ posted' = [posted EXCEPT ![Head(todo)] = @ + 1]
               /\ \/ UNCHANGED unheard /\ todo' = Tail(todo)
                  \/ unheard' = [unheard EXCEPT ![Head(todo)] = @ + 1]
  BY DEF Reply, Over, TryAgain

LEMMA ReplyKeeps == CallsInv /\ RoundInv /\ Reply => RoundInv'
<1> SUFFICES ASSUME CallsInv, RoundInv, Reply PROVE RoundInv'
  OBVIOUS
<1> DEFINE d == Head(todo)
<1>1. /\ pc = "reply" /\ todo # <<>> /\ pc' = "reply"
      /\ round' = round /\ message' = message /\ passed' = passed /\ pushed' = pushed
  BY ReplyCases
<1>2. /\ d = todo[1] /\ d \in Comments
      /\ Tail(todo) \in Seq(Comments) /\ Len(Tail(todo)) = Len(todo) - 1 /\ Once(Tail(todo))
      /\ \A i \in 1..Len(todo) - 1 : Tail(todo)[i] = todo[i + 1] /\ todo[i + 1] # d
  BY <1>1, HeadAndTail DEF RoundInv, RoundTypeOK
<1>3. /\ Len(todo) \in Nat /\ 1 \in 1..Len(todo)
      /\ \A i \in 1..Len(todo) - 1 : i + 1 \in 2..Len(todo) /\ i + 1 \in 1..Len(todo)
      /\ \A i \in 1..Len(todo) : todo[i] \in Comments
  BY <1>1 DEF RoundInv, RoundTypeOK
<1>4. /\ pushed
      /\ \A i \in 1..Len(todo) : posted[todo[i]] = unheard[todo[i]]
      /\ posted[d] < attempt
      /\ \A i \in 2..Len(todo) : posted[todo[i]] = 0
  BY <1>1, <1>2 DEF RoundInv, Replying
<1>5. /\ posted \in [Comments -> 0..MaxAttempts] /\ unheard \in [Comments -> 0..MaxAttempts]
      /\ attempt \in 1..MaxAttempts /\ MaxAttempts \in Nat
      /\ posted[d] = unheard[d]
  BY <1>2, <1>3, <1>4, MaxAttemptsPositive DEF CallsInv, MergeTypeOK, RoundInv, RoundTypeOK
<1> HIDE DEF d
<1>6. /\ posted' \in [Comments -> 0..MaxAttempts] /\ unheard' \in [Comments -> 0..MaxAttempts]
      /\ \A c \in Comments \ {d} : posted'[c] = posted[c] /\ unheard'[c] = unheard[c]
      /\ posted'[d] \in {posted[d], posted[d] + 1}
      /\ unheard'[d] <= posted'[d] /\ posted'[d] <= 1 + unheard'[d]
      /\ todo' # Tail(todo) => posted'[d] = unheard'[d]
  <2>1. CASE UNCHANGED <<posted, unheard>>
    BY <1>2, <1>5, <2>1
  <2>2. CASE posted' = [posted EXCEPT ![d] = @ + 1] /\ unheard' = unheard /\ todo' = Tail(todo)
    BY <1>2, <1>4, <1>5, <2>2
  <2>3. CASE /\ posted' = [posted EXCEPT ![d] = @ + 1]
             /\ unheard' = [unheard EXCEPT ![d] = @ + 1]
    BY <1>2, <1>4, <1>5, <2>3
  <2>4. QED
    BY <2>1, <2>2, <2>3, ReplyCases DEF d
<1>7. todo' \in Seq(Comments) /\ Once(todo')
  BY <1>2, ReplyCases DEF RoundInv, RoundTypeOK
<1>8. RoundTypeOK' /\ Once(todo)'
  BY <1>1, <1>6, <1>7, Zenon DEF RoundInv, RoundTypeOK, Once
<1>9. Heard' /\ RepliesHonest'
  <2>1. ASSUME NEW c \in Comments
        PROVE  unheard'[c] <= posted'[c] /\ posted'[c] <= 1 + unheard'[c]
    <3>1. CASE c = d
      BY <1>6, <3>1
    <3>2. CASE c # d
      <4>1. unheard[c] <= posted[c] /\ (posted[c] > 0 => posted[c] <= 1 + unheard[c])
        BY DEF RoundInv, Heard, RepliesHonest
      <4>2. posted[c] \in Nat /\ unheard[c] \in Nat
        BY <1>5
      <4>3. QED
        BY <1>6, <3>2, <4>1, <4>2
    <3>3. QED
      BY <3>1, <3>2
  <2>2. QED
    BY <1>1, <1>4, <2>1 DEF Heard, RepliesHonest
<1>10. Quiet'
  BY <1>1 DEF Quiet
<1>11. Replying'
  <2>1. CASE todo' = Tail(todo) /\ attempt' = 1
    <3>1. \A i \in 1..Len(todo') : posted'[todo'[i]] = 0 /\ unheard'[todo'[i]] = 0
      <4> SUFFICES ASSUME NEW i \in 1..Len(todo')
                   PROVE  posted'[todo'[i]] = 0 /\ unheard'[todo'[i]] = 0
        OBVIOUS
      <4>1. i \in 1..Len(todo) - 1 /\ i + 1 \in 2..Len(todo) /\ i + 1 \in 1..Len(todo)
        BY <1>2, <1>3, <2>1
      <4>2. todo'[i] = todo[i + 1] /\ todo'[i] \in Comments \ {d}
        BY <1>2, <1>3, <2>1, <4>1
      <4>3. QED
        BY <1>4, <1>6, <4>1, <4>2
    <3>2. /\ todo' # <<>> => 1 \in 1..Len(todo')
          /\ \A i \in 2..Len(todo') : i \in 1..Len(todo')
      BY <1>7
    <3>3. QED
      BY <1>1, <1>4, <2>1, <3>1, <3>2 DEF Replying
  <2>2. CASE todo' = todo /\ todo # Tail(todo) /\ attempt' = attempt + 1
    <3>1. posted'[d] = unheard'[d] /\ posted'[d] < attempt'
      <4>1. posted[d] \in Nat /\ attempt \in Nat
        BY <1>2, <1>5
      <4>2. posted'[d] < attempt'
        BY ONLY <1>4, <1>6, <2>2, <4>1
      <4>3. QED
        BY <1>6, <2>2, <4>2
    <3>2. ASSUME NEW i \in 2..Len(todo) PROVE posted'[todo[i]] = 0 /\ unheard'[todo[i]] = 0
      <4>1. i - 1 \in 1..Len(todo) - 1 /\ (i - 1) + 1 = i /\ i \in 1..Len(todo)
        BY <1>3
      <4>2. todo[i] \in Comments \ {d}
        BY <1>2, <1>3, <4>1
      <4>3. QED
        BY <1>4, <1>6, <4>1, <4>2
    <3>3. \A i \in 1..Len(todo) : i = 1 \/ i \in 2..Len(todo)
      BY <1>3
    <3>4. \A i \in 1..Len(todo) : posted'[todo[i]] = unheard'[todo[i]]
      BY <1>2, <3>1, <3>2, <3>3
    <3>5. QED
      BY <1>1, <1>2, <1>4, <2>2, <3>1, <3>2, <3>4 DEF Replying
  <2>3. todo # Tail(todo)
    BY <1>2, <1>3
  <2>4. QED
    BY <2>1, <2>2, <2>3, ReplyCases
<1>12. QED
  BY <1>8, <1>9, <1>10, <1>11 DEF RoundInv

LEMMA RepliesOverKeeps == RoundInv /\ RepliesOver => RoundInv'
<1> SUFFICES ASSUME RoundInv, RepliesOver PROVE RoundInv'
  OBVIOUS
<1>1. /\ pc' \in {"comments", "ready"} /\ passed' = FALSE /\ pushed' = FALSE
      /\ posted' = None /\ unheard' = None
      /\ round' = round /\ message' = message /\ todo' = todo
  BY DEF RepliesOver, Answered, Over, RoundOver
<1>2. None \in [Comments -> 0..MaxAttempts] /\ \A c \in Comments : None[c] = 0
  BY MaxAttemptsPositive DEF None
<1>3. RoundTypeOK' /\ Once(todo)'
  BY <1>1, <1>2, Zenon DEF RoundInv, RoundTypeOK, Once
<1>4. Quiet' /\ Replying'
  BY <1>1 DEF Quiet, Replying
<1>5. Heard' /\ RepliesHonest'
  BY <1>1, <1>2 DEF Heard, RepliesHonest
<1>6. QED
  BY <1>3, <1>4, <1>5 DEF RoundInv

LEMMA CutKeeps == RoundInv /\ Cut => RoundInv'
<1> SUFFICES ASSUME RoundInv, Cut PROVE RoundInv'
  OBVIOUS
<1>1. /\ pc' = "failed" \/ (pc \in {"view", "delete"} /\ pc' = "done")
      /\ message' = <<>> /\ round' = round /\ passed' = passed /\ todo' = todo
      /\ pushed' = pushed /\ posted' = posted /\ unheard' = unheard
  BY DEF Cut, Answered, GivesUp, Over
<1>2. RoundTypeOK' /\ Once(todo)' /\ Heard' /\ RepliesHonest'
  BY <1>1, MessageForm, Zenon DEF RoundInv, RoundTypeOK, Once, Heard, RepliesHonest
<1>3. Quiet' /\ Replying'
  BY <1>1 DEF RoundInv, Quiet, Replying
<1>4. QED
  BY <1>2, <1>3 DEF RoundInv

LEMMA RoundStep == CallsInv /\ CallsInv' /\ RoundInv /\ [Next]_vars => RoundInv'
<1> SUFFICES ASSUME CallsInv, CallsInv', RoundInv, [Next]_vars PROVE RoundInv'
  OBVIOUS
<1>1. CASE CallsAside
  BY <1>1, CallsAsideKeep, RoundKept
<1>2. CASE FetchComments \/ CodexSession \/ ReadAnswer \/ CommitRound \/ Reply \/ RepliesOver \/ Cut
  BY <1>2, FetchCommentsKeeps, CodexSessionKeeps, ReadAnswerKeeps, CommitRoundKeeps, ReplyKeeps,
     RepliesOverKeeps, CutKeeps
<1>3. CASE OthersStep
  BY <1>3, OthersKeep, RoundKept
<1>4. CASE UNCHANGED vars
  <2>1. pc' = pc /\ attempt' = attempt /\ UNCHANGED roundVars
    BY <1>4 DEF vars, callVars
  <2>2. QED
    BY <2>1, RoundKept
<1>5. QED
  BY <1>1, <1>2, <1>3, <1>4 DEF Next, LoopStep, CallsAside

LEMMA RoundInvHolds == Spec => []RoundInv
  BY CallsInvHolds, RoundInit, RoundStep, PTL DEF Spec

\* The types of everything a run has.
THEOREM TypeCorrect == Spec => []TypeOK
<1>1. CallsInv /\ RoundInv => TypeOK
  BY DEF CallsInv, RoundInv, RoundTypeOK, TypeOK
<1>2. QED
  BY <1>1, CallsInvHolds, RoundInvHolds, PTL

\* A comment is told of a fix only in a round that pushed one, and once, but for the
\* replies whose success the loop was not told of.
THEOREM RepliesAreHonest == Spec => []RepliesHonest
<1>1. RoundInv => RepliesHonest
  BY DEF RoundInv
<1>2. QED
  BY <1>1, RoundInvHolds, PTL

(***************************************************************************)
(* The answers of the sessions.                                            *)
(***************************************************************************)

LEMMA OnlyReadAnswer ==
  ASSUME [Next]_vars, pc = "read", pc' = "commit"
  PROVE  /\ passed' = (Verdict(Shown(message)) = "yes")
         /\ todo' = Addressed(Shown(message))
<1>1. ~CallsAside /\ ~OthersStep /\ ~UNCHANGED vars
  BY CallsAsideKeep, OthersKeep DEF vars, callVars
<1>2. ReadAnswer
  BY <1>1
  DEF Next, LoopStep, CallsAside, FetchComments, CodexSession, CommitRound, Reply, RepliesOver,
      Cut, GivesUp, Answered, Over
<1>3. QED
  BY <1>2 DEF ReadAnswer, GivesUp, Over

\* The verdict and the replies of a round are what the session's answer says, for every
\* answer and every limit.
THEOREM AnswersHonoured == Spec => AnswerHonoured
<1> DEFINE A == pc = "read" /\ pc' = "commit" =>
       /\ message # <<>> /\ message[Len(message)][1] \in Markers =>
            passed' = (message[Len(message)] = <<"yes">>)
       /\ Len(message) <= MaxShown =>
            /\ \A c \in Comments : Claims(message, c) <=> \E i \in 1..Len(todo') : todo'[i] = c
            /\ \A i, j \in 1..Len(todo') : todo'[i] = todo'[j] => i = j
<1>1. RoundInv /\ [Next]_vars => A
  <2> SUFFICES ASSUME RoundInv, [Next]_vars, pc = "read", pc' = "commit" PROVE A
    OBVIOUS
  <2>1. /\ passed' = (Verdict(Shown(message)) = "yes")
        /\ todo' = Addressed(Shown(message))
    BY OnlyReadAnswer
  <2>2. message \in Messages /\ message \in Seq(Line)
    BY MessageForm DEF RoundInv, RoundTypeOK
  <2>3. ASSUME message # <<>>, message[Len(message)][1] \in Markers
        PROVE  passed' = (message[Len(message)] = <<"yes">>)
    <3>1. Verdict(Shown(message)) = message[Len(message)][1]
      BY <2>2, <2>3, MarkerIsRead
    <3>2. message[Len(message)] \in Line
      BY <2>2, <2>3
    <3>3. message[Len(message)] = <<"yes">> \/ message[Len(message)] = <<"no">>
      BY <2>3, <3>2 DEF Line, Markers
    <3>4. message[Len(message)] = <<"yes">> <=> message[Len(message)][1] = "yes"
      BY <3>3
    <3>5. QED
      BY <2>1, <3>1, <3>4, Zenon
  <2>4. ASSUME Len(message) <= MaxShown
        PROVE  /\ \A c \in Comments :
                    Claims(message, c) <=> \E i \in 1..Len(todo') : todo'[i] = c
               /\ \A i, j \in 1..Len(todo') : todo'[i] = todo'[j] => i = j
    <3>1. Shown(message) = message /\ message \in Answers
      BY <2>2, <2>4, ShownIsAnswer DEF Shown
    <3>2. QED
      BY <2>1, <3>1, AddressedIsClaimed
  <2>5. QED
    BY <2>3, <2>4
<1>2. Spec => [][A]_vars
  BY <1>1, RoundInvHolds, PTL DEF Spec
<1>3. QED
  BY <1>2 DEF AnswerHonoured

================================================================================
