------------------------------ MODULE LockProofs ------------------------------
(***************************************************************************)
(* What the lock guarantees for any number of loops, supervisors and       *)
(* inodes, in LoopLock and, with several repositories and worktrees, in    *)
(* Cleanup.  LockOwnership needs no hypothesis.  MutualExclusion holds as  *)
(* long as no supervisor unlinks a file that a loop has open, so that this *)
(* step, the one of the violation run, is the only one that breaks it.     *)
(* BusyMeansOwned needs NoCleanup: a probe that finds nothing stale makes  *)
(* a loop exit 64, too.                                                    *)
(* The steps of Cleanup are steps of LoopLock, so that the lock's          *)
(* ownership carries over; a loop keeps its worktree unless a cleanup of   *)
(* its own repository ran beside it on a list without the PR.              *)
(***************************************************************************)
EXTENDS Cleanup, TLAPS

\* No supervisor ever runs the cleanup on this file.
NoCleanup == Cleaners = {}

(***************************************************************************)
(* Type correctness and lock ownership.                                    *)
(***************************************************************************)

\* LockOwnership is inductive beside TypeOK, whose last conjunct says that a
\* process about to flock has a file open.
OwnInv == TypeOK /\ LockOwnership

LEMMA OwnInit == Init => OwnInv
BY NoInodeNotInode DEF Init, OwnInv, TypeOK, LockOwnership, LoopPC, CleanerPC, FileOpen

LEMMA OwnNext == OwnInv /\ [Next]_vars => OwnInv'
<1> SUFFICES ASSUME OwnInv, [Next]_vars PROVE OwnInv'
  OBVIOUS
<1> USE NoInodeNotInode DEF OwnInv, TypeOK, LockOwnership, LoopPC, CleanerPC, FileOpen, Goto
<1>1. ASSUME NEW p \in Loops, Start(p) PROVE OwnInv'
  BY <1>1 DEF Start, Procs
<1>2. ASSUME NEW p \in Loops, OpenLock(p) PROVE OwnInv'
  <2>1. p \in Procs /\ p \notin held
    BY <1>2 DEF OpenLock, Procs
  <2>2. PICK i \in Inodes : fd' = [fd EXCEPT ![p] = i] /\ path' = i
    BY <1>2 DEF OpenLock, OpenCreate
  <2> QED
    BY <1>2, <2>1, <2>2 DEF OpenLock
<1>3. ASSUME NEW p \in Loops, Flock(p) PROVE OwnInv'
  BY <1>3 DEF Flock, Busy, Procs
<1>4. ASSUME NEW p \in Procs, Close(p), pc' \in [Procs -> LoopPC \cup CleanerPC],
             \A q \in Procs \ {p} : pc'[q] = pc[q], pc'[p] \notin FileOpen,
             UNCHANGED path, listed' \in SUBSET Cleaners
      PROVE OwnInv'
  BY <1>4 DEF Close
<1>5. ASSUME NEW p \in Loops, FlockBusy(p) PROVE OwnInv'
  BY <1>4, <1>5 DEF FlockBusy, Procs
<1>6. ASSUME NEW p \in Loops, WritePid(p) PROVE OwnInv'
  <2>1. CASE Goto(p, "failed") /\ Close(p)
    BY <1>4, <1>6, <2>1 DEF WritePid, Procs
  <2>2. CASE Goto(p, "running") /\ UNCHANGED <<fd, held>>
    BY <1>6, <2>2 DEF WritePid, Procs
  <2> QED
    BY <1>6, <2>1, <2>2 DEF WritePid
<1>7. ASSUME NEW p \in Loops, Release(p) PROVE OwnInv'
  BY <1>4, <1>7 DEF Release, Procs
<1>8. ASSUME NEW p \in Procs, Crash(p) PROVE OwnInv'
  BY <1>4, <1>8 DEF Crash
<1>9. ASSUME NEW c \in Cleaners, Scan(c) PROVE OwnInv'
  BY <1>9 DEF Scan, Procs
<1>10. ASSUME NEW c \in Cleaners, ProbeOpen(c) PROVE OwnInv'
  BY <1>10 DEF ProbeOpen, Procs
<1>11. ASSUME NEW c \in Cleaners, ProbeFlock(c) PROVE OwnInv'
  <2>1. CASE Busy(fd[c])
    BY <1>4, <1>11, <2>1 DEF ProbeFlock, Procs
  <2>2. CASE ~Busy(fd[c])
    BY <1>11, <2>2 DEF ProbeFlock, Busy, Procs
  <2> QED
    BY <2>1, <2>2
<1>12. ASSUME NEW c \in Cleaners, ProbeUnlock(c) PROVE OwnInv'
  BY <1>4, <1>12 DEF ProbeUnlock, Procs
<1>13. ASSUME NEW c \in Cleaners, Unlink(c) PROVE OwnInv'
  BY <1>13 DEF Unlink, Procs
<1>14. ASSUME NEW c \in Cleaners, Relist(c) PROVE OwnInv'
  BY <1>14 DEF Relist
<1>15. CASE UNCHANGED vars
  BY <1>15 DEF vars
<1> QED
  BY <1>1, <1>2, <1>3, <1>5, <1>6, <1>7, <1>8, <1>9, <1>10, <1>11, <1>12,
     <1>13, <1>14, <1>15 DEF Next, LoopStep, CleanerStep, Procs

LEMMA OwnInvariant == Spec => []OwnInv
BY OwnInit, OwnNext, PTL DEF Spec

\* Every variable keeps its type.
THEOREM TypeCorrect == Spec => []TypeOK
<1>1. OwnInv => TypeOK
  BY DEF OwnInv
<1> QED
  BY <1>1, OwnInvariant, PTL

\* No flock outlives its owner's use of it and none is shared, with or
\* without the cleanup, crashes included.
THEOREM LockOwned == Spec => []LockOwnership
<1>1. OwnInv => LockOwnership
  BY DEF OwnInv
<1> QED
  BY <1>1, OwnInvariant, PTL

(***************************************************************************)
(* Mutual exclusion, when nobody unlinks an open file.                     *)
(***************************************************************************)

\* A supervisor unlinks no file that a loop has open.  The code does not see to this:
\* it lets go of the flock it probed with before it unlinks.
UnlinkSafe == \A c \in Cleaners : Unlink(c) => \A p \in Loops : fd[p] = path => path = NoInode

\* Every loop between its open and its close has open the inode the path
\* names, and the loops past the flock are exactly the loops that hold it.
SamePath ==
  \A p \in Loops :
    /\ pc[p] \in {"flock", "write", "running"} => fd[p] = path
    /\ pc[p] \in {"write", "running"} <=> p \in held

ExclInv == OwnInv /\ SamePath

LEMMA ExclInit == Init => ExclInv
BY OwnInit DEF Init, ExclInv, SamePath, Procs

LEMMA ExclNext == ExclInv /\ [Next]_vars /\ [UnlinkSafe]_vars => ExclInv'
<1> SUFFICES ASSUME ExclInv, [Next]_vars, [UnlinkSafe]_vars PROVE SamePath'
  BY OwnNext DEF ExclInv
<1> USE NoInodeNotInode, DistinctProcs
    DEF ExclInv, OwnInv, TypeOK, FileOpen, SamePath, LockOwnership, Goto, Procs
<1>1. ASSUME NEW p \in Loops, Start(p) PROVE SamePath'
  BY <1>1 DEF Start
<1>2. ASSUME NEW p \in Loops, OpenLock(p) PROVE SamePath'
  <2>1. CASE path # NoInode
    BY <1>2, <2>1 DEF OpenLock, OpenCreate
  <2>2. CASE path = NoInode
    \* Then no loop can be past its open: it would have NoInode open.
    <3>1. \A q \in Loops : pc[q] \notin {"flock", "write", "running"}
      BY <2>2
    <3> QED
      BY <1>2, <2>2, <3>1 DEF OpenLock, OpenCreate
  <2> QED
    BY <2>1, <2>2
<1>3. ASSUME NEW p \in Loops, Flock(p) PROVE SamePath'
  BY <1>3 DEF Flock
<1>4. ASSUME NEW p \in Loops, FlockBusy(p) PROVE SamePath'
  BY <1>4 DEF FlockBusy, Close
<1>5. ASSUME NEW p \in Loops, WritePid(p) PROVE SamePath'
  BY <1>5 DEF WritePid, Close
<1>6. ASSUME NEW p \in Loops, Release(p) PROVE SamePath'
  BY <1>6 DEF Release, Close
<1>7. ASSUME NEW p \in Loops, Crash(p) PROVE SamePath'
  BY <1>7 DEF Crash, Close
<1>8. ASSUME NEW c \in Cleaners,
             Scan(c) \/ ProbeOpen(c) \/ ProbeFlock(c) \/ ProbeUnlock(c) \/ Crash(c) \/ Relist(c)
      PROVE  SamePath'
  <2>1. UNCHANGED path
    BY <1>8 DEF Scan, ProbeOpen, ProbeFlock, ProbeUnlock, Crash, Relist
  <2>2. ASSUME NEW p \in Loops PROVE pc'[p] = pc[p] /\ fd'[p] = fd[p] /\ (p \in held' <=> p \in held)
    <3>1. p # c
      OBVIOUS
    <3> QED
      BY <1>8, <3>1 DEF Scan, ProbeOpen, ProbeFlock, ProbeUnlock, Crash, Relist, Close
  <2> QED
    BY <2>1, <2>2
<1>9. ASSUME NEW c \in Cleaners, Unlink(c) PROVE SamePath'
  <2>1. \A p \in Loops : pc'[p] = pc[p]
    BY <1>9 DEF Unlink
  <2>2. \A p \in Loops : fd[p] = path => path = NoInode
    <3>1. pc' # pc
      BY <1>9 DEF Unlink
    <3> QED
      BY <1>9, <3>1 DEF UnlinkSafe, vars
  <2>3. \A p \in Loops : pc[p] \notin {"flock", "write", "running"}
    BY <2>2
  <2> QED
    BY <1>9, <2>1, <2>3 DEF Unlink
<1>10. CASE UNCHANGED vars
  BY <1>10 DEF vars
<1> QED
  BY <1>1, <1>2, <1>3, <1>4, <1>5, <1>6, <1>7, <1>8, <1>9, <1>10 DEF Next, LoopStep, CleanerStep

LEMMA ExclInvariant == Spec /\ [][UnlinkSafe]_vars => []ExclInv
BY ExclInit, ExclNext, PTL DEF Spec

LEMMA ExclImpliesMutex == ExclInv => MutualExclusion
BY DEF ExclInv, OwnInv, SamePath, LockOwnership, MutualExclusion, Running

\* The unlink of a file that a loop has open is the only step by which two loops can come to
\* be past the lock of one PR, whatever else supervisors do.
THEOREM MutexUnlessUnlinked == Spec /\ [][UnlinkSafe]_vars => []MutualExclusion
BY ExclInvariant, ExclImpliesMutex, PTL

LEMMA SafeWithoutCleanup == ASSUME NoCleanup PROVE UnlinkSafe
BY DEF NoCleanup, UnlinkSafe

\* While nobody cleans up, two loops are never past the lock of one PR.
THEOREM MutexWithoutCleanup == NoCleanup => (Spec => []MutualExclusion)
<1> SUFFICES ASSUME NoCleanup PROVE Spec => []MutualExclusion
  OBVIOUS
<1>1. [UnlinkSafe]_vars
  BY SafeWithoutCleanup
<1> QED
  BY <1>1, MutexUnlessUnlinked, PTL

\* While nobody cleans up, exit 64 is only given when another loop owns the PR.
THEOREM BusyOwnedWithoutCleanup == NoCleanup => (Spec => BusyMeansOwned)
<1> SUFFICES ASSUME NoCleanup PROVE Spec => BusyMeansOwned
  OBVIOUS
<1> DEFINE Busy64 == \A p \in Loops :
                       pc[p] = "flock" /\ pc'[p] = "exit64"
                         => \E q \in Loops \ {p} : pc[q] \in {"write", "running"}
<1>1. ASSUME ExclInv, [Next]_vars PROVE [Busy64]_vars
  <2> SUFFICES ASSUME NEW p \in Loops, pc[p] = "flock", pc'[p] = "exit64"
               PROVE  \E q \in Loops \ {p} : pc[q] \in {"write", "running"}
    OBVIOUS
  <2>0. pc \in [Procs -> LoopPC \cup CleanerPC] /\ p \in Procs
    BY <1>1 DEF ExclInv, OwnInv, TypeOK, Procs
  <2>1. FlockBusy(p)
    <3>1. PICK r \in Loops : LoopStep(r)
      BY <1>1 DEF NoCleanup, Next, vars
    <3>2. pc' # pc /\ \A q \in Procs : q # r => pc'[q] = pc[q]
      BY <2>0, <3>1 DEF LoopStep, Start, OpenLock, Flock, FlockBusy, WritePid,
                        Release, Crash, Goto
    <3>3. r = p
      BY <2>0, <3>2
    <3> QED
      BY <2>0, <3>1, <3>3 DEF LoopStep, Start, OpenLock, Flock, FlockBusy, WritePid,
                        Release, Crash, Goto
  <2>2. PICK q \in held : fd[q] = fd[p]
    BY <2>1 DEF FlockBusy, Busy
  <2>3. q \in Loops \ {p} /\ pc[q] \in {"write", "running"}
    BY <1>1, <2>2 DEF ExclInv, OwnInv, TypeOK, SamePath, NoCleanup, Procs
  <2> QED
    BY <2>3
<1>2. [UnlinkSafe]_vars
  BY SafeWithoutCleanup
<1> QED
  BY <1>1, <1>2, ExclInvariant, PTL DEF Spec, BusyMeansOwned

(***************************************************************************)
(* The lock file.                                                          *)
(***************************************************************************)

LEMMA StepOnLock == CleanupNext => [Next]_vars
<1> SUFFICES ASSUME CleanupNext PROVE [Next]_vars
  OBVIOUS
<1>1. ASSUME NEW p \in Loops, EnterTree(p) \/ LoopOnLock(p) PROVE [Next]_vars
  BY <1>1 DEF EnterTree, LoopOnLock, Next
<1>2. ASSUME NEW c \in Cleaners, CleanupStep(c) PROVE [Next]_vars
  <2>1. CASE ListPrs(c)
    BY <2>1 DEF ListPrs, Next
  <2>2. CASE CleanLock(c)
    BY <2>2 DEF CleanLock, CleanerStep, Next
  <2>3. CASE Abort(c)
    BY <2>3 DEF Abort, CleanerStep, Next
  <2>4. CASE ListTrees(c) \/ GitRemove(c) \/ Rmtree(c) \/ ScanOver(c)
    BY <2>4 DEF ListTrees, GitRemove, Rmtree, ScanOver
  <2>5. ASSUME NEW r \in Repos, Visit(c, r) PROVE [Next]_vars
    BY <2>5 DEF Visit
  <2> QED
    BY <1>2, <2>1, <2>2, <2>3, <2>4, <2>5 DEF CleanupStep
<1> QED
  BY <1>1, <1>2 DEF CleanupNext

LEMMA CleanupOwnInvariant == CleanupSpec => []OwnInv
<1>1. CleanupInit => OwnInv
  BY OwnInit DEF CleanupInit
<1>2. OwnInv /\ [CleanupNext]_cleanupVars => OwnInv'
  <2> SUFFICES ASSUME OwnInv, [CleanupNext]_cleanupVars PROVE OwnInv'
    OBVIOUS
  <2>1. [Next]_vars
    BY StepOnLock DEF cleanupVars
  <2> QED
    BY <2>1, OwnNext
<1> QED
  BY <1>1, <1>2, PTL DEF CleanupSpec

\* No flock outlives its owner's use of it and none is shared, with whole cleanups of
\* several repositories at work.
THEOREM CleanupLockOwned == CleanupSpec => []LockOwnership
<1>1. OwnInv => LockOwnership
  BY DEF OwnInv
<1> QED
  BY <1>1, CleanupOwnInvariant, PTL

(***************************************************************************)
(* Types.                                                                  *)
(***************************************************************************)
CInv == OwnInv /\ CleanupTypeOK

\* A step of a supervisor leaves the place of the loops alone, and the other way round.
LEMMA CleanerMoves ==
  ASSUME NEW c \in Cleaners, OwnInv,
         Scan(c) \/ ProbeOpen(c) \/ ProbeFlock(c) \/ ProbeUnlock(c) \/ Unlink(c) \/ Crash(c)
  PROVE  /\ \A q \in Procs \ {c} : pc'[q] = pc[q]
         /\ UNCHANGED listed
         /\ Crash(c) => pc'[c] = "idle"
BY DEF OwnInv, TypeOK, Scan, ProbeOpen, ProbeFlock, ProbeUnlock, Unlink, Crash, Goto, Procs

LEMMA LoopMoves ==
  ASSUME NEW p \in Loops, OwnInv, LoopStep(p)
  PROVE  (\A q \in Procs \ {p} : pc'[q] = pc[q]) /\ UNCHANGED listed
BY DEF OwnInv, TypeOK, LoopStep, Start, OpenLock, Flock, FlockBusy, WritePid, Release, Crash,
       Goto, Procs

LEMMA CTypeInit == CleanupInit => CleanupTypeOK
BY RepoOfType DEF CleanupInit, CleanupTypeOK, Init, ScanPC, Procs

LEMMA CTypeNext == CInv /\ [CleanupNext]_cleanupVars => CleanupTypeOK'
<1> SUFFICES ASSUME CInv, [CleanupNext]_cleanupVars PROVE CleanupTypeOK'
  OBVIOUS
<1> USE RepoOfType DEF CInv, CleanupTypeOK, ScanPC, ScanAt
<1>1. ASSUME NEW p \in Loops, EnterTree(p) PROVE CleanupTypeOK'
  BY <1>1 DEF EnterTree, vars, Procs
<1>2. ASSUME NEW p \in Loops, LoopOnLock(p) PROVE CleanupTypeOK'
  <2>1. \A c \in Cleaners : pc'[c] = pc[c]
    BY <1>2, LoopMoves, DistinctProcs DEF LoopOnLock, Procs
  <2> QED
    BY <1>2, <2>1 DEF LoopOnLock
<1>3. ASSUME NEW c \in Cleaners, ListPrs(c) PROVE CleanupTypeOK'
  BY <1>3 DEF ListPrs, Relist
<1>4. ASSUME NEW c \in Cleaners, CleanLock(c) PROVE CleanupTypeOK'
  <2>1. \A q \in Procs \ {c} : pc'[q] = pc[q]
    BY <1>4, CleanerMoves DEF CleanLock
  <2>2. CASE pc'[c] = "idle"
    BY <1>4, <2>1, <2>2 DEF CleanLock, Procs
  <2>3. CASE pc'[c] # "idle"
    BY <1>4, <2>1, <2>3 DEF CleanLock, Procs
  <2> QED
    BY <2>2, <2>3
<1>5. ASSUME NEW c \in Cleaners, Abort(c) PROVE CleanupTypeOK'
  <2>1. (\A q \in Procs \ {c} : pc'[q] = pc[q]) /\ pc'[c] = "idle"
    BY <1>5, CleanerMoves DEF Abort, vars
  <2> QED
    BY <1>5, <2>1 DEF Abort, Procs
<1>6. ASSUME NEW c \in Cleaners, ListTrees(c) PROVE CleanupTypeOK'
  BY <1>6 DEF ListTrees, vars
<1>7. ASSUME NEW c \in Cleaners, NEW r \in Repos, Visit(c, r) PROVE CleanupTypeOK'
  BY <1>7 DEF Visit, vars
<1>8. ASSUME NEW c \in Cleaners, GitRemove(c) PROVE CleanupTypeOK'
  <2>1. pc[c] = "idle"
    BY <1>8 DEF GitRemove
  <2> QED
    BY <1>8, <2>1 DEF GitRemove, vars
<1>9. ASSUME NEW c \in Cleaners, Rmtree(c) PROVE CleanupTypeOK'
  <2>1. pc[c] = "idle"
    BY <1>9 DEF Rmtree
  <2> QED
    BY <1>9, <2>1 DEF Rmtree, vars
<1>10. ASSUME NEW c \in Cleaners, ScanOver(c) PROVE CleanupTypeOK'
  BY <1>10 DEF ScanOver, vars
<1>11. CASE UNCHANGED cleanupVars
  BY <1>11 DEF cleanupVars, vars, treeVars
<1> QED
  BY <1>1, <1>2, <1>3, <1>4, <1>5, <1>6, <1>7, <1>8, <1>9, <1>10, <1>11
  DEF CleanupNext, CleanupStep

LEMMA CInvariant == CleanupSpec => []CInv
<1>1. CleanupInit => CleanupTypeOK
  BY CTypeInit
<1>2. CInv /\ [CleanupNext]_cleanupVars => CleanupTypeOK'
  BY CTypeNext
<1> QED
  BY <1>1, <1>2, CleanupOwnInvariant, PTL DEF CleanupSpec, CInv

\* Every variable of the cleanup keeps its type, and a supervisor has the lock file open
\* only in its scan of locks.
THEOREM CleanupTypeCorrect == CleanupSpec => []CleanupTypeOK
<1>1. CInv => CleanupTypeOK
  BY DEF CInv
<1> QED
  BY <1>1, CInvariant, PTL

(***************************************************************************)
(* The worktrees.  WorktreeKept is not inductive: a removal takes two      *)
(* steps, so the directory must be known to be the remover's own, and      *)
(* its list to lack the PR, from the comparison of origins on; and a loop  *)
(* that is not exposed must have no threat beside it, so that none         *)
(* arises later.                                                           *)
(***************************************************************************)
RemovesOwn == \A c \in Cleaners :
  /\ scan[c] \in {"remove", "rmtree"} => at[c] = RepoOf[c] /\ c \notin listed
  /\ scan[c] = "trees" /\ todo[c] # {} => c \notin listed

Unthreatened == \A p \in inTree \ exposed :
  /\ RepoOf[p] \in tree
  /\ \A c \in Cleaners : Threat(c) => RepoOf[c] # RepoOf[p]

KeptInv == CInv /\ RemovesOwn /\ Unthreatened

LEMMA KeptInit == CleanupInit => RemovesOwn /\ Unthreatened
BY DEF CleanupInit, RemovesOwn, Unthreatened

LEMMA RemovesOwnNext == KeptInv /\ [CleanupNext]_cleanupVars => RemovesOwn'
<1> SUFFICES ASSUME KeptInv, [CleanupNext]_cleanupVars PROVE RemovesOwn'
  OBVIOUS
<1> USE DEF KeptInv, CInv, CleanupTypeOK, ScanPC, ScanAt, RemovesOwn
<1>1. ASSUME NEW p \in Loops, EnterTree(p) PROVE RemovesOwn'
  BY <1>1 DEF EnterTree, vars
<1>2. ASSUME NEW p \in Loops, LoopOnLock(p) PROVE RemovesOwn'
  BY <1>2, LoopMoves DEF LoopOnLock
<1>3. ASSUME NEW c \in Cleaners, ListPrs(c) PROVE RemovesOwn'
  BY <1>3 DEF ListPrs, Relist
<1>4. ASSUME NEW c \in Cleaners, CleanLock(c) PROVE RemovesOwn'
  <2>1. UNCHANGED listed
    BY <1>4, CleanerMoves DEF CleanLock
  <2> QED
    BY <1>4, <2>1 DEF CleanLock
<1>5. ASSUME NEW c \in Cleaners, Abort(c) PROVE RemovesOwn'
  <2>1. UNCHANGED listed
    BY <1>5, CleanerMoves DEF Abort, vars
  <2> QED
    BY <1>5, <2>1 DEF Abort
<1>6. ASSUME NEW c \in Cleaners, ListTrees(c) PROVE RemovesOwn'
  BY <1>6 DEF ListTrees, vars
<1>7. ASSUME NEW c \in Cleaners, NEW r \in Repos, Visit(c, r) PROVE RemovesOwn'
  BY <1>7 DEF Visit, vars
<1>8. ASSUME NEW c \in Cleaners, GitRemove(c) PROVE RemovesOwn'
  BY <1>8 DEF GitRemove, vars
<1>9. ASSUME NEW c \in Cleaners, Rmtree(c) PROVE RemovesOwn'
  BY <1>9 DEF Rmtree, vars
<1>10. ASSUME NEW c \in Cleaners, ScanOver(c) PROVE RemovesOwn'
  BY <1>10 DEF ScanOver, vars
<1>11. CASE UNCHANGED cleanupVars
  BY <1>11 DEF cleanupVars, vars, treeVars
<1> QED
  BY <1>1, <1>2, <1>3, <1>4, <1>5, <1>6, <1>7, <1>8, <1>9, <1>10, <1>11
  DEF CleanupNext, CleanupStep

LEMMA UnthreatenedNext == KeptInv /\ [CleanupNext]_cleanupVars => Unthreatened'
<1> SUFFICES ASSUME KeptInv, [CleanupNext]_cleanupVars PROVE Unthreatened'
  OBVIOUS
<1> USE DEF KeptInv, CInv, CleanupTypeOK, ScanPC, ScanAt, Unthreatened, Threat
<1>1. ASSUME NEW p \in Loops, EnterTree(p) PROVE Unthreatened'
  <2>1. CASE \E c \in Cleaners : Threat(c) /\ RepoOf[c] = RepoOf[p]
    BY <1>1, <2>1 DEF EnterTree, vars
  <2>2. CASE ~\E c \in Cleaners : Threat(c) /\ RepoOf[c] = RepoOf[p]
    BY <1>1, <2>2 DEF EnterTree, vars
  <2> QED
    BY <2>1, <2>2
<1>2. ASSUME NEW p \in Loops, LoopOnLock(p) PROVE Unthreatened'
  <2>1. UNCHANGED <<listed, tree, scan>>
    BY <1>2, LoopMoves DEF LoopOnLock
  <2>2. inTree' \ exposed' \subseteq inTree \ exposed
    BY <1>2 DEF LoopOnLock
  <2> QED
    BY <2>1, <2>2
<1>3. ASSUME NEW c \in Cleaners, ListPrs(c) PROVE Unthreatened'
  <2>1. CASE c \in listed'
    BY <1>3, <2>1 DEF ListPrs, Relist
  <2>2. CASE c \notin listed'
    BY <1>3, <2>2 DEF ListPrs, Relist
  <2> QED
    BY <2>1, <2>2
<1>4. ASSUME NEW c \in Cleaners, CleanLock(c) PROVE Unthreatened'
  <2>1. UNCHANGED listed
    BY <1>4, CleanerMoves DEF CleanLock
  <2> QED
    BY <1>4, <2>1 DEF CleanLock
<1>5. ASSUME NEW c \in Cleaners, Abort(c) PROVE Unthreatened'
  <2>1. UNCHANGED listed
    BY <1>5, CleanerMoves DEF Abort, vars
  <2> QED
    BY <1>5, <2>1 DEF Abort
<1>6. ASSUME NEW c \in Cleaners, ListTrees(c) PROVE Unthreatened'
  BY <1>6 DEF ListTrees, vars
<1>7. ASSUME NEW c \in Cleaners, NEW r \in Repos, Visit(c, r) PROVE Unthreatened'
  BY <1>7 DEF Visit, vars
<1>8. ASSUME NEW c \in Cleaners, GitRemove(c) \/ Rmtree(c) PROVE Unthreatened'
  <2>1. Threat(c) /\ at[c] = RepoOf[c]
    BY <1>8 DEF GitRemove, Rmtree, RemovesOwn
  <2>2. \A p \in inTree \ exposed : RepoOf[p] # at[c]
    BY <2>1
  <2>3. tree \ {at[c]} \subseteq tree' /\ UNCHANGED <<inTree, exposed, listed>>
    BY <1>8 DEF GitRemove, Rmtree, vars
  <2>4. \A d \in Cleaners : scan'[d] # "off" => scan[d] # "off"
    BY <1>8 DEF GitRemove, Rmtree
  <2> QED
    BY <2>2, <2>3, <2>4
<1>9. ASSUME NEW c \in Cleaners, ScanOver(c) PROVE Unthreatened'
  BY <1>9 DEF ScanOver, vars
<1>10. CASE UNCHANGED cleanupVars
  BY <1>10 DEF cleanupVars, vars, treeVars
<1> QED
  BY <1>1, <1>2, <1>3, <1>4, <1>5, <1>6, <1>7, <1>8, <1>9, <1>10
  DEF CleanupNext, CleanupStep

\* No supervisor of another repository, and no supervisor with the PR on its list, ever
\* takes the worktree of a loop away.
THEOREM WorktreesKept == CleanupSpec => []WorktreeKept
<1>1. CleanupInit => RemovesOwn /\ Unthreatened
  BY KeptInit
<1>2. KeptInv /\ [CleanupNext]_cleanupVars => RemovesOwn' /\ Unthreatened'
  BY RemovesOwnNext, UnthreatenedNext
<1>3. KeptInv => WorktreeKept
  BY DEF KeptInv, Unthreatened, WorktreeKept
<1> QED
  BY <1>1, <1>2, <1>3, CInvariant, PTL DEF CleanupSpec, KeptInv

================================================================================
