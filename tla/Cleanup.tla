------------------------------- MODULE Cleanup --------------------------------
(***************************************************************************)
(* The whole stale-state cleanup, ralph_loop/worktrees.py                  *)
(* _cleanup_stale_loop_state, against the loops of one PR number: first    *)
(* the lock file (the steps of LoopLock), then the directories pr-<n>-* of *)
(* the worktree root.  Several repositories share the temp directory and   *)
(* the root, so that a PR number may be one of each of them.               *)
(*                                                                         *)
(* A repository stands for the origin URL that tells it from the others.   *)
(* The branches of the repositories' PRs have different names, so that     *)
(* each has a directory of its own.                                        *)
(***************************************************************************)
EXTENDS LoopLock

CONSTANTS Repos,
          RepoOf      \* the repository a loop or supervisor was launched from

ASSUME RepoOfType == RepoOf \in [Procs -> Repos]

VARIABLES tree,      \* repositories whose worktree for the PR number exists
          inTree,    \* loops that work in it
          scan,      \* where each supervisor's scan of the worktrees is
          todo,      \* directories that scan has still to visit
          at,        \* the directory it is at
          exposed    \* history: loops whose repository had a cleanup under way without
                     \* the PR on its list, while they were in the worktree

treeVars == <<tree, inTree, scan, todo, at>>
cleanupVars == <<vars, treeVars, exposed>>

ScanPC == {"off", "locks", "list", "trees", "remove", "rmtree"}

CleanupTypeOK == /\ tree \in SUBSET Repos
                 /\ inTree \in SUBSET Loops
                 /\ scan \in [Cleaners -> ScanPC]
                 /\ todo \in [Cleaners -> SUBSET Repos]
                 /\ at \in [Cleaners -> Repos]
                 /\ exposed \in SUBSET Loops
                 /\ \A c \in Cleaners : pc[c] # "idle" => scan[c] = "locks"

CleanupInit == /\ Init
               /\ tree \in SUBSET Repos
               /\ inTree = {}
               /\ scan = [c \in Cleaners |-> "off"]
               /\ todo = [c \in Cleaners |-> {}]
               /\ at = [c \in Cleaners |-> RepoOf[c]]
               /\ exposed = {}

ScanAt(c, label) == scan' = [scan EXCEPT ![c] = label]

(***************************************************************************)
(* A loop: the steps of LoopLock, and its worktree between them.           *)
(***************************************************************************)

\* Supervisor c is at work without the PR on its list.
Threat(c) == scan[c] # "off" /\ c \notin listed

\* _ensure_pr_worktree creates the directory or takes the one there is.
EnterTree(p) == /\ pc[p] = "running" /\ p \notin inTree
                /\ tree' = tree \cup {RepoOf[p]}
                /\ inTree' = inTree \cup {p}
                /\ exposed' = IF \E c \in Cleaners : Threat(c) /\ RepoOf[c] = RepoOf[p]
                              THEN exposed \cup {p} ELSE exposed
                /\ UNCHANGED <<vars, scan, todo, at>>

\* However a loop ends, its worktree stays for the next one.
LoopOnLock(p) == /\ LoopStep(p)
                 /\ inTree' = IF pc'[p] = "running" THEN inTree ELSE inTree \ {p}
                 /\ exposed' = IF pc'[p] = "running" THEN exposed ELSE exposed \ {p}
                 /\ UNCHANGED <<tree, scan, todo, at>>

(***************************************************************************)
(* A supervisor.                                                           *)
(***************************************************************************)

\* It lists the open PRs, once for both scans.
ListPrs(c) == /\ scan[c] = "off"
              /\ Relist(c)
              /\ ScanAt(c, "locks")
              /\ exposed' = IF c \in listed' THEN exposed
                            ELSE exposed \cup {p \in inTree : RepoOf[p] = RepoOf[c]}
              /\ UNCHANGED <<tree, inTree, todo, at>>

\* The steps of LoopLock; the end of the last one ends the scan of locks.
CleanLock(c) == /\ scan[c] = "locks"
                /\ Scan(c) \/ ProbeOpen(c) \/ ProbeFlock(c) \/ ProbeUnlock(c) \/ Unlink(c)
                /\ ScanAt(c, IF pc'[c] = "idle" THEN "list" ELSE "locks")
                /\ UNCHANGED <<tree, inTree, todo, at, exposed>>

\* os.listdir(worktree_root), less the directories of PRs on the list.  The scan of
\* locks is over, or had nothing to do: the number is listed, there is no such file, or
\* the temp directory could not be read.
ListTrees(c) == /\ scan[c] \in {"locks", "list"} /\ pc[c] = "idle"
                /\ ScanAt(c, "trees")
                /\ todo' = [todo EXCEPT ![c] = IF c \in listed THEN {} ELSE tree]
                /\ UNCHANGED <<vars, tree, inTree, at, exposed>>

\* Mutant: the directory's origin is not compared.
VisitAny(c, r) == /\ scan[c] = "trees" /\ r \in todo[c]
                  /\ todo' = [todo EXCEPT ![c] = @ \ {r}]
                  /\ at' = [at EXCEPT ![c] = r]
                  /\ ScanAt(c, "remove")
                  /\ UNCHANGED <<vars, tree, inTree, exposed>>

\* Only a directory whose origin is known and the supervisor's own is removed; git may
\* fail to tell either.
Visit(c, r) == /\ scan[c] = "trees" /\ r \in todo[c]
               /\ todo' = [todo EXCEPT ![c] = @ \ {r}]
               /\ \/ UNCHANGED <<scan, at>>
                  \/ /\ r = RepoOf[c] /\ r \in tree
                     /\ at' = [at EXCEPT ![c] = r]
                     /\ ScanAt(c, "remove")
               /\ UNCHANGED <<vars, tree, inTree, exposed>>

\* git worktree remove --force: done, or refused (another clone of the repository made
\* the worktree, git failed or was cut off).
GitRemove(c) == /\ scan[c] = "remove"
                /\ \/ tree' = tree \ {at[c]} /\ ScanAt(c, "trees")
                   \/ UNCHANGED tree /\ ScanAt(c, IF at[c] \in tree THEN "rmtree" ELSE "trees")
                /\ UNCHANGED <<vars, inTree, todo, at, exposed>>

\* shutil.rmtree, which may fail, with much of the directory gone, or with all there.
Rmtree(c) == /\ scan[c] = "rmtree"
             /\ tree' \in {tree, tree \ {at[c]}}
             /\ ScanAt(c, "trees")
             /\ UNCHANGED <<vars, inTree, todo, at, exposed>>

ScanOver(c) == /\ scan[c] = "trees" /\ todo[c] = {}
               /\ ScanAt(c, "off")
               /\ UNCHANGED <<vars, tree, inTree, todo, at, exposed>>

\* Mutant: an exception leaves the probe's descriptor open.
AbortLeak(c) == /\ scan[c] # "off"
                /\ ScanAt(c, "off")
                /\ todo' = [todo EXCEPT ![c] = {}]
                /\ UNCHANGED <<vars, tree, inTree, at, exposed>>

\* The supervisor is killed, or an exception ends its cleanup.
Abort(c) == /\ scan[c] # "off"
            /\ IF pc[c] = "idle" THEN UNCHANGED vars ELSE Crash(c)
            /\ ScanAt(c, "off")
            /\ todo' = [todo EXCEPT ![c] = {}]
            /\ UNCHANGED <<tree, inTree, at, exposed>>

CleanupStep(c) == \/ ListPrs(c) \/ CleanLock(c) \/ ListTrees(c) \/ GitRemove(c)
                  \/ Rmtree(c) \/ ScanOver(c) \/ Abort(c)
                  \/ \E r \in Repos : Visit(c, r)

CleanupNext == \/ \E p \in Loops : EnterTree(p) \/ LoopOnLock(p)
               \/ \E c \in Cleaners : CleanupStep(c)

CleanupSpec == CleanupInit /\ [][CleanupNext]_cleanupVars

(***************************************************************************)
(* Properties.                                                             *)
(***************************************************************************)

\* A loop keeps its worktree, whatever the supervisors of other repositories with a PR
\* of that number do, and however late a scan acts on its list; unless a cleanup
\* of its own repository ran beside it on a list without the PR.  Such a cleanup
\* takes the worktree, for it does not look at the lock (README.md, "scopes fan-out
\* stale worktree cleanup to the launching repo's origin remote").
WorktreeKept == \A p \in inTree \ exposed : RepoOf[p] \in tree
===============================================================================
