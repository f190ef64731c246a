------------------------------- MODULE LoopLock -------------------------------
(***************************************************************************)
(* The advisory lock of one PR number (ralph_loop/worktrees.py): the       *)
(* persistent file codex-ralph-loop-pr-<n>.lock in the temp directory, the *)
(* loops that flock it (_acquire_loop_lock, _LoopLock.release) and the     *)
(* fan-out supervisors whose _cleanup_stale_loop_state probes it and       *)
(* unlinks it.                                                             *)
(*                                                                         *)
(* The kernel's part is explicit: an open file is an inode, a flock belongs *)
(* to the inode and not to the name, and an unlinked inode lives on while  *)
(* somebody has it open.  Pid contents, symlink refusals and the other PR  *)
(* numbers' files play no part in exclusion and are left out.              *)
(***************************************************************************)

CONSTANTS Loops,      \* processes running main() for this PR number
          Cleaners,   \* supervisors that run the stale-state cleanup
          Inodes,     \* inodes the lock path may come to name
          NoInode     \* "no such file", "no open file"

ASSUME DistinctProcs == Loops \cap Cleaners = {}
ASSUME NoInodeNotInode == NoInode \notin Inodes

Procs == Loops \cup Cleaners

VARIABLES path,      \* the inode the lock path names
          fd,        \* the inode each process has open
          held,      \* the processes whose descriptor holds the flock
          listed,    \* the supervisors whose list of open PRs has the number
          pc         \* where each process is

vars == <<path, fd, held, listed, pc>>

LoopPC == {"idle", "open", "flock", "write", "running", "exit64", "failed"}
CleanerPC == {"idle", "open", "flock", "unlock", "unlink"}

FileOpen == {"flock", "write", "running", "unlock"}

TypeOK == /\ path \in Inodes \cup {NoInode}
          /\ fd \in [Procs -> Inodes \cup {NoInode}]
          /\ held \in SUBSET Procs
          /\ listed \in SUBSET Cleaners
          /\ pc \in [Procs -> LoopPC \cup CleanerPC]
          /\ \A p \in Procs : pc[p] \in FileOpen => fd[p] # NoInode

Init == /\ path = NoInode
        /\ fd = [p \in Procs |-> NoInode]
        /\ held = {}
        /\ listed \in SUBSET Cleaners
        /\ pc = [p \in Procs |-> "idle"]

Goto(p, label) == pc' = [pc EXCEPT ![p] = label]

(***************************************************************************)
(* The kernel: open, flock(LOCK_EX | LOCK_NB), close.                      *)
(***************************************************************************)
Fresh(i) == i # path /\ \A q \in Procs : fd[q] # i

\* Mutant: open without O_CREAT.
OpenCreateNoCreat(p) == path' = path /\ fd' = [fd EXCEPT ![p] = path]

OpenCreate(p) == IF path # NoInode
                 THEN path' = path /\ fd' = [fd EXCEPT ![p] = path]
                 ELSE \E i \in Inodes : /\ Fresh(i)
                                        /\ path' = i
                                        /\ fd' = [fd EXCEPT ![p] = i]

Busy(i) == \E q \in held : fd[q] = i

Close(p) == /\ fd' = [fd EXCEPT ![p] = NoInode]
            /\ held' = held \ {p}

(***************************************************************************)
(* A loop: _acquire_loop_lock, the work, _LoopLock.release.                *)
(***************************************************************************)

\* The supervisor (or a person) starts main(), again after any exit.
Start(p) == /\ pc[p] \in {"idle", "exit64", "failed"}
            /\ Goto(p, "open")
            /\ UNCHANGED <<path, fd, held, listed>>

OpenLock(p) == /\ pc[p] = "open"
               /\ OpenCreate(p)
               /\ Goto(p, "flock")
               /\ UNCHANGED <<held, listed>>

\* Mutant: LOCK_SH, which every process gets.
FlockShared(p) == /\ pc[p] = "flock"
                  /\ held' = held \cup {p}
                  /\ Goto(p, "write")
                  /\ UNCHANGED <<path, fd, listed>>

Flock(p) == /\ pc[p] = "flock"
            /\ ~Busy(fd[p])
            /\ held' = held \cup {p}
            /\ Goto(p, "write")
            /\ UNCHANGED <<path, fd, listed>>

\* BlockingIOError: "another loop owns this PR", exit code 64.
FlockBusy(p) == /\ pc[p] = "flock"
                /\ Busy(fd[p])
                /\ Close(p)
                /\ Goto(p, "exit64")
                /\ UNCHANGED <<path, listed>>

\* Mutant: a failing write leaves the file open.
WritePidLeak(p) == /\ pc[p] = "write"
                   /\ Goto(p, "running") \/ Goto(p, "failed")
                   /\ UNCHANGED <<path, fd, held, listed>>

\* The pid is written under the lock; a failing write closes the file.
WritePid(p) == /\ pc[p] = "write"
               /\ \/ Goto(p, "running") /\ UNCHANGED <<fd, held>>
                  \/ Goto(p, "failed") /\ Close(p)
               /\ UNCHANGED <<path, listed>>

\* Mutant: the loop removes its lock file when it is done.
ReleaseUnlink(p) == /\ pc[p] = "running"
                    /\ Close(p)
                    /\ path' = NoInode
                    /\ Goto(p, "idle")
                    /\ UNCHANGED listed

\* main()'s finally: LOCK_UN, close; the file stays.
Release(p) == /\ pc[p] = "running"
              /\ Close(p)
              /\ Goto(p, "idle")
              /\ UNCHANGED <<path, listed>>

\* SIGKILL or a lost machine process: the kernel closes what it had open.
Crash(p) == /\ pc[p] # "idle"
            /\ Close(p)
            /\ Goto(p, "idle")
            /\ UNCHANGED <<path, listed>>

(***************************************************************************)
(* A supervisor: _cleanup_stale_loop_state on this lock file, with         *)
(* _lock_is_held_by_other_process as the probe.                            *)
(***************************************************************************)

\* Only a PR number missing from this supervisor's list is cleaned up.
Scan(c) == /\ pc[c] = "idle"
           /\ path # NoInode
           /\ c \notin listed
           /\ Goto(c, "open")
           /\ UNCHANGED <<path, fd, held, listed>>

\* A file that is gone counts as not held; the unlink that follows misses.
ProbeOpen(c) == /\ pc[c] = "open"
                /\ IF path = NoInode
                   THEN Goto(c, "unlink") /\ UNCHANGED fd
                   ELSE Goto(c, "flock") /\ fd' = [fd EXCEPT ![c] = path]
                /\ UNCHANGED <<path, held, listed>>

ProbeFlock(c) == /\ pc[c] = "flock"
                 /\ IF Busy(fd[c])
                    THEN Close(c) /\ Goto(c, "idle")
                    ELSE held' = held \cup {c} /\ Goto(c, "unlock") /\ UNCHANGED fd
                 /\ UNCHANGED <<path, listed>>

\* Mutant: the probe keeps its descriptor.
ProbeUnlockLeak(c) == /\ pc[c] = "unlock"
                      /\ Goto(c, "unlink")
                      /\ UNCHANGED <<path, fd, held, listed>>

ProbeUnlock(c) == /\ pc[c] = "unlock"
                  /\ Close(c)
                  /\ Goto(c, "unlink")
                  /\ UNCHANGED <<path, listed>>

\* os.unlink works on the name, whatever inode it names by now.
Unlink(c) == /\ pc[c] = "unlink"
             /\ path' = NoInode
             /\ Goto(c, "idle")
             /\ UNCHANGED <<fd, held, listed>>

\* A supervisor starts and lists the open PRs.  The number is on the list or not:
\* PRs are closed, drafted, retargeted and opened again, and the list is cut at 200.
Relist(c) == /\ pc[c] = "idle"
             /\ listed' \in {listed \cup {c}, listed \ {c}}
             /\ UNCHANGED <<path, fd, held, pc>>

LoopStep(p) == \/ Start(p) \/ OpenLock(p) \/ Flock(p) \/ FlockBusy(p)
               \/ WritePid(p) \/ Release(p) \/ Crash(p)

CleanerStep(c) == \/ Scan(c) \/ ProbeOpen(c) \/ ProbeFlock(c)
                  \/ ProbeUnlock(c) \/ Unlink(c) \/ Crash(c)

Next == \/ \E p \in Loops : LoopStep(p)
        \/ \E c \in Cleaners : CleanerStep(c) \/ Relist(c)

Spec == Init /\ [][Next]_vars

(***************************************************************************)
(* Properties.                                                             *)
(***************************************************************************)
Running == {p \in Loops : pc[p] = "running"}

\* Two loops are never past the lock of one PR at the same time (GUIDE.md,
\* "prevents concurrent loop runs for the same PR").
MutualExclusion == \A p, q \in Running : p = q

\* Exit code 64 is only given while another loop really owns the PR: the
\* supervisor answers it with its longest backoff.
BusyMeansOwned ==
  [][\A p \in Loops :
       pc[p] = "flock" /\ pc'[p] = "exit64"
         => \E q \in Loops \ {p} : pc[q] \in {"write", "running"}]_vars

\* No flock outlives its owner's use of it and none is shared: whatever exits,
\* crashes or cleans up, each holder is a process between its flock and its
\* close, on an inode nobody else holds.
LockOwnership ==
  \A p \in held : /\ pc[p] \in {"write", "running", "unlock"}
                  /\ fd[p] # NoInode
                  /\ \A q \in held : fd[q] = fd[p] => q = p
===============================================================================
