----------------------------- MODULE MultiFanOut ------------------------------
(***************************************************************************)
(* The fan-out over several directories, ralph_loop/cli.py                 *)
(* _resolve_target_directories and _fan_out_across_directories: a launcher *)
(* starts one process per directory, polls them, and on a signal           *)
(* terminates them, waits for each and kills those that take too long.     *)
(*                                                                         *)
(* The supervisors are those of module Supervisor, which FanOut is shown   *)
(* to implement: they may do at any time whatever it allows, but for       *)
(* SIGKILL, which only the launcher sends.  Time is counted in the steps   *)
(* of the launcher's wait.                                                 *)
(***************************************************************************)
EXTENDS Naturals, FiniteSets

CONSTANTS Dirs,       \* repositories
          Parent,     \* the directory that holds them, for --recursive
          None,
          StopWait,   \* proc.wait(timeout=10)
          MaxArgs     \* bound: arguments

ASSUME DistinctDirs == Parent \notin Dirs /\ None \notin Dirs \cup {Parent}
ASSUME TimesNat == StopWait \in Nat \ {0} /\ MaxArgs \in Nat

VARIABLES args,        \* the directories as they were given
          recursive,   \* --recursive
          stage,       \* where the launcher is
          todo,        \* directories it has still to start, then to wait for
          procs,       \* directories whose process it has not seen end
          asked,       \* shutdown_event
          at, waited,  \* the process it waits for, and for how long
          sup,         \* the process of each directory
          untold,      \* directories with loops that nobody has told to end
          busy         \* time it was alive after terminate(), up to StopWait

launcherVars == <<stage, todo, procs, asked, at, waited>>
supVars == <<sup, untold, busy>>
vars == <<args, recursive, launcherVars, supVars>>

Paths == Dirs \cup {Parent}

\* An argument is a path, absolute and real, or in another form.
Argument == {"abs", "rel"} \X Paths

\* "launcher": the process has several directories, and fans out once more.
States == {"none", "listing", "up", "asked", "stopping", "ended", "killed", "launcher"}

Alive(d) == sup[d] \notin {"none", "ended", "killed"}

TypeOK == /\ args \in SUBSET Argument
          /\ recursive \in BOOLEAN
          /\ stage \in {"spawn", "poll", "stopping", "over", "died"}
          /\ todo \in SUBSET Paths
          /\ procs \in SUBSET Paths
          /\ asked \in BOOLEAN
          /\ at \in Paths \cup {None}
          /\ waited \in 0..StopWait
          /\ sup \in [Paths -> States]
          /\ untold \in SUBSET Paths
          /\ busy \in [Paths -> 0..StopWait]
          /\ at # None => stage \in {"stopping", "died"} /\ at \in todo

(***************************************************************************)
(* Arguments.                                                              *)
(***************************************************************************)

\* _resolve_target_directories: a set, for duplicates go.  Only Parent has repositories
\* below it.
Resolve(given, below) == IF below THEN {d \in Dirs : \E t \in given : t[2] = Parent}
                         ELSE {t[2] : t \in given}

Targets == Resolve(args, recursive)

\* The arguments of the process of directory d: those that are no target as written, and
\* the directory.  --recursive is not passed on.
ChildArgs(d) == {t \in args : t[1] = "rel" \/ t[2] \notin Targets} \cup {<<"abs", d>>}

\* main(): a process with one directory supervises it, with more it is a launcher.
Supervises(d) == Resolve(ChildArgs(d), FALSE) = {d}

Init == /\ args \in SUBSET Argument /\ recursive \in BOOLEAN
        /\ Cardinality(args) <= MaxArgs
        /\ Cardinality(Targets) > 1
        /\ stage = "spawn" /\ todo = Targets /\ procs = {} /\ asked = FALSE
        /\ at = None /\ waited = 0
        /\ sup = [d \in Paths |-> "none"]
        /\ untold = {}
        /\ busy = [d \in Paths |-> 0]

(***************************************************************************)
(* The launcher.                                                           *)
(***************************************************************************)
Launch(d) == /\ stage = "spawn" /\ d \in todo
             /\ sup' = [sup EXCEPT ![d] = IF Supervises(d) THEN "listing" ELSE "launcher"]
             /\ procs' = procs \cup {d}
             /\ todo' = todo \ {d}
             /\ stage' = IF todo' = {} THEN "poll" ELSE "spawn"
             /\ UNCHANGED <<args, recursive, asked, at, waited, untold, busy>>

\* Before its handlers are there any signal ends the launcher, as does a process that
\* cannot be started; afterwards SIGHUP and SIGKILL do.
Dies == /\ stage \in {"spawn", "poll", "stopping"}
        /\ stage' = "died"
        /\ UNCHANGED <<args, recursive, todo, procs, asked, at, waited, supVars>>

\* Mutant: the end of one process ends the fan-out.
PollAny == /\ stage = "poll" /\ ~asked
           /\ procs' = {d \in procs : Alive(d)}
           /\ stage' = IF procs' # procs THEN "over" ELSE "poll"
           /\ UNCHANGED <<args, recursive, todo, asked, at, waited, supVars>>

Poll == /\ stage = "poll" /\ ~asked
        /\ procs' = {d \in procs : Alive(d)}
        /\ stage' = IF procs' = {} THEN "over" ELSE "poll"
        /\ UNCHANGED <<args, recursive, todo, asked, at, waited, supVars>>

\* A signal meets a supervisor that is still listing PRs before its handlers.
Signalled(d) == CASE sup[d] = "listing" -> "ended"
                  [] sup[d] = "up"      -> "asked"
                  [] OTHER              -> sup[d]

\* SIGTERM or SIGINT; from a terminal the supervisors get it, too.
Signal == /\ stage = "poll" /\ ~asked
          /\ asked' = TRUE
          /\ \/ UNCHANGED sup
             \/ sup' = [d \in Paths |-> Signalled(d)]
          /\ UNCHANGED <<args, recursive, stage, todo, procs, at, waited, untold, busy>>

Terminate == /\ stage = "poll" /\ asked
             /\ stage' = "stopping" /\ todo' = procs
             /\ sup' = [d \in Paths |-> IF d \in procs THEN Signalled(d) ELSE sup[d]]
             /\ UNCHANGED <<args, recursive, procs, asked, at, waited, untold, busy>>

WaitFor(d) == /\ stage = "stopping" /\ at = None /\ d \in todo
              /\ at' = d /\ waited' = 0
              /\ UNCHANGED <<args, recursive, stage, todo, procs, asked, supVars>>

\* Mutant: the process is done with, but still waited for.
WaitOverStale == /\ stage = "stopping" /\ at # None /\ ~Alive(at)
                 /\ todo' = todo \ {at}
                 /\ UNCHANGED <<args, recursive, stage, procs, asked, at, waited, supVars>>

WaitOver == /\ stage = "stopping" /\ at # None /\ ~Alive(at)
            /\ todo' = todo \ {at} /\ at' = None
            /\ UNCHANGED <<args, recursive, stage, procs, asked, waited, supVars>>

\* Mutant: killed at once.
KillNow == /\ stage = "stopping" /\ at # None /\ Alive(at)
           /\ sup' = [sup EXCEPT ![at] = "killed"]
           /\ todo' = todo \ {at} /\ at' = None
           /\ UNCHANGED <<args, recursive, stage, procs, asked, waited, untold, busy>>

\* Mutant: waited for without a timeout.
KillNever == FALSE

Kill == /\ stage = "stopping" /\ at # None /\ Alive(at) /\ waited = StopWait
        /\ sup' = [sup EXCEPT ![at] = "killed"]
        /\ todo' = todo \ {at} /\ at' = None
        /\ UNCHANGED <<args, recursive, stage, procs, asked, waited, untold, busy>>

Exit == /\ stage = "stopping" /\ todo = {}
        /\ stage' = "over"
        /\ UNCHANGED <<args, recursive, todo, procs, asked, at, waited, supVars>>

LauncherStep == \/ Poll \/ Terminate \/ WaitOver \/ Kill \/ Exit
                \/ \E d \in Paths : Launch(d) \/ WaitFor(d)

(***************************************************************************)
(* The processes it starts.                                                *)
(***************************************************************************)
SV(d) == INSTANCE Supervisor WITH sup <- sup[d], untold <- d \in untold

\* Any change of the process of d and of its loops.
Moves(d) == /\ \E s \in States : sup' = [sup EXCEPT ![d] = s]
            /\ untold' \in {untold \cup {d}, untold \ {d}}
            /\ UNCHANGED <<args, recursive, launcherVars, busy>>

\* The steps of Supervisor; signals of others than the launcher are among them.
Supervise(d) == /\ Moves(d)
                /\ \/ SV(d)!GiveUp \/ SV(d)!Begin \/ SV(d)!Work \/ SV(d)!Ask
                   \/ SV(d)!Tell \/ SV(d)!Reload \/ SV(d)!Gone

\* Nothing is assumed of what a launcher below the launcher starts, tells or leaves.
FansOut(d) == /\ sup[d] = "launcher"
              /\ Moves(d)
              /\ sup'[d] \in {"launcher", "ended"}

\* Time passes in a wait of the launcher.
Tick == /\ stage = "stopping" /\ at # None /\ Alive(at) /\ waited < StopWait
        /\ waited' = waited + 1
        /\ busy' = [d \in Paths |-> IF Alive(d) /\ busy[d] < StopWait THEN busy[d] + 1
                                                                   ELSE busy[d]]
        /\ UNCHANGED <<args, recursive, stage, todo, procs, asked, at, sup, untold>>

Next == \/ LauncherStep \/ Dies \/ Signal \/ Tick
        \/ \E d \in Paths : Supervise(d) \/ FansOut(d)

\* The launcher runs, and time passes.  Nothing is asked of the supervisors.
Fairness == WF_vars(LauncherStep) /\ WF_vars(Tick)

Spec == Init /\ [][Next]_vars /\ Fairness

(***************************************************************************)
(* Properties.                                                             *)
(***************************************************************************)

\* When the fan-out has ended no process of it runs, whichever ended first, and no loop
\* of a supervisor runs untold but those of one that was killed, StopWait after
\* terminate(): the other loops were told, for a supervisor does not end before that.
StopsClean ==
  stage = "over" =>
    \A d \in Paths :
      /\ ~Alive(d)
      /\ d \in untold /\ Supervises(d) => sup[d] = "killed" /\ busy[d] = StopWait

\* A signal ends the launcher, whatever a supervisor does and however long it takes.
SignalEnds == asked ~> stage \in {"over", "died"}
===============================================================================
