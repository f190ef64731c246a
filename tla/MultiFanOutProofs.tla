--------------------------- MODULE MultiFanOutProofs ---------------------------
(***************************************************************************)
(* Theorems about MultiFanOut, for any directories, arguments and times:   *)
(* the types, and how the fan-out ends.  Of the supervisors only the steps *)
(* of module Supervisor are used, which FanOut is proved to implement.     *)
(***************************************************************************)
EXTENDS MultiFanOut, TLAPS

USE DistinctDirs, TimesNat

\* A supervisor with loops nobody has told is at work, asked, or was killed late.
UntoldInv ==
  \A d \in Paths :
    Supervises(d) => /\ sup[d] # "launcher"
                     /\ d \in untold => sup[d] \in {"up", "asked", "killed"}
                     /\ d \in untold /\ sup[d] = "killed" => busy[d] = StopWait

\* The launcher knows every process that lives: in procs while it starts and polls, in
\* todo while it stops them.
KnownInv ==
  /\ stage = "spawn" => \A d \in todo : sup[d] = "none"
  /\ stage \in {"spawn", "poll"} => \A d \in Paths : Alive(d) => d \in procs
  /\ stage = "stopping" => \A d \in Paths : Alive(d) => d \in todo
  /\ stage = "over" => \A d \in Paths : ~Alive(d)

\* The process it waits for was terminated before the wait began.
WaitInv == stage = "stopping" /\ at # None /\ Alive(at) => busy[at] >= waited

Inv == TypeOK /\ UntoldInv /\ KnownInv /\ WaitInv

(***************************************************************************)
(* The initial states.                                                     *)
(***************************************************************************)
LEMMA TargetsArePaths == args \in SUBSET Argument => Targets \subseteq Paths
BY DEF Targets, Resolve, Argument, Paths

LEMMA InvInit == Init => Inv
<1> SUFFICES ASSUME Init PROVE Inv
  OBVIOUS
<1>1. todo \subseteq Paths
  BY TargetsArePaths DEF Init
<1>2. TypeOK
  <2>1. recursive \in BOOLEAN /\ asked \in BOOLEAN /\ args \in SUBSET Argument
    BY Zenon DEF Init
  <2>2. /\ stage = "spawn" /\ procs = {} /\ untold = {} /\ at = None /\ waited = 0
        /\ sup = [d \in Paths |-> "none"] /\ busy = [d \in Paths |-> 0]
    BY DEF Init
  <2>3. sup \in [Paths -> States] /\ busy \in [Paths -> 0..StopWait]
    BY <2>2 DEF States
  <2> QED
    BY <1>1, <2>1, <2>2, <2>3 DEF TypeOK
<1>3. UntoldInv /\ KnownInv /\ WaitInv
  BY <1>1 DEF Init, UntoldInv, KnownInv, WaitInv, Alive
<1> QED
  BY <1>2, <1>3 DEF Inv

\* What a process is given does not change.
LEMMA SameArgs == UNCHANGED <<args, recursive>> => \A d : Supervises(d)' = Supervises(d)
BY DEF Supervises, ChildArgs, Targets

(***************************************************************************)
(* The launcher.                                                           *)
(***************************************************************************)
LEMMA InvLaunch == ASSUME Inv, NEW d \in Paths, Launch(d) PROVE Inv'
<1> USE DEF Inv, Launch
<1>1. sup[d] = "none" /\ (Supervises(d) => d \notin untold)
  BY DEF KnownInv, UntoldInv
<1>2. TypeOK'
  BY DEF TypeOK, States
<1>3. UntoldInv'
  BY <1>1, SameArgs DEF TypeOK, UntoldInv
<1>4. KnownInv'
  BY <1>1 DEF TypeOK, KnownInv, Alive
<1>5. WaitInv'
  BY DEF TypeOK, WaitInv
<1> QED
  BY <1>2, <1>3, <1>4, <1>5

\* The steps of the launcher that leave the processes alone.
LEMMA UntoldKept == Inv /\ UNCHANGED <<args, recursive, supVars>> => UntoldInv'
BY SameArgs DEF Inv, UntoldInv, supVars

LEMMA InvDies == Inv /\ Dies => Inv'
BY UntoldKept DEF Inv, Dies, supVars, TypeOK, KnownInv, WaitInv, Alive

LEMMA InvPoll == Inv /\ Poll => Inv'
BY UntoldKept DEF Inv, Poll, supVars, TypeOK, KnownInv, WaitInv, Alive

\* What a signal does to the processes of a set.
LEMMA SignalledFact ==
  ASSUME Inv, NEW S \in SUBSET Paths, UNCHANGED <<args, recursive, untold, busy>>,
         sup' = [d \in Paths |-> IF d \in S THEN Signalled(d) ELSE sup[d]]
  PROVE  /\ UntoldInv'
         /\ sup' \in [Paths -> States]
         /\ \A d \in Paths : Alive(d)' => Alive(d)
<1>1. \A d \in Paths : /\ sup[d] = "listing" => Signalled(d) = "ended"
                       /\ sup[d] = "up" => Signalled(d) = "asked"
                       /\ sup[d] \notin {"listing", "up"} => Signalled(d) = sup[d]
  BY DEF Signalled
<1> QED
  BY <1>1, SameArgs DEF Inv, TypeOK, UntoldInv, Alive, States

LEMMA InvSignal == Inv /\ Signal => Inv'
<1> SUFFICES ASSUME Inv, Signal PROVE Inv'
  OBVIOUS
<1>1. CASE UNCHANGED sup
  BY <1>1, UntoldKept DEF Inv, Signal, supVars, TypeOK, KnownInv, WaitInv, Alive
<1>2. CASE sup' = [d \in Paths |-> Signalled(d)]
  <2>1. sup' = [d \in Paths |-> IF d \in Paths THEN Signalled(d) ELSE sup[d]]
    BY <1>2
  <2>2. /\ UntoldInv'
        /\ sup' \in [Paths -> States]
        /\ \A d \in Paths : Alive(d)' => Alive(d)
    BY <2>1, SignalledFact DEF Signal
  <2>3. TypeOK'
    BY <2>2 DEF Inv, TypeOK, Signal
  <2>4. KnownInv'
    BY <2>2 DEF Inv, KnownInv, Signal
  <2>5. WaitInv'
    BY DEF WaitInv, Signal
  <2> QED
    BY <2>2, <2>3, <2>4, <2>5 DEF Inv
<1> QED
  BY <1>1, <1>2 DEF Signal

LEMMA InvTerminate == Inv /\ Terminate => Inv'
<1> SUFFICES ASSUME Inv, Terminate PROVE Inv'
  OBVIOUS
<1>1. /\ UntoldInv'
      /\ sup' \in [Paths -> States]
      /\ \A d \in Paths : Alive(d)' => Alive(d)
  BY SignalledFact DEF Terminate, Inv, TypeOK
<1>2. TypeOK' /\ at' = None
  BY <1>1 DEF Inv, TypeOK, Terminate
<1>3. KnownInv'
  BY <1>1 DEF Inv, KnownInv, Terminate
<1>4. WaitInv'
  BY <1>2 DEF WaitInv
<1> QED
  BY <1>1, <1>2, <1>3, <1>4 DEF Inv

LEMMA InvWait == ASSUME Inv, NEW d \in Paths, WaitFor(d) PROVE Inv'
BY UntoldKept DEF Inv, WaitFor, supVars, TypeOK, KnownInv, WaitInv, Alive

LEMMA InvWaitOver == Inv /\ WaitOver => Inv'
BY UntoldKept DEF Inv, WaitOver, supVars, TypeOK, KnownInv, WaitInv, Alive

LEMMA InvKill == Inv /\ Kill => Inv'
<1> SUFFICES ASSUME Inv, Kill PROVE Inv'
  OBVIOUS
<1> USE DEF Inv, Kill
<1>1. at \in Paths
  BY DEF TypeOK
<1>2. busy[at] = StopWait
  BY <1>1 DEF WaitInv, TypeOK
<1>3. TypeOK'
  BY <1>1 DEF TypeOK, States
<1>4. UntoldInv'
  BY <1>1, <1>2, SameArgs DEF TypeOK, UntoldInv
<1>5. KnownInv'
  BY <1>1 DEF TypeOK, KnownInv, Alive
<1>6. WaitInv'
  BY DEF WaitInv
<1> QED
  BY <1>3, <1>4, <1>5, <1>6

LEMMA InvExit == Inv /\ Exit => Inv'
BY UntoldKept DEF Inv, Exit, supVars, TypeOK, KnownInv, WaitInv, Alive

(***************************************************************************)
(* The processes, and time.                                                *)
(***************************************************************************)

\* A process that is alive, and moves on without a kill, leaves the launcher as it is.
LEMMA InvMoves ==
  ASSUME Inv, NEW d \in Paths, Moves(d), Alive(d), sup'[d] \notin {"none", "killed"},
         Supervises(d) => /\ sup'[d] # "launcher"
                          /\ d \in untold' => sup'[d] \in {"up", "asked"}
  PROVE  Inv'
<1> USE DEF Inv, Moves, launcherVars
<1>1. PICK s \in States : sup' = [sup EXCEPT ![d] = s]
  OBVIOUS
<1>2. TypeOK'
  BY <1>1 DEF TypeOK
<1>3. /\ \A e \in Paths : e # d => sup'[e] = sup[e] /\ (e \in untold' <=> e \in untold)
      /\ UNCHANGED <<args, recursive, stage, todo, procs, asked, at, waited, busy>>
  BY <1>1 DEF TypeOK
<1>4. UntoldInv'
  BY <1>3, SameArgs DEF UntoldInv
<1>5. \A e \in Paths : (sup'[e] = "none" <=> sup[e] = "none") /\ (Alive(e)' => Alive(e))
  BY <1>3 DEF Alive
<1>6. KnownInv'
  BY <1>3, <1>5 DEF KnownInv, TypeOK
<1>7. WaitInv'
  BY <1>3, <1>5 DEF WaitInv, TypeOK
<1> QED
  BY <1>2, <1>4, <1>6, <1>7

\* Each step of Supervisor.
LEMMA InvSupervise == ASSUME Inv, NEW d \in Paths, Supervise(d) PROVE Inv'
<1>1. /\ Moves(d) /\ Alive(d)
      /\ sup'[d] \in {"listing", "up", "asked", "stopping", "ended"}
      /\ d \in untold' => \/ d \in untold /\ sup[d] \notin {"up", "asked"}
                          \/ sup'[d] \in {"up", "asked"}
  BY DEF Supervise, Alive, SV!GiveUp, SV!Begin, SV!Work, SV!Ask, SV!Tell, SV!Reload, SV!Gone
<1>2. Supervises(d) /\ d \in untold' => sup'[d] \in {"up", "asked"}
  BY <1>1 DEF Inv, UntoldInv, Alive
<1> QED
  BY <1>1, <1>2, InvMoves

LEMMA InvFansOut == ASSUME Inv, NEW d \in Paths, FansOut(d) PROVE Inv'
<1>1. ~Supervises(d) /\ Alive(d)
  BY DEF FansOut, Inv, UntoldInv, Alive
<1> QED
  BY <1>1, InvMoves DEF FansOut

LEMMA InvTick == Inv /\ Tick => Inv'
<1> SUFFICES ASSUME Inv, Tick PROVE Inv'
  OBVIOUS
<1> USE DEF Inv, Tick
<1>1. TypeOK'
  BY DEF TypeOK
<1>2. UntoldInv'
  BY SameArgs DEF TypeOK, UntoldInv, Alive
<1>3. KnownInv'
  BY DEF KnownInv, Alive
<1>4. WaitInv'
  BY DEF TypeOK, WaitInv, Alive
<1> QED
  BY <1>1, <1>2, <1>3, <1>4

LEMMA InvNext == Inv /\ [Next]_vars => Inv'
<1> SUFFICES ASSUME Inv, [Next]_vars PROVE Inv'
  OBVIOUS
<1>1. CASE LauncherStep
  BY <1>1, InvPoll, InvTerminate, InvWaitOver, InvKill, InvExit, InvLaunch, InvWait
  DEF LauncherStep
<1>2. CASE Dies \/ Signal \/ Tick
  BY <1>2, InvDies, InvSignal, InvTick
<1>3. ASSUME NEW d \in Paths, Supervise(d) \/ FansOut(d)
      PROVE Inv'
  BY <1>3, InvSupervise, InvFansOut
<1>4. CASE UNCHANGED vars
  BY <1>4, UntoldKept DEF vars, launcherVars, supVars, Inv, TypeOK, KnownInv, WaitInv, Alive
<1> QED
  BY <1>1, <1>2, <1>3, <1>4 DEF Next

LEMMA Invariant == Spec => []Inv
BY InvInit, InvNext, PTL DEF Spec

(***************************************************************************)
(* Theorems.                                                               *)
(***************************************************************************)

\* The types, and that a process is waited for only while the launcher stops and has it
\* still to wait for.
THEOREM TypeCorrect == Spec => []TypeOK
<1>1. Inv => TypeOK
  BY DEF Inv
<1> QED
  BY <1>1, Invariant, PTL

\* When the fan-out is over no process of it runs, and the loops that nobody told to end
\* are those of a supervisor killed StopWait after terminate().
THEOREM FanOutStopsClean == Spec => []StopsClean
<1>1. Inv => StopsClean
  BY DEF Inv, TypeOK, UntoldInv, KnownInv, StopsClean, Alive
<1> QED
  BY <1>1, Invariant, PTL
================================================================================
