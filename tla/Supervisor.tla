------------------------------ MODULE Supervisor ------------------------------
(***************************************************************************)
(* What a fan-out supervisor is to the one that started it (cli.py          *)
(* _fan_out_all_prs, seen from outside): it lists PRs and runs loops until  *)
(* it is asked to stop or has nothing left; it never comes to an end, nor   *)
(* starts anew, with a loop that nobody told to end; only a SIGKILL leaves  *)
(* such loops.  FanOut is shown to implement this module, and the          *)
(* supervisors in MultiFanOut may do whatever it allows.                   *)
(***************************************************************************)

VARIABLES sup,      \* the process
          untold    \* it has loops that nobody has told to end

vars == <<sup, untold>>

Init == sup \in {"none", "listing"} /\ untold = FALSE

Spawned == sup = "none" /\ sup' = "listing" /\ UNCHANGED untold

\* There is nothing to do, or it cannot be found out.
GiveUp == sup = "listing" /\ sup' = "ended" /\ UNCHANGED untold

Begin == sup = "listing" /\ sup' = "up" /\ untold' \in BOOLEAN

\* Loops are started, and end.
Work == sup \in {"up", "asked"} /\ UNCHANGED sup /\ untold' \in BOOLEAN

\* A signal, which the supervisor only remembers.
Ask == sup = "up" /\ sup' = "asked" /\ UNCHANGED untold

\* Mutant: the end tells some loops only.
TellSome == sup \in {"up", "asked"} /\ sup' = "stopping" /\ untold' \in BOOLEAN

\* However the supervision ends, all loops are told.
Tell == sup \in {"up", "asked"} /\ sup' = "stopping" /\ untold' = FALSE

\* SIGHUP: all loops are told, and it starts anew.
Reload == sup = "asked" /\ sup' = "listing" /\ untold' = FALSE

Gone == sup = "stopping" /\ sup' = "ended" /\ UNCHANGED untold

\* SIGKILL.
Killed == sup \notin {"none", "ended", "killed"} /\ sup' = "killed" /\ UNCHANGED untold

Next == Spawned \/ GiveUp \/ Begin \/ Work \/ Ask \/ Tell \/ Reload \/ Gone \/ Killed

Spec == Init /\ [][Next]_vars
===============================================================================
