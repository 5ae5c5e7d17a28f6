------------------------------ MODULE BuildLog ------------------------------
(***************************************************************************)
(* What the generations of one project make of its build history when no   *)
(* unlocked process interferes: they write it one after another, each at   *)
(* its newest end.  A writer takes its entry back or keeps it; it deletes  *)
(* older entries only once it has kept its own; and one that succeeds      *)
(* leaves its own entry as the newest.                                     *)
(***************************************************************************)
EXTENDS Naturals

CONSTANTS
  Gens,         \* the generations
  Numbers,      \* build numbers
  KeepHistory,  \* whether a success keeps its entry
  Faults        \* whether taking an entry back may fail

VARIABLES
  log,          \* the entries: a build number and the generation that made it
  state         \* how far a generation has come

Newest(e) == \A f \in log : f.number <= e.number

\* The history ends with an entry of g.
EndsWith(g) == \E e \in log : Newest(e) /\ e.gen = g

Move(g, from, to) ==
  /\ state[g] \in from
  /\ state' = [state EXCEPT ![g] = to]

Init ==
  /\ log = {}
  /\ state = [g \in Gens |-> "open"]

\* A generation begins to write when no other is at it.
Add(g) ==
  /\ \A h \in Gens : state[h] \notin {"writing", "kept", "closing"}
  /\ Move(g, {"open"}, "writing")
  /\ \E n \in Numbers :
       /\ \A e \in log : e.number < n
       /\ log' = log \cup {[number |-> n, gen |-> g]}

Commit(g) ==
  /\ EndsWith(g)
  /\ Move(g, {"writing"}, "kept")
  /\ UNCHANGED log

Trim(g) ==
  /\ state[g] = "kept"
  /\ log' \subseteq log
  /\ EndsWith(g) /\ EndsWith(g)'
  /\ UNCHANGED state

TakeBack(g) ==
  /\ EndsWith(g)
  /\ Move(g, {"writing"}, "closing")
  /\ \/ log' = {e \in log : ~Newest(e)}
     \/ Faults /\ UNCHANGED log

Close(g) ==
  /\ Move(g, {"open", "kept"}, "closing")
  /\ UNCHANGED log

Succeed(g) ==
  /\ KeepHistory => EndsWith(g)
  /\ Move(g, {"closing"}, "done")
  /\ UNCHANGED log

Fail(g) == Move(g, {"open", "closing"}, "failed") /\ UNCHANGED log

Crash(g) ==
  /\ Move(g, {"open", "writing", "kept", "closing"}, "crashed")
  /\ UNCHANGED log

Next ==
  \E g \in Gens :
    \/ Add(g) \/ Commit(g) \/ Trim(g) \/ TakeBack(g) \/ Close(g)
    \/ Succeed(g) \/ Fail(g) \/ Crash(g)

Spec == Init /\ [][Next]_<<log, state>>

=============================================================================
