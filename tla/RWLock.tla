------------------------------- MODULE RWLock -------------------------------
(***************************************************************************)
(* What a readers/writer lock promises its callers: a mode per thread,     *)
(* changed by one thread at a time and only to a mode that is compatible   *)
(* with what the others hold.  A shared mode may turn exclusive, and back, *)
(* with no other writer in between.                                        *)
(***************************************************************************)
CONSTANT Threads
VARIABLE mode

Modes == {"none", "shared", "exclusive"}

Init == mode = [t \in Threads |-> "none"]

Compatible(m, n) == m = "none" \/ n = "none" \/ (m = "shared" /\ n = "shared")

Change(t, m) ==
  /\ \A u \in Threads \ {t} : Compatible(m, mode[u])
  /\ mode' = [mode EXCEPT ![t] = m]

Next == \E t \in Threads, m \in Modes : Change(t, m)

Spec == Init /\ [][Next]_mode
=============================================================================
