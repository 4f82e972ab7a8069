------------------------------ MODULE ByteLocks ------------------------------
(***************************************************************************)
(* What advisory locking promises of one file: every byte is locked by any *)
(* number of readers or by one writer.  A request of an owner, to lock or  *)
(* to unlock a range, changes every byte of the range at once and no other *)
(* byte, if nobody else's lock conflicts.  If one does, it changes nothing *)
(* and may be made again; but who uses flock and asks for writing gives up *)
(* what it has before it waits.                                            *)
(***************************************************************************)
EXTENDS Integers

CONSTANTS Procs, Flocks, Bytes

VARIABLE own       \* own[p][b]: how p has locked byte b

LockTypes == {"F_UNLCK", "F_RDLCK", "F_WRLCK"}
Intervals == {{b \in Bytes : i <= b /\ b <= j} : i, j \in Bytes}

Init == own = [p \in Procs |-> [b \in Bytes |-> "F_UNLCK"]]

Compatible(t, u) == t = "F_UNLCK" \/ u = "F_UNLCK" \/ (t = "F_RDLCK" /\ u = "F_RDLCK")

Granted(p, range, t) == \A b \in range, q \in Procs \ {p} : Compatible(t, own[q][b])

Change(p, range, t) ==
  own' = [own EXCEPT ![p] = [b \in Bytes |-> IF b \in range THEN t ELSE @[b]]]

Request(p, range, t) ==
  \/ Granted(p, range, t) /\ Change(p, range, t)
  \/ ~ Granted(p, range, t) /\ p \in Flocks /\ t = "F_WRLCK" /\ Change(p, range, "F_UNLCK")
  \/ ~ Granted(p, range, t) /\ ~ (p \in Flocks /\ t = "F_WRLCK") /\ UNCHANGED own

Next == \E p \in Procs, range \in Intervals, t \in LockTypes : Request(p, range, t)

Spec == Init /\ [][Next]_own
=============================================================================
