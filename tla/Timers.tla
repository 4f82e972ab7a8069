------------------------------- MODULE Timers -------------------------------
(***************************************************************************)
(* What the callout queue promises: a queue of functions, each with the    *)
(* number of ticks left before it may be called.                           *)
(***************************************************************************)
EXTENDS Integers, SequencesExt

CONSTANTS Funcs, MaxTicks
VARIABLES
  pending,    \* sequence of [func, left], the next to be called first
  time        \* the last bit of the time

Init == pending = <<>> /\ time = 0

\* Every clock tick brings every function one tick nearer.
Tick ==
  /\ time' = 1 - time
  /\ pending' = [i \in DOMAIN pending |->
                   [pending[i] EXCEPT !.left = Max({@ - 1, 0})]]

\* f is to be called in t ticks, before what was to be called at that time
\* already and after what is to be called sooner.
Set(f, t) ==
  \E k \in 1..Len(pending) + 1 :
    /\ \A i \in 1..k - 1 : pending[i].left < t
    /\ \A i \in k..Len(pending) : pending[i].left >= t
    /\ pending' = InsertAt(pending, k, [func |-> f, left |-> t])
    /\ UNCHANGED time

\* The next call of f, if any, is cancelled.
Cancel(f) ==
  LET k == SelectInSeq(pending, LAMBDA e : e.func = f)
  IN  /\ pending' = IF k = 0 THEN pending ELSE RemoveAt(pending, k)
      /\ UNCHANGED time

\* A function is called only when no tick is left, and in order.
Call ==
  /\ pending # <<>> /\ pending[1].left = 0
  /\ pending' = Tail(pending)
  /\ UNCHANGED time

Next == \/ Tick \/ Call
        \/ \E f \in Funcs : Cancel(f) \/ \E t \in 1..MaxTicks : Set(f, t)

Spec == Init /\ [][Next]_<<pending, time>>
=============================================================================
