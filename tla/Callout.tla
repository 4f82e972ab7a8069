------------------------------- MODULE Callout -------------------------------
(***************************************************************************)
(* The callout queue of kern/kern_clock.c: functions to be called from the *)
(* software clock interrupt after a number of clock ticks.  The queue      *)
(* stores, for each entry, the ticks between it and the entry before it;   *)
(* entries that are due stand at its front with times of zero or less.     *)
(*                                                                         *)
(* hardclock interrupts everything.  The other routines touch the queue at *)
(* splhigh and are atomic, except that softclock lowers the priority to    *)
(* call a function that it has taken off the queue.                        *)
(***************************************************************************)
EXTENDS Integers, SequencesExt

CONSTANTS
  Funcs,      \* the (func, arg) pairs that callers pass
  NoFunc,
  MaxTicks,   \* bound on the t of timeout
  NCallout    \* size of the callout table (ncallout)

ASSUME NoFuncFresh == NoFunc \notin Funcs
ASSUME MaxTicksPos == MaxTicks \in Nat \ {0}
ASSUME NCalloutPos == NCallout \in Nat \ {0}

VARIABLES
  calltodo,   \* sequence of [c_func, c_time]
  softint,    \* a software clock interrupt has been requested
  insoft,     \* softclock is running
  called,     \* the function that softclock is calling
  time        \* the time of day, of which only the last bit is kept

vars == <<calltodo, softint, insoft, called, time>>

TypeOK ==
  /\ calltodo \in Seq([c_func : Funcs, c_time : -1..MaxTicks])
  /\ Len(calltodo) <= NCallout
  /\ softint \in BOOLEAN /\ insoft \in BOOLEAN
  /\ called \in Funcs \cup {NoFunc}
  /\ time \in 0..1

Init ==
  /\ calltodo = <<>>
  /\ softint = FALSE /\ insoft = FALSE
  /\ called = NoFunc
  /\ time = 0

-----------------------------------------------------------------------------
\* c_time is decremented by one tick.  Only the sign of the time of an
\* overdue entry is ever looked at, so -1 stands for all of them.
Decremented(c) == [c EXCEPT !.c_time = IF @ > 0 THEN @ - 1 ELSE -1]

HeadDue == calltodo # <<>> /\ calltodo[1].c_time <= 0

\* mutant: only the first entry is decremented, due or not
hardclock_head ==
  /\ calltodo' = [i \in DOMAIN calltodo |->
                    IF i = 1 THEN Decremented(calltodo[i]) ELSE calltodo[i]]
  /\ softint' = (softint \/ HeadDue')
  /\ time' = 1 - time
  /\ UNCHANGED <<insoft, called>>

\* The loop decrements the due entries and the first that is not yet due.
hardclock ==
  LET reached(i) == \A j \in 1..i - 1 : calltodo[j].c_time <= 0
  IN  /\ calltodo' = [i \in DOMAIN calltodo |->
                        IF reached(i) THEN Decremented(calltodo[i])
                                      ELSE calltodo[i]]
      /\ softint' = (softint \/ HeadDue')
      /\ time' = 1 - time
      /\ UNCHANGED <<insoft, called>>

\* The head of the queue is taken off and called if it is due.
softclock_loop ==
  \/ /\ HeadDue
     /\ called' = calltodo[1].c_func
     /\ calltodo' = Tail(calltodo)
     /\ insoft' = TRUE
  \/ /\ ~HeadDue
     /\ insoft' = FALSE
     /\ called' = NoFunc
     /\ UNCHANGED calltodo

softclock ==
  /\ softint /\ ~insoft
  /\ softint' = FALSE
  /\ softclock_loop
  /\ UNCHANGED time

\* The function has returned; softclock looks at the queue again.
softclock_again ==
  /\ insoft
  /\ softclock_loop
  /\ UNCHANGED <<softint, time>>

-----------------------------------------------------------------------------
\* the ticks left before each entry of q is due
Left(q) ==
  LET sum[i \in 0..Len(q)] ==
        IF i = 0 THEN 0 ELSE sum[i - 1] + Max({q[i].c_time, 0})
  IN  sum

Entry(f, t) == [c_func |-> f, c_time |-> t]

\* q with t taken off the time of entry k, if there is one
Shortened(q, k, t) ==
  IF k \in DOMAIN q THEN [q EXCEPT ![k].c_time = @ - t] ELSE q

\* mutant: the walk stops at entries that are due
timeout_before_due(f, t0) ==
  LET t == Max({t0, 1})
      rest(k) == t - Left(calltodo)[k - 1]
      stop(k) == \/ k = Len(calltodo) + 1
                 \/ calltodo[k].c_time <= 0
                 \/ calltodo[k].c_time >= rest(k)
      k == CHOOSE n \in 1..Len(calltodo) + 1 :
             stop(n) /\ \A m \in 1..n - 1 : ~stop(m)
  IN  /\ Len(calltodo) < NCallout
      /\ calltodo' = InsertAt(calltodo, k, Entry(f, rest(k)))
      /\ UNCHANGED <<softint, insoft, called, time>>

\* A full table is a panic, which ends the system.
timeout(f, t0) ==
  LET t == Max({t0, 1})
      rest(k) == t - Left(calltodo)[k - 1]
      stop(k) == k = Len(calltodo) + 1 \/ calltodo[k].c_time >= rest(k)
      k == CHOOSE n \in 1..Len(calltodo) + 1 :
             stop(n) /\ \A m \in 1..n - 1 : ~stop(m)
  IN  /\ Len(calltodo) < NCallout
      /\ calltodo' = InsertAt(Shortened(calltodo, k, rest(k)), k,
                              Entry(f, rest(k)))
      /\ UNCHANGED <<softint, insoft, called, time>>

\* The first entry for f is removed; its time passes to the next one.
untimeout(f) ==
  LET k == SelectInSeq(calltodo, LAMBDA c : c.c_func = f)
  IN  /\ k # 0
      /\ calltodo' = RemoveAt(Shortened(calltodo, k + 1,
                                        -Max({calltodo[k].c_time, 0})), k)
      /\ UNCHANGED <<softint, insoft, called, time>>

-----------------------------------------------------------------------------
Next ==
  \/ hardclock \/ softclock \/ softclock_again
  \/ \E f \in Funcs : untimeout(f) \/ \E t \in 0..MaxTicks : timeout(f, t)

Spec == Init /\ [][Next]_vars

\* The clock ticks, and a software interrupt is taken and returns.
FairSpec == /\ Spec
            /\ WF_vars(hardclock)
            /\ WF_vars(softclock)
            /\ WF_vars(softclock_again)

-----------------------------------------------------------------------------
\* what the queue q stands for
Pending(q) == [i \in DOMAIN q |-> [func |-> q[i].c_func, left |-> Left(q)[i]]]

T == INSTANCE Timers WITH pending <- Pending(calltodo)

\* The deltas are an encoding of the time left to each entry: nothing is
\* called early or out of order, and neither a tick that finds entries
\* overdue, nor an insertion or a removal in the middle of the queue,
\* changes the time left to any other entry.
ImplementsTimers == T!Spec

\* The deltas add up to no more than the longest time asked for, so that
\* what an entry inherits from one that is removed fits into its type.
Bounded == \A i \in 0..Len(calltodo) : Left(calltodo)[i] <= MaxTicks

\* Overdue entries have nothing before them that is not due, so that no
\* delta is ever added to a negative time.
OverdueFirst ==
  \A i \in DOMAIN calltodo : calltodo[i].c_time < 0 => Left(calltodo)[i] = 0

\* The inductive invariant.
IInv == TypeOK /\ Bounded /\ OverdueFirst

\* An entry of f does not stay overdue for ever, whatever is put on the
\* queue meanwhile, unless f keeps being called or cancelled: nothing
\* overtakes an overdue entry again and again.
Overdue(f) == \E i \in DOMAIN calltodo :
                calltodo[i].c_func = f /\ calltodo[i].c_time < 0

OverdueIsCalled ==
  \A f \in Funcs : \/ []<>~Overdue(f)
                   \/ []<>(called = f)
                   \/ []<><<untimeout(f)>>_vars
=============================================================================
