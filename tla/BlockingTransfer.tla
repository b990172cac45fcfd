-------------------------- MODULE BlockingTransfer --------------------------
(***************************************************************************)
(* What a blocking transfer function of the SDK promises to the tasks that *)
(* call it.  One task at a time owns the instance; its call consists of    *)
(* one or more phases, each of a number of words; words move only while a  *)
(* phase runs, never more than it has; a phase either ends with all words  *)
(* moved or is reported as a failure.  A program that takes the instance   *)
(* away from its users (`void') is promised nothing.                       *)
(***************************************************************************)
EXTENDS Integers

CONSTANTS Tasks, None

VARIABLES
  owner,   \* the task inside the call, or None
  busy,    \* a phase runs
  ok,      \* no phase of this call has failed
  moved, total,  \* words of the last phase: moved, and all of them
  void     \* the promise is void

vars == <<owner, busy, ok, moved, total, void>>

Init ==
  /\ owner = None /\ busy = FALSE /\ ok = TRUE
  /\ moved = 0 /\ total = 0 /\ void = FALSE

\* Between calls the instance may be initialised or deinitialised, which may
\* make the promise good again.
Reset ==
  /\ owner' = None /\ ~busy' /\ ok' /\ moved' = 0 /\ total' = 0 /\ ~void'
  /\ void \/ owner = None

Enter(t) ==
  /\ owner = None
  /\ owner' = t /\ ok' = TRUE
  /\ UNCHANGED <<busy, moved, total, void>>

StartPhase ==
  /\ owner # None /\ ~busy /\ ok
  /\ busy' = TRUE /\ moved' = 0 /\ total' \in Nat
  /\ UNCHANGED <<owner, ok, void>>

\* A phase may also fail before it has begun.
Refuse ==
  /\ owner # None /\ ~busy /\ ok' = FALSE
  /\ UNCHANGED <<owner, busy, moved, total, void>>

Move ==
  /\ busy /\ moved' \in moved + 1 .. total
  /\ UNCHANGED <<owner, busy, ok, total, void>>

EndPhase ==
  /\ busy /\ moved = total
  /\ busy' = FALSE
  /\ UNCHANGED <<owner, ok, moved, total, void>>

FailPhase ==
  /\ busy /\ busy' = FALSE /\ ok' = FALSE
  /\ UNCHANGED <<owner, moved, total, void>>

Leave ==
  /\ owner # None /\ ~busy
  /\ owner' = None /\ ok' = TRUE
  /\ UNCHANGED <<busy, moved, total, void>>

Next ==
  \/ void'
  \/ Reset \/ StartPhase \/ Refuse \/ Move \/ EndPhase \/ FailPhase \/ Leave
  \/ \E t \in Tasks : Enter(t)

Spec == Init /\ [][Next]_vars
=============================================================================
