------------------------------ MODULE Promises ------------------------------
(***************************************************************************)
(* What a caller of src/app/signal/index.js is promised of the requests    *)
(* whose answer it awaits (trust, isAlive, healthcheck, register): the     *)
(* promise settles at most once, and it is resolved only when the other    *)
(* side has done what was asked.  A rejected promise says nothing.         *)
(***************************************************************************)
CONSTANTS
  Call,      \* promises handed to callers
  Effect,    \* what a call may ask for
  NoEffect   \* stands for "nothing" in a call nobody made yet

VARIABLES
  outcome,   \* how each promise stands
  effect,    \* what each call asks for
  done       \* what the other side has done

vars == <<outcome, effect, done>>

Init ==
  /\ outcome = [c \in Call |-> "none"]
  /\ effect = [c \in Call |-> NoEffect]
  /\ done = {}

Ask(c, e) ==
  /\ outcome[c] = "none"
  /\ outcome' = [outcome EXCEPT ![c] = "pending"]
  /\ effect' = [effect EXCEPT ![c] = e]
  /\ UNCHANGED done

Perform(e) ==
  /\ done' = done \cup {e}
  /\ UNCHANGED <<outcome, effect>>

Resolve(c) ==
  /\ outcome[c] = "pending"
  /\ effect[c] \in done
  /\ outcome' = [outcome EXCEPT ![c] = "resolved"]
  /\ UNCHANGED <<effect, done>>

Reject(c) ==
  /\ outcome[c] = "pending"
  /\ outcome' = [outcome EXCEPT ![c] = "rejected"]
  /\ UNCHANGED <<effect, done>>

Next ==
  \/ \E c \in Call, e \in Effect : Ask(c, e)
  \/ \E e \in Effect : Perform(e)
  \/ \E c \in Call : Resolve(c) \/ Reject(c)

Spec == Init /\ [][Next]_vars

=============================================================================
