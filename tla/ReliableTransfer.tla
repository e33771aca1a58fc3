-------------------------- MODULE ReliableTransfer --------------------------
(***************************************************************************)
(* What moving captured events from one place to another promises, in      *)
(* terms of the events alone: the source holds what has been captured, the *)
(* destination what has been delivered, and the source lets go of an event *)
(* only once the destination has it.  Copies are harmless, and delivery    *)
(* may be repeated.                                                        *)
(***************************************************************************)
CONSTANT Events

VARIABLES
  held,       \* events the source still has
  delivered   \* events the destination has

vars == <<held, delivered>>

TypeOK == held \subseteq Events /\ delivered \subseteq Events

Init == held = {} /\ delivered = {}

\* Events are captured.
Capture ==
  \E S \in SUBSET (Events \ (held \cup delivered)) :
    held' = held \cup S /\ UNCHANGED delivered

\* One held event reaches the destination, again perhaps.
Deliver ==
  \E e \in held : delivered' = delivered \cup {e} /\ UNCHANGED held

\* The source forgets events, all of which have been delivered.
Release ==
  \E S \in SUBSET (held \cap delivered) :
    held' = held \ S /\ UNCHANGED delivered

Next == Capture \/ Deliver \/ Release

Spec == Init /\ [][Next]_vars
=============================================================================
