----------------------------- MODULE AtLeastOnce -----------------------------
(***************************************************************************)
(* What a buffer between the webhook and the SFMC Data Extension promises, *)
(* whatever its batching, retries and timers: a record that was accepted   *)
(* leaves the buffer only after SFMC has it.  SFMC may get the same record *)
(* more than once, and a record that is still held when the process stops  *)
(* is gone.                                                                *)
(***************************************************************************)
EXTENDS Naturals

CONSTANT Items        \* the records that may be handed to the buffer

VARIABLES accepted,   \* records the buffer took responsibility for
          held,       \* records the buffer still has
          inserted,   \* records that are rows of the Data Extension
          running     \* the process that holds the buffer is alive

vars == <<accepted, held, inserted, running>>

TypeOK ==
  /\ accepted \subseteq Items
  /\ held \subseteq accepted
  /\ inserted \subseteq accepted
  /\ running \in BOOLEAN

Init ==
  /\ accepted = {}
  /\ held = {}
  /\ inserted = {}
  /\ running = TRUE

\* A record that was never seen before is taken over.
Accept(i) ==
  /\ running
  /\ i \in Items \ accepted
  /\ accepted' = accepted \cup {i}
  /\ held' = held \cup {i}
  /\ UNCHANGED <<inserted, running>>

\* Some held records reach SFMC (written) and the buffer drops some of those it
\* knows to be there (confirmed): an attempt that fails half-way, or whose answer
\* is lost, writes records without dropping them.
Deliver(written, confirmed) ==
  /\ running
  /\ written \subseteq held
  /\ inserted' = inserted \cup written
  /\ confirmed \subseteq held \cap inserted'
  /\ held' = held \ confirmed
  /\ UNCHANGED <<accepted, running>>

\* The process ends; what it held is no longer delivered by anybody.
Stop ==
  /\ running
  /\ running' = FALSE
  /\ UNCHANGED <<accepted, held, inserted>>

Next ==
  \/ \E i \in Items : Accept(i)
  \/ \E written, confirmed \in SUBSET held : Deliver(written, confirmed)
  \/ Stop

Spec == Init /\ [][Next]_vars
==============================================================================
