----------------------------- MODULE MessageStore -----------------------------
(***************************************************************************)
(* What the queue of the TS runtime promises, whatever its batches, its    *)
(* two workers, their push-backs and the lists behind them: an accepted    *)
(* message is in one place, and leaves the store only after SFMC was asked *)
(* to take it, or together with the process that had it in memory.  A      *)
(* message that waits was never offered to SFMC, and a dead letter stays   *)
(* one.                                                                    *)
(*                                                                         *)
(* It does not promise that SFMC has the messages that left: an upsert may *)
(* end with status ERROR.                                                  *)
(***************************************************************************)

CONSTANT Messages

VARIABLES accepted,   \* messages the store took responsibility for
          waiting,    \* messages that wait for their first upsert
          delayed,    \* messages that wait for a retry
          dead,       \* dead letters
          taken,      \* messages in the memory of the process
          offered,    \* messages SFMC was asked to take
          inserted    \* messages that are rows of the Data Extension

vars == <<accepted, waiting, delayed, dead, taken, offered, inserted>>

Init ==
  /\ accepted = {} /\ waiting = {} /\ delayed = {} /\ dead = {} /\ taken = {}
  /\ offered = {} /\ inserted = {}

\* A message that was never seen before.
Accept(m) ==
  /\ m \notin accepted
  /\ accepted' = accepted \cup {m}
  /\ waiting' = waiting \cup {m}
  /\ UNCHANGED <<delayed, dead, taken, offered, inserted>>

\* A worker takes a message out of its list.
Take(m) ==
  /\ \/ m \in waiting /\ waiting' = waiting \ {m} /\ UNCHANGED delayed
     \/ m \in delayed /\ delayed' = delayed \ {m} /\ UNCHANGED waiting
  /\ taken' = taken \cup {m}
  /\ UNCHANGED <<accepted, dead, offered, inserted>>

\* A worker puts a message it took into a list, to the others only if it was
\* never offered.
Put(m) ==
  /\ m \in taken
  /\ taken' = taken \ {m}
  /\ \/ /\ m \notin offered
        /\ waiting' = waiting \cup {m} /\ UNCHANGED <<delayed, dead>>
     \/ delayed' = delayed \cup {m} /\ UNCHANGED <<waiting, dead>>
     \/ dead' = dead \cup {m} /\ UNCHANGED <<waiting, delayed>>
  /\ UNCHANGED <<accepted, offered, inserted>>

\* SFMC is asked to take a message, and may do so whatever it answers; the worker
\* is done with it, or keeps it for the end of its batch.
Offer(m) ==
  /\ m \in taken
  /\ offered' = offered \cup {m}
  /\ inserted' \in {inserted, inserted \cup {m}}
  /\ taken' \in {taken, taken \ {m}}
  /\ UNCHANGED <<accepted, waiting, delayed, dead>>

\* A worker is done with messages it has offered, and with no others.
Finish ==
  /\ taken' \in SUBSET taken
  /\ taken \ taken' \subseteq offered
  /\ UNCHANGED <<accepted, waiting, delayed, dead, offered, inserted>>

\* The process ends.
Lose ==
  /\ taken' = {}
  /\ UNCHANGED <<accepted, waiting, delayed, dead, offered, inserted>>

Next ==
  \/ \E m \in Messages : Accept(m) \/ Take(m) \/ Put(m) \/ Offer(m)
  \/ Finish
  \/ Lose

Spec == Init /\ [][Next]_vars
===============================================================================
