----------------------------- MODULE EventStore -----------------------------
(***************************************************************************)
(* What the pipeline promises of one table of events, without saying how:  *)
(* usable events are published one at a time, and each of them is stored   *)
(* later, exactly once, in any order; what is stored stays stored, and     *)
(* nothing else ever is.                                                   *)
(***************************************************************************)
CONSTANTS Identity      \* the identities events can have (the primary keys)

VARIABLES
    published,  \* identities of the usable events in the topic
    stored      \* identities of the events that have a row

TypeOK == /\ published \subseteq Identity
          /\ stored \subseteq published

Init == /\ published = {}
        /\ stored = {}

Publish(e) ==
    /\ e \in Identity \ published
    /\ published' = published \cup {e}
    /\ UNCHANGED stored

Store(e) ==
    /\ e \in published \ stored
    /\ stored' = stored \cup {e}
    /\ UNCHANGED published

Next == \E e \in Identity : Publish(e) \/ Store(e)

vars == <<published, stored>>

Spec == Init /\ [][Next]_vars

Fairness == \A e \in Identity : WF_vars(Store(e))
=============================================================================
