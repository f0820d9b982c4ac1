-------------------------------- MODULE Feed --------------------------------
(***************************************************************************)
(* What the state poller (src/backend/app/state_poller.py) promises those  *)
(* who follow it: one snapshot with the sections of two polling loops.  A  *)
(* loop replaces its own sections in one step, takes a copy of the whole   *)
(* snapshot in the same step, and broadcasts that copy before it polls     *)
(* again.                                                                  *)
(***************************************************************************)

CONSTANTS
    Loops,          \* the polling loops, each with sections of its own
    Contents,       \* what a loop's sections may say
    Nothing         \* before the first poll, and when nothing is to be sent

VARIABLES
    snapshot,       \* [Loops -> Contents \cup {Nothing}]
    outbox          \* the copy each loop has yet to broadcast, or Nothing

feedVars == <<snapshot, outbox>>

FeedInit ==
    /\ snapshot = [l \in Loops |-> Nothing]
    /\ outbox   = [l \in Loops |-> Nothing]

Store(l, content) ==
    /\ outbox[l] = Nothing
    /\ snapshot' = [snapshot EXCEPT ![l] = content]
    /\ outbox'   = [outbox EXCEPT ![l] = snapshot']

Sent(l) ==
    /\ outbox[l] # Nothing
    /\ outbox' = [outbox EXCEPT ![l] = Nothing]
    /\ UNCHANGED snapshot

FeedNext == \E l \in Loops : Sent(l) \/ \E content \in Contents : Store(l, content)

FeedSpec == FeedInit /\ [][FeedNext]_feedVars
=============================================================================
