--------------------------- MODULE PageFeedProofs ---------------------------
(***************************************************************************)
(* What the page's feed keeps true, for any other clients, any room on the *)
(* wire and any number of polls.                                           *)
(*                                                                         *)
(* PageInv is not inductive.  That a timer never polls beside an open      *)
(* socket (OneSource) needs to know that a page which still shows          *)
(* "connecting" has not opened and asked for nothing (Connecting); that    *)
(* the polls are bounded needs to know that only a page whose socket is    *)
(* closed can start its polling with polls under way (PollsBounded); and   *)
(* what a broadcast sends is a snapshot only because a loop clears its     *)
(* copy after the last send (CopyIsKept).                                  *)
(***************************************************************************)
EXTENDS PageFeed, FiniteSetTheorems, TLAPS

Snapshots == [Loops -> Contents \cup {Nothing}]

\* Types, in two parts.
PlacesOK ==
    /\ members \subseteq Others \cup {Page} /\ stalled \subseteq Others
    /\ handler \in {"none", "connected", "serving", "done"}
    /\ socket \in {"connecting", "accepted", "open", "closed"}
    /\ mode \in {"connecting", "ws", "polling"} /\ Len(wire) <= WireSize

DataOK ==
    /\ snapshot \in Snapshots /\ outbox \in [Loops -> Snapshots \cup {Nothing}]
    /\ targets \in [Loops -> SUBSET (Others \cup {Page})]
    /\ wire \in Seq(Snapshots) /\ shown \in Snapshots
    /\ IsFiniteSet(answers) /\ answers \subseteq Snapshots
    /\ {polling, fallback, cancelled} \subseteq BOOLEAN /\ asked \in Nat

UnderWay == asked + Cardinality(answers)

PollsBounded ==
    /\ UnderWay <= MaxPolls + 1
    /\ socket # "closed" => UnderWay <= MaxPolls

Connecting ==
    mode = "connecting" /\ ~cancelled =>
        socket \in {"connecting", "accepted"} /\ ~polling /\ UnderWay = 0

CopyIsKept == \A l \in Loops : targets[l] # {} => outbox[l] \in Snapshots

\* The inductive invariant.
IInv ==
    /\ PlacesOK /\ DataOK
    /\ OneSource /\ OpenIsSubscribed
    /\ PollsBounded /\ Connecting /\ CopyIsKept

-----------------------------------------------------------------------------

LEMMA InitInvariant == Init => IInv
<1> SUFFICES ASSUME Init PROVE IInv
    OBVIOUS
<1> USE PageFeedAssumption DEF Init, FeedInit
<1>1. IsFiniteSet(answers) /\ Cardinality(answers) = 0
      BY FS_EmptySet
<1>2. PlacesOK
      BY DEF PlacesOK
<1>3. DataOK
  <2>1. snapshot \in Snapshots /\ outbox \in [Loops -> Snapshots \cup {Nothing}]
        BY DEF Snapshots
  <2>2. targets \in [Loops -> SUBSET (Others \cup {Page})] /\ shown \in Snapshots
        BY DEF Snapshots
  <2>3. wire \in Seq(Snapshots) /\ asked \in Nat
        OBVIOUS
  <2>4. {polling, fallback, cancelled} \subseteq BOOLEAN
        BY Zenon
  <2>5. QED  BY <1>1, <2>1, <2>2, <2>3, <2>4 DEF DataOK
<1>4. OneSource /\ OpenIsSubscribed /\ CopyIsKept
      BY DEF OneSource, OpenIsSubscribed, PageReads, CopyIsKept
<1>5. PollsBounded /\ Connecting
      BY <1>1 DEF PollsBounded, Connecting, UnderWay
<1>6. QED  BY <1>2, <1>3, <1>4, <1>5 DEF IInv

LEMMA WireTypes ==
    ASSUME NEW q \in Seq(Snapshots), NEW x \in Snapshots
    PROVE  /\ Append(q, x) \in Seq(Snapshots) /\ Len(Append(q, x)) = Len(q) + 1
           /\ Len(q) \in Nat /\ <<>> \in Seq(Snapshots) /\ Len(<<>>) = 0
           /\ q # <<>> => Head(q) \in Snapshots /\ Tail(q) \in Seq(Snapshots)
                          /\ Len(Tail(q)) = Len(q) - 1
OBVIOUS

\* How many polls are under way after an answer was sent or has arrived.
LEMMA Answers ==
    ASSUME NEW A, IsFiniteSet(A), NEW x
    PROVE  /\ Cardinality(A) \in Nat
           /\ IsFiniteSet(A \cup {x}) /\ Cardinality(A \cup {x}) \in Nat
           /\ Cardinality(A \cup {x}) <= Cardinality(A) + 1
           /\ IsFiniteSet(A \ {x}) /\ Cardinality(A \ {x}) \in Nat
           /\ Cardinality(A \ {x}) <= Cardinality(A)
<1>1. Cardinality(A) \in Nat
      BY FS_CardinalityType
<1>2. IsFiniteSet(A \cup {x}) /\ Cardinality(A \cup {x}) \in {Cardinality(A), Cardinality(A) + 1}
      BY FS_AddElement
<1>3. IsFiniteSet(A \ {x}) /\ Cardinality(A \ {x}) \in {Cardinality(A), Cardinality(A) - 1}
      BY FS_RemoveElement
<1>4. Cardinality(A \cup {x}) \in Nat /\ Cardinality(A \ {x}) \in Nat
      BY <1>2, <1>3, FS_CardinalityType
<1>5. QED  BY <1>1, <1>2, <1>3, <1>4

\* What is stored, sent, answered and shown are snapshots.
LEMMA DataStep == PlacesOK /\ DataOK /\ CopyIsKept /\ [Next]_vars => (DataOK /\ CopyIsKept)'
<1> SUFFICES ASSUME PlacesOK /\ DataOK /\ CopyIsKept, [Next]_vars PROVE (DataOK /\ CopyIsKept)'
    OBVIOUS
<1> USE PageFeedAssumption
<1> USE DEF DataOK, CopyIsKept
<1>1. CASE Accept
      BY <1>1 DEF Accept
<1>2. CASE SendFirst
      BY <1>2, WireTypes DEF SendFirst, client
<1>3. CASE HandlerEnds
      BY <1>3 DEF HandlerEnds, client
<1>4. CASE OnOpen
      BY <1>4 DEF OnOpen, Server
<1>5. CASE OnMessage
      BY <1>5, WireTypes DEF OnMessage, Server
<1>6. CASE OnClose
  <2>1. {polling', fallback', cancelled'} \subseteq BOOLEAN
    <3>1. polling' \in {polling, TRUE} /\ UNCHANGED <<fallback, cancelled>>
          BY <1>6 DEF OnClose, StartPolling
    <3>2. QED  BY <3>1, Zenon
  <2>2. /\ UNCHANGED <<snapshot, outbox, targets, shown, answers>>
        /\ wire' \in Seq(Snapshots) /\ asked' \in Nat
        BY <1>6, WireTypes DEF OnClose, StartPolling, Server
  <2>3. QED  BY <2>1, <2>2
<1>7. CASE OnFallback
  <2>1. {polling', fallback', cancelled'} \subseteq BOOLEAN
    <3>1. polling' \in {polling, TRUE} /\ fallback' = FALSE /\ cancelled' = cancelled
          BY <1>7 DEF OnFallback, StartPolling
    <3>2. QED  BY <3>1, Zenon
  <2>2. /\ UNCHANGED <<snapshot, outbox, targets, shown, answers>>
        /\ wire' \in Seq(Snapshots) /\ asked' \in Nat
        BY <1>7, WireTypes DEF OnFallback, StartPolling, Server
  <2>3. QED  BY <2>1, <2>2
<1>8. CASE Poll
      BY <1>8 DEF Poll, Server
<1>9. CASE Answer
  <2>1. /\ asked > 0 /\ asked' = asked - 1 /\ answers' = answers \cup {snapshot}
        /\ UNCHANGED <<snapshot, outbox, targets, wire, shown, polling, fallback, cancelled>>
        BY <1>9 DEF Answer, Server
  <2>2. IsFiniteSet(answers') /\ answers' \subseteq Snapshots
        BY <2>1, Answers
  <2>3. asked' \in Nat
        BY <2>1
  <2>4. QED  BY <2>1, <2>2, <2>3
<1>10. CASE Arrive
  <2>1. PICK a \in answers : answers' = answers \ {a} /\ shown' \in {shown, a}
        BY <1>10 DEF Arrive
  <2>2. UNCHANGED <<snapshot, outbox, targets, wire, asked, polling, fallback, cancelled>>
        BY <1>10 DEF Arrive, Server
  <2>3. IsFiniteSet(answers') /\ answers' \subseteq Snapshots /\ shown' \in Snapshots
        BY <2>1, Answers
  <2>4. QED  BY <2>2, <2>3
<1>11. CASE Lose
      BY <1>11 DEF Lose, Server
<1>12. CASE Unmount
  <2>1. {polling', fallback', cancelled'} \subseteq BOOLEAN
    <3>1. cancelled' = TRUE /\ fallback' = FALSE /\ polling' = FALSE
          BY <1>12 DEF Unmount
    <3>2. QED  BY <3>1, Zenon
  <2>2. /\ UNCHANGED <<snapshot, outbox, targets, shown, answers>>
        /\ wire' \in Seq(Snapshots) /\ asked' \in Nat
        BY <1>12, WireTypes DEF Unmount, Server
  <2>3. QED  BY <2>1, <2>2
<1>13. ASSUME NEW l \in Loops, LoopStep(l) PROVE (DataOK /\ CopyIsKept)'
  <2>1. CASE Refresh(l)
    <3>1. PICK content \in Contents :
              /\ snapshot' = [snapshot EXCEPT ![l] = content]
              /\ outbox' = [outbox EXCEPT ![l] = snapshot']
          BY <2>1 DEF Refresh, Store
    <3>2. snapshot' \in Snapshots
          BY <3>1 DEF Snapshots
    <3>3. outbox' \in [Loops -> Snapshots \cup {Nothing}]
          BY <3>1, <3>2
    <3>4. targets' = [targets EXCEPT ![l] = members] /\ members \subseteq Others \cup {Page}
          BY <2>1 DEF Refresh, PlacesOK
    <3>5. targets' \in [Loops -> SUBSET (Others \cup {Page})]
          BY <3>4
    <3>6. CopyIsKept'
          BY <3>1, <3>2, <3>4
    <3>7. QED  BY <2>1, <3>2, <3>3, <3>5, <3>6 DEF Refresh, client
  <2>2. CASE SendPage(l)
        BY <2>2, WireTypes DEF SendPage, client
  <2>3. CASE SendFails(l)
        BY <2>3 DEF SendFails, client
  <2>4. CASE Broadcasted(l)
        BY <2>4 DEF Broadcasted, Sent, client
  <2>5. CASE \E c \in Others : SendOther(l, c)
        BY <2>5 DEF SendOther, client
  <2>6. QED
        BY <1>13, <2>1, <2>2, <2>3, <2>4, <2>5 DEF LoopStep
<1>14. ASSUME NEW c \in Others, Stall(c) \/ CutOff(c) PROVE (DataOK /\ CopyIsKept)'
  <2>1. CASE Stall(c)
        BY <2>1 DEF Stall, client
  <2>2. CASE CutOff(c)
        BY <2>2 DEF CutOff, client
  <2>3. QED
        BY <1>14, <2>1, <2>2
<1>15. CASE UNCHANGED vars
      BY <1>15 DEF vars, client
<1>16. QED  BY <1>1, <1>2, <1>3, <1>4, <1>5, <1>6, <1>7, <1>8, <1>9, <1>10,
      <1>11, <1>12, <1>13, <1>14, <1>15 DEF Next

\* The polls under way.
LEMMA PollStep == PlacesOK /\ DataOK /\ OneSource /\ PollsBounded /\ Connecting /\ [Next]_vars => (PollsBounded /\ Connecting)'
<1> SUFFICES ASSUME PlacesOK /\ DataOK /\ OneSource /\ PollsBounded /\ Connecting, [Next]_vars PROVE (PollsBounded /\ Connecting)'
    OBVIOUS
<1> USE PageFeedAssumption
<1> USE DEF PlacesOK, DataOK, OneSource, PollsBounded, Connecting, UnderWay
<1>0. Cardinality(answers) \in Nat
      BY FS_CardinalityType
<1>1. CASE Accept
      BY <1>1, <1>0 DEF Accept
<1>2. CASE SendFirst
      BY <1>2, <1>0 DEF SendFirst, client
<1>3. CASE HandlerEnds
      BY <1>3, <1>0 DEF HandlerEnds, client
<1>4. CASE OnOpen
      BY <1>4, <1>0 DEF OnOpen, Server
<1>5. CASE OnMessage
      BY <1>5, <1>0 DEF OnMessage, Server
<1>6. CASE OnClose
      BY <1>6, <1>0 DEF OnClose, StartPolling, Server
<1>7. CASE OnFallback
      BY <1>7, <1>0 DEF OnFallback, StartPolling, Server
<1>8. CASE Poll
      BY <1>8, <1>0 DEF Poll, Server
<1>9. CASE Answer
  <2>1. /\ asked > 0 /\ asked' = asked - 1 /\ answers' = answers \cup {snapshot}
        /\ UNCHANGED <<socket, mode, polling, cancelled>>
        BY <1>9 DEF Answer, Server
  <2>2. Cardinality(answers') \in Nat /\ Cardinality(answers') <= Cardinality(answers) + 1
        BY <2>1, Answers
  <2>3. QED  BY <1>0, <2>1, <2>2
<1>10. CASE Arrive
  <2>1. PICK a \in answers : answers' = answers \ {a}
        BY <1>10 DEF Arrive
  <2>2. asked' = asked /\ UNCHANGED <<socket, mode, polling, cancelled>>
        BY <1>10 DEF Arrive, Server
  <2>3. Cardinality(answers') \in Nat /\ Cardinality(answers') <= Cardinality(answers)
        BY <2>1, Answers
  <2>4. QED  BY <1>0, <2>2, <2>3
<1>11. CASE Lose
  <2>1. /\ asked > 0 /\ asked' = asked - 1 /\ answers' = answers
        /\ UNCHANGED <<socket, mode, polling, cancelled>>
        BY <1>11 DEF Lose, Server
  <2>2. QED  BY <1>0, <2>1
<1>12. CASE Unmount
      BY <1>12, <1>0 DEF Unmount, Server
<1>13. ASSUME NEW l \in Loops, LoopStep(l) PROVE (PollsBounded /\ Connecting)'
  <2>1. CASE Refresh(l)
        BY <2>1, <1>0 DEF Refresh, Store, client
  <2>2. CASE SendPage(l)
        BY <2>2, <1>0 DEF SendPage, client
  <2>3. CASE SendFails(l)
        BY <2>3, <1>0 DEF SendFails, client
  <2>4. CASE Broadcasted(l)
        BY <2>4, <1>0 DEF Broadcasted, Sent, client
  <2>5. CASE \E c \in Others : SendOther(l, c)
        BY <2>5, <1>0 DEF SendOther, client
  <2>6. QED
        BY <1>13, <2>1, <2>2, <2>3, <2>4, <2>5 DEF LoopStep
<1>14. ASSUME NEW c \in Others, Stall(c) \/ CutOff(c) PROVE (PollsBounded /\ Connecting)'
  <2>1. CASE Stall(c)
        BY <2>1, <1>0 DEF Stall, client
  <2>2. CASE CutOff(c)
        BY <2>2, <1>0 DEF CutOff, client
  <2>3. QED
        BY <1>14, <2>1, <2>2
<1>15. CASE UNCHANGED vars
      BY <1>15 DEF vars, client
<1>16. QED  BY <1>1, <1>2, <1>3, <1>4, <1>5, <1>6, <1>7, <1>8, <1>9, <1>10,
      <1>11, <1>12, <1>13, <1>14, <1>15 DEF Next

\* The page and its subscription.
LEMMA PageStep == PlacesOK /\ DataOK /\ OneSource /\ OpenIsSubscribed /\ Connecting /\ [Next]_vars => (OneSource /\ OpenIsSubscribed)'
<1> SUFFICES ASSUME PlacesOK /\ DataOK /\ OneSource /\ OpenIsSubscribed /\ Connecting, [Next]_vars PROVE (OneSource /\ OpenIsSubscribed)'
    OBVIOUS
<1> USE PageFeedAssumption
<1> USE DEF PlacesOK, DataOK, OneSource, OpenIsSubscribed, Connecting, PageReads
<1>1. CASE Accept
      BY <1>1 DEF Accept
<1>2. CASE SendFirst
      BY <1>2 DEF SendFirst, client
<1>3. CASE HandlerEnds
      BY <1>3 DEF HandlerEnds, client
<1>4. CASE OnOpen
      BY <1>4 DEF OnOpen, Server
<1>5. CASE OnMessage
      BY <1>5 DEF OnMessage, Server
<1>6. CASE OnClose
      BY <1>6 DEF OnClose, StartPolling, Server
<1>7. CASE OnFallback
      BY <1>7 DEF OnFallback, StartPolling, Server
<1>8. CASE Poll
      BY <1>8 DEF Poll, Server
<1>9. CASE Answer
      BY <1>9 DEF Answer, Server
<1>10. CASE Arrive
      BY <1>10 DEF Arrive, Server
<1>11. CASE Lose
      BY <1>11 DEF Lose, Server
<1>12. CASE Unmount
      BY <1>12 DEF Unmount, Server
<1>13. ASSUME NEW l \in Loops, LoopStep(l) PROVE (OneSource /\ OpenIsSubscribed)'
  <2>1. CASE Refresh(l)
        BY <2>1 DEF Refresh, Store, client
  <2>2. CASE SendPage(l)
        BY <2>2 DEF SendPage, client
  <2>3. CASE SendFails(l)
        BY <2>3 DEF SendFails, client
  <2>4. CASE Broadcasted(l)
        BY <2>4 DEF Broadcasted, Sent, client
  <2>5. CASE \E c \in Others : SendOther(l, c)
        BY <2>5 DEF SendOther, client
  <2>6. QED
        BY <1>13, <2>1, <2>2, <2>3, <2>4, <2>5 DEF LoopStep
<1>14. ASSUME NEW c \in Others, Stall(c) \/ CutOff(c) PROVE (OneSource /\ OpenIsSubscribed)'
  <2>1. CASE Stall(c)
        BY <2>1 DEF Stall, client
  <2>2. CASE CutOff(c)
        BY <2>2 DEF CutOff, client
  <2>3. QED
        BY <1>14, <2>1, <2>2
<1>15. CASE UNCHANGED vars
      BY <1>15 DEF vars, client
<1>16. QED  BY <1>1, <1>2, <1>3, <1>4, <1>5, <1>6, <1>7, <1>8, <1>9, <1>10,
      <1>11, <1>12, <1>13, <1>14, <1>15 DEF Next

\* Types.
LEMMA PlacesStep == PlacesOK /\ DataOK /\ [Next]_vars => PlacesOK'
<1> SUFFICES ASSUME PlacesOK /\ DataOK, [Next]_vars PROVE PlacesOK'
    OBVIOUS
<1> USE PageFeedAssumption
<1> USE DEF PlacesOK, DataOK
<1>1. CASE Accept
      BY <1>1, WireTypes DEF Accept
<1>2. CASE SendFirst
      BY <1>2, WireTypes DEF SendFirst, client
<1>3. CASE HandlerEnds
      BY <1>3, WireTypes DEF HandlerEnds, client
<1>4. CASE OnOpen
      BY <1>4, WireTypes DEF OnOpen, Server
<1>5. CASE OnMessage
      BY <1>5, WireTypes DEF OnMessage, Server
<1>6. CASE OnClose
      BY <1>6, WireTypes DEF OnClose, StartPolling, Server
<1>7. CASE OnFallback
      BY <1>7, WireTypes DEF OnFallback, StartPolling, Server
<1>8. CASE Poll
      BY <1>8, WireTypes DEF Poll, Server
<1>9. CASE Answer
      BY <1>9, WireTypes DEF Answer, Server
<1>10. CASE Arrive
      BY <1>10, WireTypes DEF Arrive, Server
<1>11. CASE Lose
      BY <1>11, WireTypes DEF Lose, Server
<1>12. CASE Unmount
      BY <1>12, WireTypes DEF Unmount, Server
<1>13. ASSUME NEW l \in Loops, LoopStep(l) PROVE PlacesOK'
  <2>1. CASE Refresh(l)
        BY <2>1, WireTypes DEF Refresh, Store, client
  <2>2. CASE SendPage(l)
        BY <2>2, WireTypes DEF SendPage, client
  <2>3. CASE SendFails(l)
        BY <2>3, WireTypes DEF SendFails, client
  <2>4. CASE Broadcasted(l)
        BY <2>4, WireTypes DEF Broadcasted, Sent, client
  <2>5. CASE \E c \in Others : SendOther(l, c)
        BY <2>5, WireTypes DEF SendOther, client
  <2>6. QED
        BY <1>13, <2>1, <2>2, <2>3, <2>4, <2>5 DEF LoopStep
<1>14. ASSUME NEW c \in Others, Stall(c) \/ CutOff(c) PROVE PlacesOK'
  <2>1. CASE Stall(c)
        BY <2>1, WireTypes DEF Stall, client
  <2>2. CASE CutOff(c)
        BY <2>2, WireTypes DEF CutOff, client
  <2>3. QED
        BY <1>14, <2>1, <2>2
<1>15. CASE UNCHANGED vars
      BY <1>15 DEF vars, client
<1>16. QED  BY <1>1, <1>2, <1>3, <1>4, <1>5, <1>6, <1>7, <1>8, <1>9, <1>10,
      <1>11, <1>12, <1>13, <1>14, <1>15 DEF Next

-----------------------------------------------------------------------------
(* The theorems *)

LEMMA Invariant == Spec => []IInv
<1>1. IInv /\ [Next]_vars => IInv'
      BY DataStep, PollStep, PageStep, PlacesStep DEF IInv
<1>2. QED  BY InitInvariant, <1>1, PTL DEF Spec

\* The page is fed one way at a time, says which, and leaves neither socket nor
\* timer behind; a socket that is open is subscribed before its first snapshot
\* is taken, so that it misses no refresh (usePipelineState.ts:33, 64, 76;
\* routers/ws.py:20).
THEOREM PageHolds == Spec => []PageInv
<1>1. IInv => PageInv
  <2> SUFFICES ASSUME IInv PROVE TypeOK
      BY DEF IInv, PageInv
  <2>1. asked \in Nat /\ Cardinality(answers) \in Nat /\ UnderWay <= MaxPolls + 1
        BY FS_CardinalityType DEF IInv, DataOK, PollsBounded
  <2>2. QED  BY <2>1, PageFeedAssumption DEF IInv, PlacesOK, TypeOK, UnderWay
<1>2. QED  BY Invariant, <1>1, PTL

\* The page disturbs the poller in nothing: whatever sockets stall, close or
\* poll, the two loops behave as Feed promises, each clearing its copy before it
\* stores the next (ws_manager.py, state_poller.py).
THEOREM PollerUndisturbed == Spec => FeedSpec
<1>1. Init => FeedInit
      BY DEF Init
<1>2. [Next]_vars => [FeedNext]_feedVars
  <2> SUFFICES ASSUME [Next]_vars PROVE FeedNext \/ UNCHANGED feedVars
      OBVIOUS
  <2>1. ASSUME NEW l \in Loops, LoopStep(l) PROVE FeedNext \/ UNCHANGED feedVars
        BY <2>1
        DEF LoopStep, Refresh, SendPage, SendFails, Broadcasted, SendOther, FeedNext, feedVars
  <2>2. ASSUME NEW c \in Others, Stall(c) \/ CutOff(c) PROVE UNCHANGED feedVars
        BY <2>2 DEF Stall, CutOff, feedVars
  <2>3. CASE \/ Accept \/ SendFirst \/ HandlerEnds \/ OnOpen \/ OnMessage \/ OnClose
             \/ OnFallback \/ Poll \/ Answer \/ Arrive \/ Lose \/ Unmount
        BY <2>3
        DEF Accept, SendFirst, HandlerEnds, OnOpen, OnMessage, OnClose, OnFallback, Poll,
            Answer, Arrive, Lose, Unmount, Server, feedVars
  <2>4. QED  BY <2>1, <2>2, <2>3 DEF Next, vars, feedVars
<1>3. QED  BY <1>1, <1>2, PTL DEF Spec, FeedSpec
=============================================================================
