------------------------------ MODULE PageFeed ------------------------------
(***************************************************************************)
(* How the poller's snapshot reaches a page: the loops' broadcasts         *)
(* (src/backend/app/ws_manager.py), the handler of the page's WebSocket    *)
(* (routers/ws.py), the page's own polling (routers/steps.py) and the      *)
(* page's state (src/frontend/src/state/usePipelineState.ts).              *)
(*                                                                         *)
(* One page is followed.  Other clients matter by what they do to a        *)
(* broadcast: one that does not read blocks it until the server's          *)
(* keep-alive cuts it off, one that is gone makes the send raise.          *)
(***************************************************************************)
EXTENDS Feed, Integers, Sequences, FiniteSets

CONSTANTS
    Others,         \* other clients with a socket
    WireSize,       \* messages a socket's buffers hold
    (* bounds *)
    MaxPolls,       \* polls of the page under way at once
    MaxLost         \* polls that get no answer

Page == "page"

ASSUME PageFeedAssumption ==
    /\ Contents \subseteq Nat /\ WireSize \in Nat \ {0} /\ MaxPolls \in Nat \ {0} /\ MaxLost \in Nat
    /\ Page \notin Others

VARIABLES
    members,        \* ConnectionManager._connections
    targets,        \* per loop: whom its broadcast has yet to reach
    stalled,        \* other clients that do not read
    handler,        \* of the page's socket: none, connected, serving or done
    wire,           \* messages on their way to the page
    socket,         \* the page's: connecting, accepted, open or closed
    shown,          \* state: the snapshot the page shows
    mode,           \* connectionMode
    polling,        \* pollTimer is set
    fallback,       \* the fallback timer is set
    asked,          \* polls the server has not answered
    answers,        \* answers on their way to the page
    lost, cancelled

client == <<socket, shown, mode, polling, fallback, asked, answers, lost, cancelled>>
vars   == <<snapshot, outbox, members, targets, stalled, handler, wire, client>>

Init ==
    /\ FeedInit
    /\ members = Others /\ targets = [l \in Loops |-> {}] /\ stalled = {}
    /\ handler = "none" /\ wire = <<>>
    /\ socket = "connecting" /\ shown = [l \in Loops |-> Nothing]
    /\ mode = "connecting" /\ polling = FALSE /\ fallback = TRUE
    /\ asked = 0 /\ answers = {} /\ lost = 0 /\ cancelled = FALSE

-----------------------------------------------------------------------------
(* state_poller.py and ws_manager.py *)

\* What is polled changes, or not; it changes only so often.
Refresh(l) ==
    /\ \E content \in Contents :
        /\ snapshot[l] # Nothing => content - snapshot[l] \in {0, 1}
        /\ Store(l, content)
    /\ targets' = [targets EXCEPT ![l] = members]
    /\ UNCHANGED <<members, stalled, handler, wire, client>>

\* The other clients' sends go through, block or raise.
SendOther(l, c) ==
    /\ c \in targets[l] \cap Others /\ c \notin stalled
    /\ targets' = [targets EXCEPT ![l] = @ \ {c}]
    /\ UNCHANGED <<snapshot, outbox, members, stalled, handler, wire, client>>

PageReads == socket \in {"accepted", "open"}

SendPage(l) ==
    /\ Page \in targets[l] /\ PageReads /\ Len(wire) < WireSize
    /\ wire' = Append(wire, outbox[l])
    /\ targets' = [targets EXCEPT ![l] = @ \ {Page}]
    /\ UNCHANGED <<snapshot, outbox, members, stalled, handler, client>>

\* Mutant of SendFails: tried again until it succeeds.
SendFailsRetry(l) ==
    /\ Page \in targets[l] /\ ~PageReads
    /\ UNCHANGED vars

\* Mutant of SendFails: a socket that does not take the message at once is dropped.
SendFailsFull(l) ==
    /\ Page \in targets[l] /\ (PageReads => Len(wire) = WireSize)
    /\ targets' = [targets EXCEPT ![l] = @ \ {Page}]
    /\ members' = members \ {Page}
    /\ UNCHANGED <<snapshot, outbox, stalled, handler, wire, client>>

\* broadcast: a send that raises takes the socket out of the set.
SendFails(l) ==
    /\ Page \in targets[l] /\ ~PageReads
    /\ targets' = [targets EXCEPT ![l] = @ \ {Page}]
    /\ members' = members \ {Page}
    /\ UNCHANGED <<snapshot, outbox, stalled, handler, wire, client>>

Broadcasted(l) ==
    /\ targets[l] = {}
    /\ Sent(l)
    /\ UNCHANGED <<members, targets, stalled, handler, wire, client>>

Stall(c) ==
    /\ c \in members \cap Others
    /\ stalled' = stalled \cup {c}
    /\ UNCHANGED <<snapshot, outbox, members, targets, handler, wire, client>>

\* The keep-alive closes the socket: sends to it raise, those under way too.
CutOff(c) ==
    /\ c \in stalled
    /\ stalled' = stalled \ {c} /\ members' = members \ {c}
    /\ targets' = [l \in Loops |-> targets[l] \ {c}]
    /\ UNCHANGED <<snapshot, outbox, handler, wire, client>>

-----------------------------------------------------------------------------
(* routers/ws.py: the handler of the page's socket *)

Accept ==
    /\ socket = "connecting" /\ handler = "none"
    /\ socket' = "accepted" /\ handler' = "connected"
    /\ members' = members \cup {Page}
    /\ UNCHANGED <<snapshot, outbox, targets, stalled, wire, shown, mode, polling, fallback, asked, answers, lost, cancelled>>

\* get_snapshot, then the first message.
SendFirst ==
    /\ handler = "connected" /\ PageReads /\ Len(wire) < WireSize
    /\ wire' = Append(wire, snapshot) /\ handler' = "serving"
    /\ UNCHANGED <<snapshot, outbox, members, targets, stalled, client>>

\* send_json or receive_text finds the socket closed.
HandlerEnds ==
    /\ handler \in {"connected", "serving"} /\ ~PageReads
    /\ handler' = "done" /\ members' = members \ {Page}
    /\ UNCHANGED <<snapshot, outbox, targets, stalled, wire, client>>

-----------------------------------------------------------------------------
(* usePipelineState.ts *)

Server == <<snapshot, outbox, members, targets, stalled, handler>>

StartPolling(on) ==
    IF on /\ ~polling /\ ~cancelled
    THEN mode' = "polling" /\ polling' = TRUE /\ asked' = asked + 1
    ELSE UNCHANGED <<mode, polling, asked>>

\* onopen: before any message.
OnOpen ==
    /\ socket = "accepted"
    /\ socket' = "open" /\ polling' = FALSE /\ mode' = "ws"
    /\ UNCHANGED <<Server, wire, shown, fallback, asked, answers, lost, cancelled>>

OnMessage ==
    /\ socket = "open" /\ wire # <<>>
    /\ wire' = Tail(wire)
    /\ shown' = Head(wire)
    /\ UNCHANGED <<Server, socket, mode, polling, fallback, asked, answers, lost, cancelled>>

\* Mutant of OnClose: the socket is given up, and nothing put in its place.
OnCloseIdle ==
    /\ socket # "closed"
    /\ socket' = "closed" /\ wire' = <<>>
    /\ StartPolling(FALSE)
    /\ UNCHANGED <<Server, shown, fallback, answers, lost, cancelled>>

\* onclose, also after an error and for a socket that never opened; what was
\* on the wire is lost.  The page opens no second socket.
OnClose ==
    /\ socket # "closed"
    /\ socket' = "closed" /\ wire' = <<>>
    /\ StartPolling(TRUE)
    /\ UNCHANGED <<Server, shown, fallback, answers, lost, cancelled>>

\* setTimeout: the socket has not opened in time.
OnFallback ==
    /\ fallback
    /\ fallback' = FALSE
    /\ StartPolling(mode = "connecting")
    /\ UNCHANGED <<Server, wire, socket, shown, answers, lost, cancelled>>

\* setInterval
Poll ==
    /\ polling /\ asked + Cardinality(answers) < MaxPolls
    /\ asked' = asked + 1
    /\ UNCHANGED <<Server, wire, socket, shown, mode, polling, fallback, answers, lost, cancelled>>

\* /api/pipeline-state
Answer ==
    /\ asked > 0
    /\ asked' = asked - 1 /\ answers' = answers \cup {snapshot}
    /\ UNCHANGED <<Server, wire, socket, shown, mode, polling, fallback, lost, cancelled>>

\* Answers arrive in any order, and after the polling has stopped.
Arrive ==
    /\ \E a \in answers :
        /\ answers' = answers \ {a}
        /\ shown' = IF cancelled THEN shown ELSE a
    /\ UNCHANGED <<Server, wire, socket, mode, polling, fallback, asked, lost, cancelled>>

Lose ==
    /\ asked > 0 /\ lost < MaxLost
    /\ asked' = asked - 1 /\ lost' = lost + 1
    /\ UNCHANGED <<Server, wire, socket, shown, mode, polling, fallback, answers, cancelled>>

\* The effect's clean-up: the close callback comes after cancelled is set.
Unmount ==
    /\ ~cancelled
    /\ cancelled' = TRUE /\ fallback' = FALSE /\ polling' = FALSE
    /\ socket' = "closed" /\ wire' = <<>>
    /\ UNCHANGED <<Server, shown, mode, asked, answers, lost>>

-----------------------------------------------------------------------------

LoopStep(l) == Refresh(l) \/ SendPage(l) \/ SendFails(l) \/ Broadcasted(l)
                   \/ \E c \in Others : SendOther(l, c)

Next ==
    \/ \E l \in Loops : LoopStep(l)
    \/ \E c \in Others : Stall(c) \/ CutOff(c)
    \/ Accept \/ SendFirst \/ HandlerEnds
    \/ OnOpen \/ OnMessage \/ OnClose \/ OnFallback \/ Poll \/ Answer \/ Arrive \/ Lose \/ Unmount

Spec == Init /\ [][Next]_vars

\* The tasks of the server and the callbacks of the page run, what is sent
\* arrives, and the keep-alive works; those that wait to send get their turn.
\* Sockets need not open or stay open.
FairSpec ==
    /\ Spec
    /\ \A l \in Loops : WF_vars(LoopStep(l)) /\ SF_vars(SendPage(l))
    /\ \A c \in Others : WF_vars(CutOff(c))
    /\ WF_vars(HandlerEnds) /\ SF_vars(SendFirst)
    /\ WF_vars(OnOpen) /\ WF_vars(OnMessage) /\ WF_vars(OnFallback)
    /\ WF_vars(Poll) /\ WF_vars(Answer) /\ WF_vars(Arrive)

-----------------------------------------------------------------------------
(* Properties *)

TypeOK ==
    /\ members \subseteq Others \cup {Page} /\ stalled \subseteq Others
    /\ handler \in {"none", "connected", "serving", "done"}
    /\ socket \in {"connecting", "accepted", "open", "closed"} /\ Len(wire) <= WireSize
    /\ mode \in {"connecting", "ws", "polling"}
    /\ asked \in 0 .. MaxPolls + 1 /\ Cardinality(answers) <= MaxPolls + 1

\* The page is fed one way at a time, and says which: no timer polls beside
\* an open socket, and a page that shows "ws" has one.  A page that is gone
\* leaves neither (usePipelineState.ts:33, 64, 76).
OneSource ==
    /\ polling => socket # "open" /\ mode = "polling" /\ ~cancelled
    /\ (mode = "ws" /\ ~cancelled) => socket = "open"
    /\ cancelled => socket = "closed" /\ ~fallback

\* A socket that is open is subscribed from before its first snapshot is
\* taken until it closes, so that no refresh is missed (routers/ws.py:20).
OpenIsSubscribed == PageReads => Page \in members

\* The page is fed, one way at a time.
PageInv == TypeOK /\ OneSource /\ OpenIsSubscribed

\* A stalled client holds a loop up, never for good (ws_manager.py:27).
LoopsGoOn == \A l \in Loops : []<>(outbox[l] = Nothing)

\* Broadcasts overtake each other, polls are answered late and sockets
\* close; yet once the pipeline stops changing, the page shows it.
PageCatchesUp == \A v \in [Loops -> Contents] : <>[](snapshot = v) => <>[](cancelled \/ shown = v)
=============================================================================
