----------------------------- MODULE ReviewEvents -----------------------------
(***************************************************************************)
(* Progress of a review, from the event log to the browser.  The store     *)
(* numbers the events of a review; the server's generator (events) polls   *)
(* the row and the log and sends what is new; streamReviewSession in the   *)
(* browser consumes the blocks, reconnects from the last id it saw and     *)
(* returns the review when it hears that it is over.                       *)
(*                                                                         *)
(* The writer is the review pipeline as seen from the log: it publishes    *)
(* progress, ends the review together with its last event, and may run it  *)
(* again in place (a recheck).                                             *)
(***************************************************************************)
EXTENDS Naturals, Sequences, SequencesExt

CONSTANTS
    MaxReconnects,   \* maxReconnectAttempts
    MaxProgress,     \* bound: progress events in the log
    MaxRechecks,     \* bound: runs of the review after the first
    MaxCuts,         \* bound: requests and streams the network breaks
    Deletes,         \* may the review be deleted?
    PartialBlocks    \* may a stream end in the middle of a block?

ASSUME EventsAssumption ==
    /\ MaxReconnects \in Nat /\ MaxProgress \in Nat /\ MaxRechecks \in Nat /\ MaxCuts \in Nat
    /\ Deletes \in BOOLEAN /\ PartialBlocks \in BOOLEAN

VARIABLES
    status,      \* status of the row: "running" stands for every unfinished one
    log,         \* review_events, indexed by sequence
    rechecks,    \* runs after the first
    link,        \* the server's generator for the open stream
    wire,        \* events sent and not yet read by the browser
    client,      \* the call of streamReviewSession
    delivered,   \* sequence numbers handed to onEvent, in order
    lost,        \* sequence numbers of the events cut inside a block
    cuts         \* failures of the network so far

writerVars == <<status, log, rechecks>>
vars == <<writerVars, link, wire, client, delivered, lost, cuts>>

Terminal == {"completed", "failed", "cancelled"}
EndEvent == [completed |-> "complete", failed |-> "error", cancelled |-> "cancelled"]
Kinds == {"progress", "complete", "error", "cancelled"}

ClientEnds == {"returned", "stopped", "error", "exhausted"}
ClientStages ==
    ClientEnds \cup {"idle", "connect", "reading", "snapshot", "check", "final"}

Link ==
    [stage : {"none", "session", "events", "closed", "broken"},
     sequence : Nat,          \* last sequence number sent
     saw : Terminal \cup {"running"}]
Event == [sequence : Nat, event : Kinds]
NoLink == [stage |-> "none", sequence |-> 0, saw |-> "running"]

Client ==
    [stage : ClientStages,
     lastEventId : Nat,
     reconnectAttempt : Nat,
     result : Terminal \cup {"running", "none"}]

Init ==
    /\ status = "running" /\ log = <<>> /\ rechecks = 0
    /\ link = NoLink /\ wire = <<>>
    /\ client = [stage |-> "idle", lastEventId |-> 0, reconnectAttempt |-> 0, result |-> "none"]
    /\ delivered = <<>> /\ lost = {} /\ cuts = 0

-----------------------------------------------------------------------------
(* The writer.                                                              *)

\* publish and transition_chunk append whatever the status is: progress of a
\* pipeline that was just cancelled may follow the last event.
Publish ==
    /\ status # "deleted"
    /\ Len(SelectSeq(log, LAMBDA k : k = "progress")) < MaxProgress
    /\ log' = Append(log, "progress")
    /\ UNCHANGED <<status, rechecks, link, wire, client, delivered, lost, cuts>>

\* transition_review writes the final status and its event in one transaction.
Finish ==
    /\ status = "running"
    /\ \E s \in Terminal :
          /\ status' = s
          /\ log' = Append(log, EndEvent[s])
    /\ UNCHANGED <<rechecks, link, wire, client, delivered, lost, cuts>>

\* reset_review and resume requeue the review; the log keeps its events.
Recheck ==
    /\ status \in {"completed", "failed"} /\ rechecks < MaxRechecks
    /\ status' = "running"
    /\ rechecks' = rechecks + 1
    /\ UNCHANGED <<log, link, wire, client, delivered, lost, cuts>>

Delete ==
    /\ Deletes
    /\ status # "deleted"
    /\ status' = "deleted"
    /\ log' = <<>>
    /\ UNCHANGED <<rechecks, link, wire, client, delivered, lost, cuts>>

Writer == Publish \/ Finish \/ Recheck \/ Delete

-----------------------------------------------------------------------------
(* The server: events().                                                    *)

\* Seeded mistake: the stream ends as soon as the row is terminal.
ReadSessionEndsEarly ==
    /\ link.stage = "session"
    /\ link' = IF status = "deleted" \/ status \in Terminal
               THEN [link EXCEPT !.stage = "closed"]
               ELSE [link EXCEPT !.stage = "events", !.saw = status]
    /\ UNCHANGED <<writerVars, wire, client, delivered, lost, cuts>>

\* The row is read first, the log after it.
ReadSession ==
    /\ link.stage = "session"
    /\ link' = IF status = "deleted"
               THEN [link EXCEPT !.stage = "closed"]
               ELSE [link EXCEPT !.stage = "events", !.saw = status]
    /\ UNCHANGED <<writerVars, wire, client, delivered, lost, cuts>>

\* events_after
EventsAfter(after) ==
    [i \in 1..(Len(log) - after) |-> [sequence |-> after + i, event |-> log[after + i]]]

\* Seeded mistake: the generator polls for ever.
ReadEventsForEver ==
    /\ link.stage = "events"
    /\ status # "deleted"
    /\ LET events == EventsAfter(link.sequence) IN
       /\ wire' = wire \o events
       /\ link' = [link EXCEPT !.sequence = @ + Len(events), !.stage = "session"]
    /\ UNCHANGED <<writerVars, client, delivered, lost, cuts>>

ReadEvents ==
    /\ link.stage = "events"
    /\ IF status = "deleted"
       THEN link' = [link EXCEPT !.stage = "broken"] /\ UNCHANGED wire
       ELSE LET events == EventsAfter(link.sequence) IN
            /\ wire' = wire \o events
            /\ link' = [link EXCEPT !.sequence = @ + Len(events),
                                    !.stage = IF link.saw \in Terminal /\ events = <<>>
                                              THEN "closed" ELSE "session"]
    /\ UNCHANGED <<writerVars, client, delivered, lost, cuts>>

Server == ReadSession \/ ReadEvents

-----------------------------------------------------------------------------
(* The browser: streamReviewSession.                                        *)

Become(stage) == client' = [client EXCEPT !.stage = stage]
Disconnect == link' = NoLink /\ wire' = <<>>

\* A watcher is attached to a review that is under way.
Watch ==
    /\ client.stage = "idle"
    /\ status = "running"
    /\ Become("connect")
    /\ UNCHANGED <<writerVars, link, wire, delivered, lost, cuts>>

\* Seeded mistake: Last-Event-ID is not sent.
ConnectFromStart ==
    /\ client.stage = "connect"
    /\ IF status = "deleted"
       THEN Become("error") /\ UNCHANGED link
       ELSE Become("reading") /\ link' = [NoLink EXCEPT !.stage = "session"]
    /\ UNCHANGED <<writerVars, wire, delivered, lost, cuts>>

\* GET .../events with Last-Event-ID.
Connect ==
    /\ client.stage = "connect"
    /\ IF status = "deleted"
       THEN Become("error") /\ UNCHANGED link
       ELSE /\ Become("reading")
            /\ link' = [NoLink EXCEPT !.stage = "session", !.sequence = client.lastEventId]
    /\ UNCHANGED <<writerVars, wire, delivered, lost, cuts>>

\* One read gives some whole blocks, and all of them are consumed before the
\* loop looks whether one was terminal; "cancelled" throws at once.
KindsOf(blocks) == {b.event : b \in Range(blocks)}
SequencesOf(blocks) == [i \in DOMAIN blocks |-> blocks[i].sequence]

Read ==
    /\ client.stage = "reading"
    /\ \E n \in 1..Len(wire) :
          LET blocks == SubSeq(wire, 1, n) IN
          /\ "cancelled" \notin KindsOf(SubSeq(wire, 1, n - 1))
          /\ delivered' = delivered \o SequencesOf(blocks)
          /\ LET heard == [client EXCEPT !.lastEventId = Last(blocks).sequence] IN
             IF Last(blocks).event = "cancelled"
             THEN client' = [heard EXCEPT !.stage = "stopped"] /\ Disconnect
             ELSE IF KindsOf(blocks) \cap {"complete", "error"} # {}
             THEN client' = [heard EXCEPT !.stage = "snapshot"] /\ Disconnect
             ELSE /\ client' = heard
                  /\ wire' = SubSeq(wire, n + 1, Len(wire))
                  /\ UNCHANGED link
    /\ UNCHANGED <<writerVars, lost, cuts>>

\* The stream ended on its own: ask for the review before reconnecting.
EndOfStream ==
    /\ client.stage = "reading"
    /\ link.stage = "closed" /\ wire = <<>>
    /\ Become("check") /\ Disconnect
    /\ UNCHANGED <<writerVars, delivered, lost, cuts>>

Reconnect(c) ==
    client' = [c EXCEPT !.reconnectAttempt = @ + 1,
                        !.stage = IF c.reconnectAttempt < MaxReconnects
                                  THEN "connect" ELSE "final"]

\* The generator failed in the middle of the stream.
StreamBreaks ==
    /\ client.stage = "reading" /\ link.stage = "broken" /\ wire = <<>>
    /\ Reconnect(client) /\ Disconnect
    /\ UNCHANGED <<writerVars, delivered, lost, cuts>>

\* The network breaks the request or the stream.  A clean end is checked; if it
\* cuts a block after its id line, the id counts and the event is not delivered.
NetworkFails ==
    /\ cuts < MaxCuts
    /\ cuts' = cuts + 1
    /\ \/ /\ \/ client.stage \in {"connect", "reading", "check"} /\ Reconnect(client)
             \/ client.stage = "reading" /\ Become("check")
             \/ client.stage = "snapshot" /\ Become("error")
             \/ client.stage = "final" /\ Become("exhausted")
          /\ UNCHANGED lost
       \/ /\ PartialBlocks /\ client.stage = "reading" /\ wire # <<>>
          /\ Reconnect([client EXCEPT !.lastEventId = Head(wire).sequence])
          /\ lost' = lost \cup {Head(wire).sequence}
    /\ Disconnect
    /\ UNCHANGED <<writerVars, delivered>>

Return == client' = [client EXCEPT !.stage = "returned", !.result = status]

\* Seeded mistake: the end of a stream is taken for the end of the review.
SnapshotTrustsTheEnd ==
    /\ client.stage \in {"snapshot", "check", "final"}
    /\ IF status = "deleted" THEN Become("error") ELSE Return
    /\ UNCHANGED <<writerVars, link, wire, delivered, lost, cuts>>

\* After a terminal event the review is returned as it is found; after the end
\* of a stream, and after the last attempt, only when it is over.
Snapshot ==
    /\ \/ client.stage = "snapshot"
             /\ IF status = "deleted" THEN Become("error") ELSE Return
       \/ client.stage = "check"
             /\ \/ status = "deleted" /\ Become("error")
                \/ status \in Terminal /\ Return
                \/ status = "running" /\ Reconnect(client)
       \/ client.stage = "final"
             /\ IF status \in Terminal THEN Return ELSE Become("exhausted")
    /\ UNCHANGED <<writerVars, link, wire, delivered, lost, cuts>>

Browser == Connect \/ Read \/ EndOfStream \/ StreamBreaks \/ Snapshot

Next == Writer \/ Server \/ Watch \/ Browser \/ NetworkFails

Spec == Init /\ [][Next]_vars

\* The server polls, the browser reads, and every run of a review ends
\* (ReviewLifecycle).
FairSpec == Spec /\ WF_vars(Server) /\ WF_vars(Browser) /\ WF_vars(Finish)

-----------------------------------------------------------------------------
TypeOK ==
    /\ status \in Terminal \cup {"running", "deleted"}
    /\ log \in Seq(Kinds)
    /\ rechecks \in 0..MaxRechecks
    /\ link \in Link
    /\ wire \in Seq(Event)
    /\ client \in Client
    /\ delivered \in Seq(Nat)
    /\ lost \subseteq Nat
    /\ cuts \in 0..MaxCuts

\* Across any number of reconnections, runs and cuts, the page sees every event
\* up to its last one, each once and in order; only an event cut inside its own
\* block, whose id counts and whose data is dropped, is missing.
EveryEventOnce ==
    /\ Range(delivered) = (1..client.lastEventId) \ lost
    /\ \A i, j \in DOMAIN delivered : i < j => delivered[i] < delivered[j]

\* The server closes a stream on its own only after a run of the review ended and
\* the last event of every run that did was sent: the page is never left without
\* the news.
Ends == {i \in DOMAIN log : log[i] # "progress"}

StreamEndsAfterLastEvent ==
    [][link.stage # "closed" /\ link'.stage = "closed" /\ status # "deleted"
       => Ends # {} /\ \A i \in Ends : i <= link'.sequence]_vars

\* What streamReviewSession returns is a review that is over.
ResultIsOver == client.stage = "returned" => client.result \in Terminal

\* Until the review runs a second time, what the watcher returns is over,
\* whatever is deleted, cut or reconnected.
FirstResultIsOver == rechecks = 0 => ResultIsOver

\* Every watcher ends, whatever the network does.
WatcherEnds == client.stage = "connect" ~> client.stage \in ClientEnds

=============================================================================
