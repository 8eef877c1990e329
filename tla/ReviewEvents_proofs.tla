--------------------------- MODULE ReviewEvents_proofs ---------------------------
(***************************************************************************)
(* ReviewEvents: what the page is shown of a review, for any number of     *)
(* events, runs, reconnections and failures of the network.                *)
(***************************************************************************)
EXTENDS ReviewEvents, TLAPS

\* The steps that move events, in the terms their proofs need: a poll of the log
\* appends what follows the last event sent; a read takes a prefix of the wire.
LEMMA FunctionIsSequence ==
    ASSUME NEW S, NEW n \in Nat, NEW f \in [1..n -> S]
    PROVE  f \in Seq(S) /\ Len(f) = n /\ DOMAIN f = 1..n
OBVIOUS

LEMMA WhatIsJoined ==
    ASSUME NEW S, NEW a \in Seq(S), NEW b \in Seq(S)
    PROVE  /\ DOMAIN (a \o b) = 1..(Len(a) + Len(b))
           /\ \A i \in 1..Len(a) : (a \o b)[i] = a[i]
           /\ \A i \in 1..Len(b) : (a \o b)[Len(a) + i] = b[i]
OBVIOUS

LEMMA WhatFollows ==
    ASSUME log \in Seq(Kinds), NEW after \in Nat
    PROVE  /\ EventsAfter(after) \in Seq(Event)
           /\ Len(EventsAfter(after)) = IF after <= Len(log) THEN Len(log) - after ELSE 0
           /\ \A i \in 1..Len(EventsAfter(after)) :
                 /\ EventsAfter(after)[i].sequence = after + i
                 /\ after + i \in DOMAIN log /\ EventsAfter(after)[i].event = log[after + i]
<1> DEFINE n == IF after <= Len(log) THEN Len(log) - after ELSE 0
<1>1. n \in Nat /\ 1..(Len(log) - after) = 1..n /\ Len(log) \in Nat
  OBVIOUS
<1>2. \A i \in 1..n : after + i \in DOMAIN log /\ log[after + i] \in Kinds
  BY <1>1
<1>3. EventsAfter(after) \in [1..n -> Event]
  BY <1>1, <1>2 DEF EventsAfter, Event
<1>4. EventsAfter(after) \in Seq(Event) /\ Len(EventsAfter(after)) = n
  BY <1>1, <1>3, FunctionIsSequence
<1> HIDE DEF n
<1>5. \A i \in 1..n : EventsAfter(after)[i] = [sequence |-> after + i, event |-> log[after + i]]
  BY <1>1 DEF EventsAfter
<1>6. ASSUME NEW i \in 1..n
      PROVE  /\ EventsAfter(after)[i].sequence = after + i
             /\ EventsAfter(after)[i].event = log[after + i]
  <2>1. EventsAfter(after)[i] = [sequence |-> after + i, event |-> log[after + i]]
    BY <1>5
  <2> QED BY <2>1
<1>7. 1..Len(EventsAfter(after)) = 1..n
  BY <1>4
<1> QED BY <1>2, <1>4, <1>6, <1>7 DEF n

LEMMA WhatIsPolled ==
    ASSUME ReadEvents
    PROVE  \/ status = "deleted" /\ link' = [link EXCEPT !.stage = "broken"] /\ wire' = wire
           \/ /\ status # "deleted" /\ wire' = wire \o EventsAfter(link.sequence)
              /\ link' = [link EXCEPT !.sequence = @ + Len(EventsAfter(link.sequence)),
                                      !.stage = IF link.saw \in Terminal /\ EventsAfter(link.sequence) = <<>>
                                                THEN "closed" ELSE "session"]
BY DEF ReadEvents

LEMMA WhatIsRead ==
    ASSUME TypeOK, Read
    PROVE  \E n \in 1..Len(wire) :
              /\ SequencesOf(SubSeq(wire, 1, n)) \in [1..n -> Nat]
              /\ \A i \in 1..n : SequencesOf(SubSeq(wire, 1, n))[i] = wire[i].sequence
              /\ delivered' = delivered \o SequencesOf(SubSeq(wire, 1, n))
              /\ \/ /\ client' = [client EXCEPT !.lastEventId = wire[n].sequence, !.stage = "stopped"]
                    /\ Disconnect
                 \/ /\ client' = [client EXCEPT !.lastEventId = wire[n].sequence, !.stage = "snapshot"]
                    /\ Disconnect
                    /\ \E i \in 1..n : wire[i].event \in {"complete", "error"}
                 \/ /\ client' = [client EXCEPT !.lastEventId = wire[n].sequence]
                    /\ wire' = SubSeq(wire, n + 1, Len(wire))
                    /\ UNCHANGED link
<1> DEFINE blocks(n) == SubSeq(wire, 1, n)
<1>1. PICK n \in 1..Len(wire) :
         /\ delivered' = delivered \o SequencesOf(blocks(n))
         /\ LET heard == [client EXCEPT !.lastEventId = Last(blocks(n)).sequence] IN
            IF Last(blocks(n)).event = "cancelled"
            THEN client' = [heard EXCEPT !.stage = "stopped"] /\ Disconnect
            ELSE IF KindsOf(blocks(n)) \cap {"complete", "error"} # {}
            THEN client' = [heard EXCEPT !.stage = "snapshot"] /\ Disconnect
            ELSE /\ client' = heard
                 /\ wire' = SubSeq(wire, n + 1, Len(wire))
                 /\ UNCHANGED link
  BY DEF Read
<1>2. wire \in Seq(Event) /\ client \in Client /\ n \in Nat /\ n <= Len(wire)
  BY DEF TypeOK
<1>3. blocks(n) \in Seq(Event) /\ Len(blocks(n)) = n /\ \A i \in 1..n : blocks(n)[i] = wire[i] /\ wire[i] \in Event
  BY <1>2
<1>4. /\ SequencesOf(blocks(n)) \in [1..n -> Nat]
      /\ \A i \in 1..n : SequencesOf(blocks(n))[i] = wire[i].sequence
  BY <1>2, <1>3 DEF SequencesOf, Event
<1>5. Last(blocks(n)) = wire[n]
  BY <1>2, <1>3 DEF Last
<1>6. KindsOf(blocks(n)) \cap {"complete", "error"} # {} => \E i \in 1..n : wire[i].event \in {"complete", "error"}
  BY <1>2, <1>3 DEF KindsOf, Range
<1>7. \A e, f : [[client EXCEPT !.lastEventId = e] EXCEPT !.stage = f]
                  = [client EXCEPT !.lastEventId = e, !.stage = f]
  OBVIOUS
<1> HIDE DEF blocks
<1>8. \/ client' = [client EXCEPT !.lastEventId = wire[n].sequence, !.stage = "stopped"] /\ Disconnect
      \/ /\ client' = [client EXCEPT !.lastEventId = wire[n].sequence, !.stage = "snapshot"] /\ Disconnect
         /\ KindsOf(blocks(n)) \cap {"complete", "error"} # {}
      \/ /\ client' = [client EXCEPT !.lastEventId = wire[n].sequence]
         /\ wire' = SubSeq(wire, n + 1, Len(wire)) /\ UNCHANGED link
  BY <1>1, <1>5, <1>7
<1> QED BY <1>1, <1>4, <1>6, <1>8 DEF blocks

\* The type invariant.
LEMMA EventsTypeCorrect == Spec => []TypeOK
<1>1. Init => TypeOK
  BY EventsAssumption DEF Init, TypeOK, NoLink, Link, Client, ClientStages, Terminal
<1>2. TypeOK /\ [Next]_vars => TypeOK'
  <2> SUFFICES ASSUME TypeOK, [Next]_vars PROVE TypeOK'
    OBVIOUS
  <2> USE EventsAssumption
  <2>1. NoLink \in Link /\ <<>> \in Seq(Event)
    BY DEF NoLink, Link
  <2>2. ASSUME NEW c \in Client, NEW stage \in ClientStages PROVE [c EXCEPT !.stage = stage] \in Client
    BY DEF Client
  <2>3. ASSUME NEW c \in Client, Reconnect(c) PROVE client' \in Client
    <3>1. c.reconnectAttempt + 1 \in Nat /\ "connect" \in ClientStages /\ "final" \in ClientStages
      BY DEF Client, ClientStages
    <3> QED BY <2>3, <3>1 DEF Reconnect, Client
  <2>4. CASE Publish
    BY <2>4 DEF Publish, TypeOK, Kinds
  <2>5. CASE Finish
    BY <2>5 DEF Finish, TypeOK, Kinds, Terminal, EndEvent
  <2>6. CASE Recheck
    BY <2>6 DEF Recheck, TypeOK
  <2>7. CASE Delete
    BY <2>7 DEF Delete, TypeOK
  <2>8. CASE ReadSession
    <3>1. link' \in Link
      BY <2>8 DEF ReadSession, TypeOK, Link
    <3> QED BY <2>8, <3>1 DEF ReadSession, TypeOK, writerVars
  <2>9. CASE ReadEvents
    <3>1. log \in Seq(Kinds) /\ link \in Link /\ link.sequence \in Nat /\ wire \in Seq(Event)
      BY DEF TypeOK, Link
    <3>2. EventsAfter(link.sequence) \in Seq(Event)
      BY <3>1, WhatFollows
    <3>2a. Len(EventsAfter(link.sequence)) \in Nat
      BY <3>2
    <3>3. wire' \in Seq(Event)
      <4>1. wire' = wire \/ wire' = wire \o EventsAfter(link.sequence)
        BY <2>9, WhatIsPolled
      <4>2. CASE wire' = wire \o EventsAfter(link.sequence)
        BY <3>1, <3>2, <4>2
      <4> QED BY <3>1, <4>1, <4>2
    <3>4. link' \in Link
      <4>1. link.sequence + Len(EventsAfter(link.sequence)) \in Nat
        BY <3>1, <3>2a
      <4> QED BY <2>9, <3>1, <4>1, WhatIsPolled DEF Link
    <3> QED BY <2>9, <3>3, <3>4 DEF ReadEvents, TypeOK, writerVars
  <2>10. CASE Watch
    BY <2>2, <2>10 DEF Watch, Become, TypeOK, writerVars, ClientStages
  <2>11. CASE Connect
    <3>1. link' \in Link
      BY <2>1, <2>11 DEF Connect, TypeOK, Link, Client, NoLink
    <3>2. Become("error") \/ Become("reading")
      BY <2>11 DEF Connect
    <3>3. client' \in Client
      BY <2>2, <3>2 DEF Become, TypeOK, ClientStages, ClientEnds
    <3> QED BY <2>11, <3>1, <3>3 DEF Connect, TypeOK, writerVars
  <2>12. CASE Read
    <3>1. PICK n \in 1..Len(wire) :
             /\ SequencesOf(SubSeq(wire, 1, n)) \in [1..n -> Nat]
             /\ delivered' = delivered \o SequencesOf(SubSeq(wire, 1, n))
             /\ \E stage \in {client.stage, "stopped", "snapshot"} :
                   client' = [client EXCEPT !.lastEventId = wire[n].sequence, !.stage = stage]
             /\ Disconnect \/ (wire' = SubSeq(wire, n + 1, Len(wire)) /\ UNCHANGED link)
      <4>1. client \in Client
        BY DEF TypeOK
      <4>2. \A e : [client EXCEPT !.lastEventId = e] = [client EXCEPT !.lastEventId = e, !.stage = client.stage]
        BY <4>1 DEF Client
      <4>3. PICK n \in 1..Len(wire) :
              /\ SequencesOf(SubSeq(wire, 1, n)) \in [1..n -> Nat]
              /\ delivered' = delivered \o SequencesOf(SubSeq(wire, 1, n))
              /\ \/ client' = [client EXCEPT !.lastEventId = wire[n].sequence, !.stage = "stopped"] /\ Disconnect
                 \/ client' = [client EXCEPT !.lastEventId = wire[n].sequence, !.stage = "snapshot"] /\ Disconnect
                 \/ /\ client' = [client EXCEPT !.lastEventId = wire[n].sequence]
                    /\ wire' = SubSeq(wire, n + 1, Len(wire)) /\ UNCHANGED link
        BY <2>12, WhatIsRead
      <4>4. \E stage \in {client.stage, "stopped", "snapshot"} :
              client' = [client EXCEPT !.lastEventId = wire[n].sequence, !.stage = stage]
        BY <4>2, <4>3, Zenon
      <4>5. Disconnect \/ (wire' = SubSeq(wire, n + 1, Len(wire)) /\ UNCHANGED link)
        BY <4>3, Zenon
      <4> QED BY <4>3, <4>4, <4>5
    <3>2. wire \in Seq(Event) /\ delivered \in Seq(Nat) /\ client \in Client /\ link \in Link /\ n \in Nat
      BY DEF TypeOK
    <3>3. wire[n].sequence \in Nat
      <4>1. wire[n] \in Event
        BY <3>2
      <4> QED BY <4>1 DEF Event
    <3>4. SequencesOf(SubSeq(wire, 1, n)) \in Seq(Nat)
      BY <3>1, <3>2, FunctionIsSequence
    <3>5. client' \in Client
      BY <3>1, <3>2, <3>3 DEF Client, ClientStages, ClientEnds
    <3>6. wire' \in Seq(Event) /\ link' \in Link
      <4>1. CASE Disconnect
        BY <2>1, <4>1 DEF Disconnect
      <4>2. CASE wire' = SubSeq(wire, n + 1, Len(wire)) /\ UNCHANGED link
        BY <3>2, <4>2
      <4> QED BY <3>1, <4>1, <4>2
    <3>7. delivered' \in Seq(Nat)
      BY <3>1, <3>2, <3>4
    <3> QED BY <2>12, <3>5, <3>6, <3>7 DEF Read, TypeOK, writerVars
  <2>13. CASE EndOfStream \/ StreamBreaks
    BY <2>1, <2>2, <2>3, <2>13 DEF EndOfStream, StreamBreaks, Become, Disconnect, TypeOK, writerVars, ClientStages
  <2>14. CASE Snapshot
    <3>1. status # "deleted" /\ Return => client' \in Client
      BY DEF Return, TypeOK, Client, ClientStages, ClientEnds
    <3>2. Become("error") \/ Become("exhausted") => client' \in Client
      BY <2>2 DEF Become, TypeOK, ClientStages, ClientEnds
    <3>3. Reconnect(client) => client' \in Client
      BY <2>3 DEF TypeOK
    <3>4. client' \in Client
      BY <2>14, <3>1, <3>2, <3>3 DEF Snapshot, Terminal
    <3> QED BY <2>14, <3>4 DEF Snapshot, TypeOK, writerVars
  <2>15. CASE NetworkFails
    <3>1. cuts' \in 0..MaxCuts
      BY <2>15 DEF NetworkFails, TypeOK
    <3>2. Become("check") \/ Become("error") \/ Become("exhausted") => client' \in Client
      BY <2>2 DEF Become, TypeOK, ClientStages, ClientEnds
    <3>3. Reconnect(client) => client' \in Client
      BY <2>3 DEF TypeOK
    <3>4. wire # <<>> => /\ Head(wire).sequence \in Nat
                         /\ Reconnect([client EXCEPT !.lastEventId = Head(wire).sequence]) => client' \in Client
      <4>1. wire # <<>> => Head(wire) \in Event
        BY DEF TypeOK
      <4>2. wire # <<>> => Head(wire).sequence \in Nat
        BY <4>1 DEF Event
      <4>3. wire # <<>> => [client EXCEPT !.lastEventId = Head(wire).sequence] \in Client
        BY <4>2 DEF TypeOK, Client
      <4> QED BY <2>3, <4>2, <4>3
    <3>5. client' \in Client /\ lost' \subseteq Nat
      BY <2>15, <3>2, <3>3, <3>4 DEF NetworkFails, TypeOK
    <3> QED BY <2>1, <2>15, <3>1, <3>5 DEF NetworkFails, Disconnect, TypeOK, writerVars
  <2>16. CASE UNCHANGED vars
    BY <2>16 DEF TypeOK, vars, writerVars
  <2> QED
    BY <2>4, <2>5, <2>6, <2>7, <2>8, <2>9, <2>10, <2>11, <2>12, <2>13, <2>14, <2>15, <2>16
       DEF Next, Writer, Server, Browser
<1> QED BY <1>1, <1>2, PTL DEF Spec

-----------------------------------------------------------------------------
(* Every event once.                                                        *)

\* While a stream is open, what is on the wire continues what the page was handed,
\* without a gap, up to what the server remembers to have sent; with none open
\* nothing is under way.  Every event missing has a number the page is past.
StreamInv ==
    /\ lost \subseteq 1..client.lastEventId
    /\ IF client.stage = "reading"
       THEN /\ link.sequence = client.lastEventId + Len(wire)
            /\ \A i \in 1..Len(wire) : wire[i].sequence = client.lastEventId + i
       ELSE link = NoLink /\ wire = <<>>

\* Numbers that go on where others end.
LEMMA NumbersGoOn ==
    ASSUME NEW d \in Seq(Nat), NEW last \in Nat, NEW missing \in SUBSET (1..last),
           Range(d) = (1..last) \ missing, \A i, j \in DOMAIN d : i < j => d[i] < d[j],
           NEW n \in Nat, NEW more \in [1..n -> Nat], \A i \in 1..n : more[i] = last + i
    PROVE  /\ Range(d \o more) = (1..(last + n)) \ missing
           /\ \A i, j \in DOMAIN (d \o more) : i < j => (d \o more)[i] < (d \o more)[j]
<1>1. more \in Seq(Nat) /\ Len(more) = n /\ DOMAIN more = 1..n
  BY FunctionIsSequence
<1>2. /\ DOMAIN (d \o more) = 1..(Len(d) + n) /\ DOMAIN d = 1..Len(d) /\ Len(d) \in Nat
      /\ \A i \in 1..Len(d) : (d \o more)[i] = d[i]
      /\ \A i \in (Len(d) + 1)..(Len(d) + n) : (d \o more)[i] = last + (i - Len(d))
  <2>1. /\ DOMAIN (d \o more) = 1..(Len(d) + Len(more))
        /\ \A i \in 1..Len(d) : (d \o more)[i] = d[i]
        /\ \A i \in 1..Len(more) : (d \o more)[Len(d) + i] = more[i]
    <3>1. d \in Seq(Nat) /\ more \in Seq(Nat)
      BY <1>1
    <3> QED BY ONLY <3>1, WhatIsJoined
  <2>2. Len(d) \in Nat /\ DOMAIN d = 1..Len(d)
    OBVIOUS
  <2>3. ASSUME NEW i \in (Len(d) + 1)..(Len(d) + n) PROVE (d \o more)[i] = last + (i - Len(d))
    <3>1. i - Len(d) \in 1..n /\ i = Len(d) + (i - Len(d))
      BY <2>2
    <3>2. (d \o more)[Len(d) + (i - Len(d))] = more[i - Len(d)]
      BY <1>1, <2>1, <3>1
    <3> QED BY <3>1, <3>2
  <2> QED BY <1>1, <2>1, <2>2, <2>3
<1>3. \A i \in 1..Len(d) : d[i] \in 1..last /\ d[i] \notin missing
  BY <1>2 DEF Range
<1>4. ASSUME NEW x \in Range(d \o more) PROVE x \in (1..(last + n)) \ missing
  <2>1. PICK i \in 1..(Len(d) + n) : x = (d \o more)[i]
    BY <1>2 DEF Range
  <2>2. CASE i \in 1..Len(d)
    BY <1>2, <1>3, <2>1, <2>2
  <2>3. CASE i \in (Len(d) + 1)..(Len(d) + n)
    BY <1>2, <2>1, <2>3
  <2> QED BY <1>2, <2>2, <2>3
<1>5. ASSUME NEW x \in (1..(last + n)) \ missing PROVE x \in Range(d \o more)
  <2>1. CASE x \in 1..last
    <3>1. x \in Range(d)
      BY <2>1
    <3>2. PICK i \in 1..Len(d) : x = d[i]
      BY <1>2, <3>1 DEF Range
    <3>3. i \in DOMAIN (d \o more) /\ (d \o more)[i] = x
      BY <1>2, <3>2
    <3> QED BY <3>3 DEF Range
  <2>2. CASE x \in (last + 1)..(last + n)
    <3>1. Len(d) + (x - last) \in (Len(d) + 1)..(Len(d) + n)
      BY <1>2, <2>2
    <3>2. (d \o more)[Len(d) + (x - last)] = x /\ Len(d) + (x - last) \in DOMAIN (d \o more)
      BY <1>2, <2>2, <3>1
    <3> QED BY <3>2 DEF Range
  <2> QED BY <2>1, <2>2
<1>6. ASSUME NEW i \in 1..(Len(d) + n), NEW j \in 1..(Len(d) + n), i < j
      PROVE  (d \o more)[i] < (d \o more)[j]
  <2>1. CASE j \in 1..Len(d)
    <3>1. i \in DOMAIN d /\ j \in DOMAIN d
      BY <1>2, <1>6, <2>1
    <3> QED BY <1>2, <1>6, <2>1, <3>1
  <2>2. CASE i \in 1..Len(d) /\ j \in (Len(d) + 1)..(Len(d) + n)
    BY <1>2, <1>3, <2>2
  <2>3. CASE i \in (Len(d) + 1)..(Len(d) + n) /\ j \in (Len(d) + 1)..(Len(d) + n)
    BY <1>2, <1>6, <2>3
  <2> QED BY <1>2, <1>6, <2>1, <2>2, <2>3
<1> QED BY <1>2, <1>4, <1>5, <1>6

\* The page is handed every event up to the last one it saw, once and in order, but
\* for those whose own block was cut: for any interleaving of writers, polls, reads,
\* reconnections and failures.
THEOREM EveryEventIsSeenOnce == Spec => []EveryEventOnce
<1>1. Init => StreamInv /\ EveryEventOnce
  BY DEF Init, StreamInv, EveryEventOnce, NoLink, Range
<1>2. TypeOK /\ StreamInv /\ EveryEventOnce /\ [Next]_vars => (StreamInv /\ EveryEventOnce)'
  <2> SUFFICES ASSUME TypeOK, StreamInv, EveryEventOnce, [Next]_vars PROVE (StreamInv /\ EveryEventOnce)'
    OBVIOUS
  <2>1. client \in Client /\ client.lastEventId \in Nat /\ wire \in Seq(Event) /\ link \in Link
    BY DEF TypeOK, Client
  <2>2. ASSUME Disconnect, client'.stage # "reading", client'.lastEventId = client.lastEventId,
               UNCHANGED <<delivered, lost>>
        PROVE  (StreamInv /\ EveryEventOnce)'
    BY <2>2 DEF Disconnect, StreamInv, EveryEventOnce
  <2>3. ASSUME UNCHANGED <<link, wire, delivered, lost>>,
               client'.stage = "reading" <=> client.stage = "reading",
               client'.lastEventId = client.lastEventId
        PROVE  (StreamInv /\ EveryEventOnce)'
    BY <2>3 DEF StreamInv, EveryEventOnce
  <2>4. ASSUME NEW stage \in ClientStages, Become(stage)
        PROVE  client'.stage = stage /\ client'.lastEventId = client.lastEventId
    BY <2>1, <2>4 DEF Become, Client
  <2>5. ASSUME NEW c \in Client, Reconnect(c)
        PROVE  client'.stage # "reading" /\ client'.lastEventId = c.lastEventId
    BY <2>5 DEF Reconnect, Client
  <2>6. CASE Writer \/ UNCHANGED vars
    BY <2>3, <2>6 DEF Writer, Publish, Finish, Recheck, Delete, vars, writerVars
  <2>7. CASE ReadSession
    <3>1. link.stage = "session" /\ link'.sequence = link.sequence
      BY <2>1, <2>7 DEF ReadSession, Link
    <3> QED BY <2>7, <3>1 DEF ReadSession, StreamInv, EveryEventOnce, NoLink
  <2>8. CASE ReadEvents
    <3>1. client.stage = "reading"
      BY <2>8 DEF ReadEvents, StreamInv, NoLink
    <3>2. client' = client /\ delivered' = delivered /\ lost' = lost
      BY <2>8 DEF ReadEvents
    <3>3. link.sequence = client.lastEventId + Len(wire) /\ link.sequence \in Nat /\ Len(wire) \in Nat
          /\ \A i \in 1..Len(wire) : wire[i].sequence = client.lastEventId + i
      BY <2>1, <3>1 DEF StreamInv
    <3>4. CASE link' = [link EXCEPT !.stage = "broken"] /\ wire' = wire
      BY <2>1, <3>1, <3>2, <3>3, <3>4 DEF StreamInv, EveryEventOnce, Link
    <3>5. CASE /\ wire' = wire \o EventsAfter(link.sequence)
               /\ link'.sequence = link.sequence + Len(EventsAfter(link.sequence))
      <4> DEFINE events == EventsAfter(link.sequence)
      <4>1. events \in Seq(Event) /\ \A i \in 1..Len(events) : events[i].sequence = link.sequence + i
        BY <3>3, WhatFollows DEF TypeOK
      <4> HIDE DEF events
      <4>2. Len(events) \in Nat /\ Len(wire \o events) = Len(wire) + Len(events)
        BY <2>1, <4>1
      <4>3. link'.sequence = client.lastEventId + Len(wire \o events)
        BY <2>1, <3>3, <3>5, <4>2 DEF events
      <4>4. ASSUME NEW i \in 1..Len(wire \o events)
            PROVE  (wire \o events)[i].sequence = client.lastEventId + i
        <5>1. CASE i \in 1..Len(wire)
          BY <2>1, <3>3, <4>1, <4>2, <5>1
        <5>2. CASE i - Len(wire) \in 1..Len(events)
          <6>1. (wire \o events)[i] = events[i - Len(wire)]
            BY <2>1, <3>3, <4>1, <4>2, <5>2
          <6> QED BY <2>1, <3>3, <4>1, <4>2, <5>2, <6>1
        <5> QED BY <3>3, <4>2, <5>1, <5>2
      <4> QED BY <3>1, <3>2, <3>5, <4>3, <4>4 DEF StreamInv, EveryEventOnce, events
    <3> QED BY <2>1, <2>8, <3>4, <3>5, WhatIsPolled DEF Link
  <2>9. CASE Watch
    BY <2>3, <2>4, <2>9 DEF Watch, ClientStages
  <2>10. CASE Connect
    <3>1. CASE Become("error") /\ UNCHANGED link
      BY <2>3, <2>4, <2>10, <3>1 DEF Connect, ClientStages, ClientEnds
    <3>2. CASE Become("reading") /\ link' = [NoLink EXCEPT !.stage = "session", !.sequence = client.lastEventId]
      <4>1. wire = <<>> /\ wire' = wire /\ delivered' = delivered /\ lost' = lost
        BY <2>10 DEF Connect, StreamInv
      <4>2. client'.stage = "reading" /\ client'.lastEventId = client.lastEventId
        BY <2>4, <3>2 DEF ClientStages
      <4>3. link'.sequence = client.lastEventId + Len(wire)
        BY <2>1, <3>2, <4>1 DEF NoLink
      <4> QED BY <4>1, <4>2, <4>3 DEF StreamInv, EveryEventOnce
    <3> QED BY <2>10, <3>1, <3>2 DEF Connect
  <2>11. CASE Read
    <3>1. PICK n \in 1..Len(wire) :
             /\ SequencesOf(SubSeq(wire, 1, n)) \in [1..n -> Nat]
             /\ \A i \in 1..n : SequencesOf(SubSeq(wire, 1, n))[i] = wire[i].sequence
             /\ delivered' = delivered \o SequencesOf(SubSeq(wire, 1, n))
             /\ client'.lastEventId = wire[n].sequence
             /\ \/ client'.stage # "reading" /\ Disconnect
                \/ client'.stage = client.stage /\ wire' = SubSeq(wire, n + 1, Len(wire)) /\ link' = link
      <4>1. \A e, f : /\ [client EXCEPT !.lastEventId = e, !.stage = f].lastEventId = e
                      /\ [client EXCEPT !.lastEventId = e, !.stage = f].stage = f
                      /\ [client EXCEPT !.lastEventId = e].lastEventId = e
                      /\ [client EXCEPT !.lastEventId = e].stage = client.stage
        BY <2>1 DEF Client
      <4>2. PICK n \in 1..Len(wire) :
              /\ SequencesOf(SubSeq(wire, 1, n)) \in [1..n -> Nat]
              /\ \A i \in 1..n : SequencesOf(SubSeq(wire, 1, n))[i] = wire[i].sequence
              /\ delivered' = delivered \o SequencesOf(SubSeq(wire, 1, n))
              /\ \/ client' = [client EXCEPT !.lastEventId = wire[n].sequence, !.stage = "stopped"] /\ Disconnect
                 \/ client' = [client EXCEPT !.lastEventId = wire[n].sequence, !.stage = "snapshot"] /\ Disconnect
                 \/ /\ client' = [client EXCEPT !.lastEventId = wire[n].sequence]
                    /\ wire' = SubSeq(wire, n + 1, Len(wire)) /\ link' = link
        BY <2>11, WhatIsRead
      <4>3. /\ client'.lastEventId = wire[n].sequence
            /\ \/ client'.stage # "reading" /\ Disconnect
               \/ client'.stage = client.stage /\ wire' = SubSeq(wire, n + 1, Len(wire)) /\ link' = link
        <5>1. CASE client' = [client EXCEPT !.lastEventId = wire[n].sequence, !.stage = "stopped"] /\ Disconnect
          BY <4>1, <5>1
        <5>2. CASE client' = [client EXCEPT !.lastEventId = wire[n].sequence, !.stage = "snapshot"] /\ Disconnect
          BY <4>1, <5>2
        <5>3. CASE /\ client' = [client EXCEPT !.lastEventId = wire[n].sequence]
                   /\ wire' = SubSeq(wire, n + 1, Len(wire)) /\ link' = link
          BY <4>1, <5>3
        <5> QED BY <4>2, <5>1, <5>2, <5>3
      <4> QED BY <4>2, <4>3
    <3>2. client.stage = "reading" /\ lost' = lost /\ n \in Nat /\ n <= Len(wire) /\ Len(wire) \in Nat
      BY <2>1, <2>11 DEF Read
    <3>3. /\ link.sequence = client.lastEventId + Len(wire)
          /\ \A i \in 1..Len(wire) : wire[i].sequence = client.lastEventId + i
      BY <3>2 DEF StreamInv
    <3>4. client'.lastEventId = client.lastEventId + n
      BY <3>1, <3>3
    <3>5. EveryEventOnce'
      <4>1. delivered \in Seq(Nat) /\ lost \in SUBSET (1..client.lastEventId)
        BY DEF TypeOK, StreamInv
      <4>2. \A i \in 1..n : SequencesOf(SubSeq(wire, 1, n))[i] = client.lastEventId + i
        BY <3>1, <3>2, <3>3
      <4>3. /\ Range(delivered') = (1..(client.lastEventId + n)) \ lost
            /\ \A i, j \in DOMAIN delivered' : i < j => delivered'[i] < delivered'[j]
        <5>1. /\ Range(delivered) = (1..client.lastEventId) \ lost
              /\ \A i, j \in DOMAIN delivered : i < j => delivered[i] < delivered[j]
          BY DEF EveryEventOnce
        <5> DEFINE more == SequencesOf(SubSeq(wire, 1, n))
        <5>2. more \in [1..n -> Nat] /\ (\A i \in 1..n : more[i] = client.lastEventId + i) /\ delivered' = delivered \o more
          BY <3>1, <4>2
        <5> HIDE DEF more
        <5>3. /\ Range(delivered \o more) = (1..(client.lastEventId + n)) \ lost
              /\ \A i, j \in DOMAIN (delivered \o more) : i < j => (delivered \o more)[i] < (delivered \o more)[j]
          BY <2>1, <3>2, <4>1, <5>1, <5>2, NumbersGoOn
        <5> QED BY <5>2, <5>3
      <4> QED BY <3>2, <3>4, <4>3 DEF EveryEventOnce
    <3>6. lost' \subseteq 1..client'.lastEventId
      BY <2>1, <3>2, <3>4 DEF StreamInv
    <3>7. CASE client'.stage # "reading" /\ Disconnect
      BY <3>5, <3>6, <3>7 DEF StreamInv, Disconnect
    <3>8. CASE client'.stage = client.stage /\ wire' = SubSeq(wire, n + 1, Len(wire)) /\ link' = link
      <4>1. Len(wire') = Len(wire) - n /\ \A i \in 1..(Len(wire) - n) : wire'[i] = wire[n + i]
        BY <2>1, <3>2, <3>8
      <4>2. ASSUME NEW i \in 1..Len(wire') PROVE wire'[i].sequence = client'.lastEventId + i
        <5>1. n + i \in 1..Len(wire) /\ wire'[i] = wire[n + i]
          BY <3>2, <4>1
        <5>2. wire[n + i].sequence = client.lastEventId + (n + i)
          BY <3>3, <5>1
        <5> QED BY <2>1, <3>2, <3>4, <5>1, <5>2
      <4>3. link'.sequence = client'.lastEventId + Len(wire')
        <5>1. link'.sequence = client.lastEventId + Len(wire) /\ Len(wire') = Len(wire) - n
          BY <3>3, <3>8, <4>1
        <5>2. client.lastEventId \in Int /\ Len(wire) \in Int /\ n \in Int
          BY <2>1, <3>2
        <5> QED BY ONLY <3>4, <5>1, <5>2
      <4> QED BY <3>2, <3>5, <3>6, <3>8, <4>2, <4>3 DEF StreamInv
    <3> QED BY <3>1, <3>7, <3>8
  <2>12. CASE EndOfStream \/ StreamBreaks
    BY <2>1, <2>2, <2>4, <2>5, <2>12 DEF EndOfStream, StreamBreaks, ClientStages
  <2>13. CASE Snapshot
    <3>1. Return => client'.stage # "reading" /\ client'.lastEventId = client.lastEventId
      BY <2>1 DEF Return, Client
    <3>2. Become("error") \/ Become("exhausted") \/ Reconnect(client)
          => client'.stage # "reading" /\ client'.lastEventId = client.lastEventId
      BY <2>1, <2>4, <2>5 DEF ClientStages, ClientEnds
    <3>3. client.stage # "reading" /\ UNCHANGED <<link, wire, delivered, lost>>
      BY <2>13 DEF Snapshot
    <3>4. client'.stage # "reading" /\ client'.lastEventId = client.lastEventId
      BY <2>13, <3>1, <3>2 DEF Snapshot
    <3> QED BY <2>3, <3>3, <3>4
  <2>14. CASE NetworkFails
    <3>1. Become("check") \/ Become("error") \/ Become("exhausted") \/ Reconnect(client)
          => client'.stage # "reading" /\ client'.lastEventId = client.lastEventId
      BY <2>1, <2>4, <2>5 DEF ClientStages, ClientEnds
    <3>2. Disconnect /\ delivered' = delivered
      BY <2>14 DEF NetworkFails
    <3>3. CASE /\ client'.stage # "reading" /\ client'.lastEventId = client.lastEventId
               /\ UNCHANGED lost
      BY <2>2, <3>2, <3>3
    <3>4. CASE /\ client.stage = "reading" /\ wire # <<>>
               /\ Reconnect([client EXCEPT !.lastEventId = Head(wire).sequence])
               /\ lost' = lost \cup {Head(wire).sequence}
      <4>1. 1 \in 1..Len(wire) /\ Head(wire) = wire[1]
        BY <2>1, <3>4
      <4>2. Head(wire).sequence = client.lastEventId + 1
        BY <3>4, <4>1 DEF StreamInv
      <4>3. [client EXCEPT !.lastEventId = client.lastEventId + 1] \in Client
        BY <2>1 DEF Client
      <4>4. client'.stage # "reading" /\ client'.lastEventId = client.lastEventId + 1
        BY <2>1, <2>5, <3>4, <4>2, <4>3 DEF Client
      <4>5. (1..(client.lastEventId + 1)) \ (lost \cup {client.lastEventId + 1}) = (1..client.lastEventId) \ lost
        BY <2>1
      <4>6. EveryEventOnce'
        BY <3>2, <3>4, <4>2, <4>4, <4>5 DEF EveryEventOnce
      <4>7. lost' \subseteq 1..client'.lastEventId
        BY <2>1, <3>4, <4>2, <4>4 DEF StreamInv
      <4> QED BY <3>2, <4>4, <4>6, <4>7 DEF StreamInv, Disconnect
    <3> QED BY <2>14, <3>1, <3>3, <3>4 DEF NetworkFails
  <2> QED
    BY <2>6, <2>7, <2>8, <2>9, <2>10, <2>11, <2>12, <2>13, <2>14 DEF Next, Server, Browser
<1> QED BY <1>1, <1>2, EventsTypeCorrect, PTL DEF Spec

-----------------------------------------------------------------------------
(* The first result.                                                        *)

\* Until the review runs again, its last event is news that it is over: in the
\* log, on the wire, and where the browser asks for the review because of it.
NewsIsTrue ==
    rechecks = 0 =>
        /\ \A i \in DOMAIN log : log[i] # "progress" => status # "running"
        /\ \A i \in DOMAIN wire : wire[i].event # "progress" => status # "running"
        /\ client.stage = "snapshot" => status # "running"

LEMMA NewsStart == Init => NewsIsTrue
BY DEF Init, NewsIsTrue

LEMMA NewsStep == TypeOK /\ NewsIsTrue /\ [Next]_vars => NewsIsTrue'
<1> SUFFICES ASSUME TypeOK, NewsIsTrue, [Next]_vars PROVE NewsIsTrue'
  OBVIOUS
<1>1. log \in Seq(Kinds) /\ wire \in Seq(Event) /\ link \in Link /\ client \in Client /\ rechecks \in Nat
  BY EventsAssumption DEF TypeOK
<1>2. CASE Publish
  <2>1. \A i \in DOMAIN log' : log'[i] # "progress" => i \in DOMAIN log /\ log'[i] = log[i]
    BY <1>1, <1>2 DEF Publish
  <2> QED BY <1>2, <2>1 DEF Publish, NewsIsTrue
<1>3. CASE Finish
  BY <1>3 DEF Finish, NewsIsTrue, Terminal
<1>4. CASE Recheck
  BY <1>1, <1>4 DEF Recheck, NewsIsTrue
<1>5. CASE Delete
  BY <1>5 DEF Delete, NewsIsTrue
<1>6. ASSUME UNCHANGED <<status, log, rechecks>>, UNCHANGED wire \/ wire' = <<>>,
             client'.stage = "snapshot" => client.stage = "snapshot"
      PROVE  NewsIsTrue'
  BY <1>6 DEF NewsIsTrue
<1>7. ASSUME NEW stage \in ClientStages \ {"snapshot"}, Become(stage) PROVE client'.stage # "snapshot"
  BY <1>1, <1>7 DEF Become, Client
<1>8. ASSUME NEW c \in Client, Reconnect(c) PROVE client'.stage # "snapshot"
  BY <1>8 DEF Reconnect, Client
<1>9. CASE ReadEvents
  <2>1. wire' = wire \/ wire' = wire \o EventsAfter(link.sequence)
    BY <1>9, WhatIsPolled
  <2>2. EventsAfter(link.sequence) \in Seq(Event)
        /\ \A i \in 1..Len(EventsAfter(link.sequence)) :
              \E j \in DOMAIN log : EventsAfter(link.sequence)[i].event = log[j]
    BY <1>1, WhatFollows DEF Link
  <2>3. UNCHANGED <<status, log, rechecks, client>>
    BY <1>9 DEF ReadEvents, writerVars
  <2>4. CASE wire' = wire \o EventsAfter(link.sequence)
    <3> DEFINE events == EventsAfter(link.sequence)
    <3>1. /\ DOMAIN wire' = 1..(Len(wire) + Len(events)) /\ DOMAIN wire = 1..Len(wire)
          /\ \A i \in 1..Len(wire) : wire'[i] = wire[i]
          /\ \A i \in 1..Len(events) : wire'[Len(wire) + i] = events[i]
      BY <1>1, <2>2, <2>4, WhatIsJoined
    <3>2. ASSUME rechecks = 0, NEW i \in DOMAIN wire', wire'[i].event # "progress" PROVE status # "running"
      <4>1. Len(wire) \in Nat /\ Len(events) \in Nat
        BY <1>1, <2>2
      <4>2. CASE i \in 1..Len(wire)
        BY <3>1, <3>2, <4>2 DEF NewsIsTrue
      <4>3. CASE i - Len(wire) \in 1..Len(events)
        <5>1. i = Len(wire) + (i - Len(wire))
          BY <3>1, <4>1
        <5>2. PICK j \in DOMAIN log : events[i - Len(wire)].event = log[j]
          BY <2>2, <4>3
        <5> QED BY <3>1, <3>2, <4>3, <5>1, <5>2 DEF NewsIsTrue
      <4> QED BY <3>1, <4>1, <4>2, <4>3
    <3> QED BY <2>3, <3>2 DEF NewsIsTrue
  <2> QED BY <1>6, <2>1, <2>3, <2>4
<1>10. CASE ReadSession
  BY <1>6, <1>10 DEF ReadSession, writerVars
<1>11. CASE Watch \/ Connect
  BY <1>6, <1>7, <1>11 DEF Watch, Connect, writerVars, ClientStages, ClientEnds
<1>12. CASE Read
  <2>1. PICK n \in 1..Len(wire) :
           \/ client'.stage # "snapshot" /\ Disconnect
           \/ Disconnect /\ \E i \in 1..n : wire[i].event \in {"complete", "error"}
           \/ client'.stage = client.stage /\ wire' = SubSeq(wire, n + 1, Len(wire))
    <3>1. \A e, f : /\ [client EXCEPT !.lastEventId = e, !.stage = f].stage = f
                    /\ [client EXCEPT !.lastEventId = e].stage = client.stage
      BY <1>1 DEF Client
    <3>2. PICK n \in 1..Len(wire) :
            \/ client' = [client EXCEPT !.lastEventId = wire[n].sequence, !.stage = "stopped"] /\ Disconnect
            \/ Disconnect /\ \E i \in 1..n : wire[i].event \in {"complete", "error"}
            \/ /\ client' = [client EXCEPT !.lastEventId = wire[n].sequence]
               /\ wire' = SubSeq(wire, n + 1, Len(wire))
      BY <1>12, WhatIsRead
    <3> QED BY <3>1, <3>2
  <2>2. UNCHANGED <<status, log, rechecks>>
    BY <1>12 DEF Read, writerVars
  <2>3. CASE client'.stage # "snapshot" /\ Disconnect
    BY <1>6, <2>2, <2>3 DEF Disconnect
  <2>4. CASE Disconnect /\ \E i \in 1..n : wire[i].event \in {"complete", "error"}
    <3>1. rechecks = 0 => status # "running"
      BY <1>1, <2>4 DEF NewsIsTrue
    <3> QED BY <2>2, <2>4, <3>1 DEF NewsIsTrue, Disconnect
  <2>5. CASE client'.stage = client.stage /\ wire' = SubSeq(wire, n + 1, Len(wire))
    <3>1. \A i \in DOMAIN wire' : n + i \in DOMAIN wire /\ wire'[i] = wire[n + i]
      BY <1>1, <2>5
    <3> QED BY <2>2, <2>5, <3>1 DEF NewsIsTrue
  <2> QED BY <2>1, <2>3, <2>4, <2>5
<1>13. CASE EndOfStream \/ StreamBreaks
  BY <1>1, <1>6, <1>7, <1>8, <1>13 DEF EndOfStream, StreamBreaks, Disconnect, writerVars, ClientStages
<1>14. CASE Snapshot
  <2>1. Return => client'.stage # "snapshot"
    BY <1>1 DEF Return, Client
  <2>2. Become("error") \/ Become("exhausted") \/ Reconnect(client) => client'.stage # "snapshot"
    BY <1>1, <1>7, <1>8 DEF ClientStages, ClientEnds
  <2> QED BY <1>6, <1>14, <2>1, <2>2 DEF Snapshot, writerVars
<1>15. CASE NetworkFails
  <2>1. Become("check") \/ Become("error") \/ Become("exhausted") => client'.stage # "snapshot"
    BY <1>1, <1>7 DEF ClientStages, ClientEnds
  <2>2. \A e \in Nat : [client EXCEPT !.lastEventId = e] \in Client
    BY <1>1 DEF Client
  <2>3. wire # <<>> => Head(wire) \in Event
    BY <1>1
  <2>4. wire # <<>> /\ Reconnect([client EXCEPT !.lastEventId = Head(wire).sequence]) => client'.stage # "snapshot"
    BY <1>8, <2>2, <2>3 DEF Event
  <2>5. client'.stage # "snapshot"
    BY <1>1, <1>8, <1>15, <2>1, <2>4 DEF NetworkFails
  <2> QED BY <1>6, <1>15, <2>5 DEF NetworkFails, Disconnect, writerVars
<1>16. CASE UNCHANGED vars
  BY <1>6, <1>16 DEF vars, writerVars
<1> QED
  BY <1>2, <1>3, <1>4, <1>5, <1>9, <1>10, <1>11, <1>12, <1>13, <1>14, <1>15, <1>16
     DEF Next, Writer, Server, Browser

\* Whatever is cut, deleted or reconnected, the first review that is returned to
\* the page is over: it is asked for only on news that is true, or checked.
THEOREM FirstResultsAreOver == Spec => []FirstResultIsOver
<1>1. Init => FirstResultIsOver
  BY DEF Init, FirstResultIsOver, ResultIsOver
<1>2. TypeOK /\ NewsIsTrue /\ FirstResultIsOver /\ [Next]_vars => FirstResultIsOver'
  <2> SUFFICES ASSUME TypeOK, NewsIsTrue, FirstResultIsOver, [Next]_vars,
                      rechecks' = 0, client'.stage = "returned"
               PROVE  client'.result \in Terminal
    BY DEF FirstResultIsOver, ResultIsOver
  <2>1. client \in Client /\ rechecks \in Nat /\ status \in Terminal \cup {"running", "deleted"} /\ wire \in Seq(Event)
    BY EventsAssumption DEF TypeOK
  <2>2. rechecks = 0
    <3>1. UNCHANGED writerVars \/ Writer
      BY DEF Next, Server, ReadSession, ReadEvents, Watch, Browser, Connect, Read, EndOfStream, StreamBreaks,
             Snapshot, NetworkFails, vars
    <3>2. rechecks' = rechecks \/ rechecks' = rechecks + 1
      BY <3>1 DEF Writer, Publish, Finish, Recheck, Delete, writerVars
    <3> QED BY <2>1, <3>2
  <2>3. CASE client' = client
    BY <2>2, <2>3 DEF FirstResultIsOver, ResultIsOver
  <2>4. \A stage \in ClientStages \ {"returned"} : ~Become(stage)
    BY <2>1 DEF Become, Client
  <2>5. \A c \in Client : ~Reconnect(c)
    BY DEF Reconnect, Client
  <2>6. CASE Watch \/ Connect \/ EndOfStream \/ StreamBreaks
    BY <2>1, <2>4, <2>5, <2>6 DEF Watch, Connect, EndOfStream, StreamBreaks, ClientStages, ClientEnds
  <2>7. CASE Read
    <3>1. \A e, f : /\ [client EXCEPT !.lastEventId = e, !.stage = f].stage = f
                    /\ [client EXCEPT !.lastEventId = e].stage = client.stage
      BY <2>1 DEF Client
    <3>2. \/ \E e : client' = [client EXCEPT !.lastEventId = e, !.stage = "stopped"]
          \/ \E e : client' = [client EXCEPT !.lastEventId = e, !.stage = "snapshot"]
          \/ \E e : client' = [client EXCEPT !.lastEventId = e]
      BY <2>7, WhatIsRead
    <3>3. client.stage = "reading"
      BY <2>7 DEF Read
    <3> QED BY <3>1, <3>2, <3>3
  <2>8. CASE NetworkFails
    <3>1. \A e \in Nat : [client EXCEPT !.lastEventId = e] \in Client
      BY <2>1 DEF Client
    <3>2. wire # <<>> => Head(wire) \in Event
      BY <2>1
    <3>3. wire # <<>> => ~Reconnect([client EXCEPT !.lastEventId = Head(wire).sequence])
      BY <2>5, <3>1, <3>2 DEF Event
    <3> QED BY <2>1, <2>4, <2>5, <2>8, <3>3 DEF NetworkFails, ClientStages, ClientEnds
  <2>9. CASE Snapshot
    <3>1. Return /\ status \in Terminal
      BY <2>1, <2>2, <2>4, <2>5, <2>9 DEF Snapshot, NewsIsTrue, ClientStages, ClientEnds
    <3> QED BY <2>1, <3>1 DEF Return, Client
  <2> QED
    BY <2>3, <2>6, <2>7, <2>8, <2>9
       DEF Next, Writer, Publish, Finish, Recheck, Delete, Server, ReadSession, ReadEvents, Browser, vars
<1> QED BY <1>1, <1>2, NewsStart, NewsStep, EventsTypeCorrect, PTL DEF Spec

-----------------------------------------------------------------------------
(* The end of a stream.                                                     *)

\* A review that is over has the event of its end in the log, and so has one that
\* the server saw to be over, as long as it is not deleted.
EndIsLogged ==
    /\ status \in Terminal => Ends # {}
    /\ status # "deleted" /\ link.stage = "events" /\ link.saw \in Terminal => Ends # {}

\* A stream that the server closes has brought the last event of every run.
THEOREM StreamsEndWithTheNews == Spec => StreamEndsAfterLastEvent
<1>1. Init => EndIsLogged
  BY DEF Init, EndIsLogged, NoLink, Terminal
<1>2. TypeOK /\ EndIsLogged /\ [Next]_vars => EndIsLogged'
  <2> SUFFICES ASSUME TypeOK, EndIsLogged, [Next]_vars PROVE EndIsLogged'
    OBVIOUS
  <2>1. log \in Seq(Kinds) /\ link \in Link
    BY DEF TypeOK
  <2>2. CASE Publish
    <3>1. \A i \in Ends : i \in Ends'
      BY <2>1, <2>2 DEF Publish, Ends
    <3> QED BY <2>2, <3>1 DEF Publish, EndIsLogged
  <2>3. CASE Finish
    <3>1. Len(log') = Len(log) + 1 /\ log'[Len(log) + 1] # "progress" /\ Len(log) + 1 \in DOMAIN log'
      BY <2>1, <2>3 DEF Finish, EndEvent, Terminal
    <3> QED BY <3>1 DEF EndIsLogged, Ends
  <2>4. CASE Recheck
    BY <2>4 DEF Recheck, EndIsLogged, Ends, Terminal
  <2>5. CASE Delete
    BY <2>5 DEF Delete, EndIsLogged, Terminal
  <2>6. CASE ReadSession
    BY <2>1, <2>6 DEF ReadSession, EndIsLogged, Ends, writerVars, Link
  <2>7. CASE ReadEvents
    <3>1. link'.stage # "events"
      BY <2>1, <2>7, WhatIsPolled DEF Link
    <3> QED BY <2>7, <3>1 DEF ReadEvents, EndIsLogged, Ends, writerVars
  <2>8. ASSUME UNCHANGED <<status, log>>, link' = link \/ link'.stage # "events" PROVE EndIsLogged'
    BY <2>8 DEF EndIsLogged, Ends
  <2>9. CASE Read
    <3>1. Disconnect \/ link' = link
      BY <2>9, WhatIsRead
    <3> QED BY <2>8, <2>9, <3>1 DEF Read, Disconnect, NoLink, writerVars
  <2>10. CASE Watch \/ Snapshot \/ UNCHANGED vars
    BY <2>8, <2>10 DEF Watch, Snapshot, vars, writerVars
  <2>11. CASE EndOfStream \/ StreamBreaks \/ NetworkFails
    BY <2>8, <2>11 DEF EndOfStream, StreamBreaks, NetworkFails, Disconnect, NoLink, writerVars
  <2>12. CASE Connect
    <3>1. link' = link \/ link' = [NoLink EXCEPT !.stage = "session", !.sequence = client.lastEventId]
      BY <2>12 DEF Connect
    <3>2. link' = link \/ link'.stage # "events"
      BY <3>1 DEF NoLink
    <3> QED BY <2>8, <2>12, <3>2 DEF Connect, writerVars
  <2> QED
    BY <2>2, <2>3, <2>4, <2>5, <2>6, <2>7, <2>9, <2>10, <2>11, <2>12 DEF Next, Writer, Server, Browser
<1>3. TypeOK /\ EndIsLogged /\ [Next]_vars
      => [link.stage # "closed" /\ link'.stage = "closed" /\ status # "deleted"
          => Ends # {} /\ \A i \in Ends : i <= link'.sequence]_vars
  <2> SUFFICES ASSUME TypeOK, EndIsLogged, [Next]_vars,
                      link.stage # "closed", link'.stage = "closed", status # "deleted"
               PROVE  Ends # {} /\ \A i \in Ends : i <= link'.sequence
    OBVIOUS
  <2>1. log \in Seq(Kinds) /\ link \in Link /\ link.sequence \in Nat
    BY DEF TypeOK, Link
  <2>2. CASE ReadEvents
    <3>1. link.saw \in Terminal /\ EventsAfter(link.sequence) = <<>>
          /\ link'.sequence = link.sequence + Len(EventsAfter(link.sequence))
      BY <2>1, <2>2, WhatIsPolled DEF Link
    <3>2. Len(log) <= link.sequence /\ link'.sequence = link.sequence
      <4>1. Len(EventsAfter(link.sequence)) = 0
        BY <3>1
      <4>2. Len(EventsAfter(link.sequence)) = IF link.sequence <= Len(log) THEN Len(log) - link.sequence ELSE 0
        BY <2>1, WhatFollows
      <4>3. Len(log) \in Int /\ link.sequence \in Int
        BY <2>1
      <4> QED BY <3>1, <4>1, <4>2, <4>3
    <3> QED BY <2>1, <2>2, <3>1, <3>2 DEF ReadEvents, EndIsLogged, Ends
  <2>3. CASE Read
    <3>1. Disconnect \/ link' = link
      BY <2>3, WhatIsRead
    <3> QED BY <3>1 DEF Disconnect, NoLink
  <2>4. CASE ReadSession
    BY <2>1, <2>4 DEF ReadSession, Link
  <2>5. CASE Connect
    <3>1. link' = link \/ link' = [NoLink EXCEPT !.stage = "session", !.sequence = client.lastEventId]
      BY <2>5 DEF Connect
    <3> QED BY <3>1 DEF NoLink
  <2>6. CASE EndOfStream \/ StreamBreaks \/ NetworkFails
    BY <2>6 DEF EndOfStream, StreamBreaks, NetworkFails, Disconnect, NoLink
  <2>7. CASE Writer \/ Watch \/ Snapshot \/ UNCHANGED vars
    BY <2>7 DEF Writer, Publish, Finish, Recheck, Delete, Watch, Snapshot, vars
  <2> QED
    BY <2>2, <2>3, <2>4, <2>5, <2>6, <2>7 DEF Next, Server, Browser
<1> QED BY <1>1, <1>2, <1>3, EventsTypeCorrect, PTL DEF Spec, StreamEndsAfterLastEvent

==================================================================================
