-------------------------- MODULE AckDeliveryProofs --------------------------
(***************************************************************************)
(* Theorems about AckDelivery for any number of events and connections:    *)
(* no acknowledgement is lost or repeated, the engine is paced by the      *)
(* strategy, and no connection gets two terminals.                         *)
(***************************************************************************)
EXTENDS AckDelivery, FiniteSetTheorems, TLAPS

\* The types a proof needs, without the bound on the channels.
Types ==
  /\ read \in 0 .. Count /\ taken \in 0 .. read
  /\ writerUp \in BOOLEAN /\ relayed \in BOOLEAN
  /\ pending \subseteq Events /\ sent \subseteq pending /\ acked \subseteq pending \ sent
  /\ confirmed \subseteq Events
  /\ task \in [pc : {"recv", "send", "done"}, todo : SUBSET Conns, any : BOOLEAN]
  /\ task.pc = "send" => 1 <= taken
  /\ queue \in [Conns -> SUBSET (1 .. Count + 1)]
  /\ seen \in [Conns -> SUBSET (1 .. Count + 1)]
  /\ forwarded \in [Events -> Nat]

\* The event in hand has reached a connection and is about to be marked sent.
MarkDue(e) == e = taken /\ task.pc = "send" /\ task.any = TRUE

\* The counts: released once, or still pending, or not read yet.
Counted ==
  \A e \in Events :
    forwarded[e] = IF e \in pending \/ read < e THEN 0 ELSE 1

\* Nothing is pending that was not read.
PendingRead == \A e \in pending : e <= read

\* An acknowledgement that came first is remembered until mark_sent.
AckedEarly ==
  /\ acked \subseteq confirmed
  /\ confirmed \cap pending \subseteq acked
  /\ \A e \in confirmed : e <= read

\* What a strategy has or will get has been taken from the stream, and is
\* marked sent unless that is due.
Handed ==
  \A c \in Conns : \A e \in (queue[c] \cup seen[c]) \cap Events :
    e <= taken /\ (e \in pending => e \in sent \/ MarkDue(e))

\* The made-up terminal is sent only when the stream has ended without one.
Ended ==
  /\ \A e \in Terminals : e <= taken => relayed = TRUE
  /\ \A c \in Conns : Fallback \in queue[c] \cup seen[c] => task.pc = "done" /\ relayed = FALSE

IInv == Types /\ Counted /\ PendingRead /\ AckedEarly /\ Handed /\ Ended
-----------------------------------------------------------------------------

\* The initial state satisfies the invariant.
LEMMA InvInit == Init => IInv
<1> SUFFICES ASSUME Init PROVE IInv
  OBVIOUS
<1> USE CountAssumption, EventAssumption DEF Init, Events
<1>1. Types
  <2>1. task \in [pc : {"recv", "send", "done"}, todo : SUBSET Conns, any : BOOLEAN] /\ task.pc = "recv"
    BY DEF NoTask
  <2>2. queue \in [Conns -> SUBSET (1 .. Count + 1)] /\ seen \in [Conns -> SUBSET (1 .. Count + 1)]
    OBVIOUS
  <2>3. forwarded \in [Events -> Nat]
    OBVIOUS
  <2>4. read \in 0 .. Count /\ taken \in 0 .. read
    OBVIOUS
  <2>6. writerUp \in BOOLEAN /\ relayed \in BOOLEAN
    BY ZenonT(60)
  <2>5. pending \subseteq Events /\ sent \subseteq pending /\ acked \subseteq pending \ sent /\ confirmed \subseteq Events
    OBVIOUS
  <2> HIDE DEF Init, Events
  <2> QED
    BY <2>1, <2>2, <2>3, <2>4, <2>5, <2>6 DEF Types
<1>2. Counted /\ PendingRead /\ AckedEarly
  BY DEF Counted, PendingRead, AckedEarly
<1>3. Handed /\ Ended
  BY DEF Handed, Ended
<1> QED
  BY <1>1, <1>2, <1>3 DEF IInv


\* The types are kept by every step.
LEMMA TypesNext == IInv /\ [Next]_vars => Types'
<1> SUFFICES ASSUME IInv, [Next]_vars PROVE Types'
  OBVIOUS
<1> USE CountAssumption, EventAssumption DEF IInv
<1>1. CASE ReadEvent
  <2>1. read + 1 \in Events /\ read' \in 0 .. Count /\ taken' \in 0 .. read'
    BY <1>1 DEF ReadEvent, Types, Events, registry
  <2>2. CASE read + 1 \in Silent
    BY <1>1, <2>1, <2>2 DEF ReadEvent, Forward, Types, registry, clients
  <2>3. CASE read + 1 \notin Silent
    BY <1>1, <2>1, <2>3 DEF ReadEvent, Types, registry, clients
  <2> QED
    BY <2>2, <2>3
<1>2. CASE WriterFail
  BY <1>2, ZenonT(60) DEF WriterFail, Types, Events, Fallback, vars, engine, bridge, registry, clients
<1>3. CASE EngineClose
  BY <1>3, ZenonT(60) DEF EngineClose, Types, Events, Fallback, vars, engine, bridge, registry, clients
<1>4. ASSUME NEW e \in Events, WriterSend(e) PROVE Types'
  BY <1>4 DEF WriterSend, Types, Events, Fallback, vars, engine, bridge, registry, clients
<1>5. CASE TakeEvent
  BY <1>5 DEF TakeEvent, Oldest, Stream, Types, Events, Fallback, vars, engine, bridge, registry, clients
<1>6. CASE MarkSent
  <2>1. task' \in [pc : {"recv", "send", "done"}, todo : SUBSET Conns, any : BOOLEAN] /\ task'.pc # "send"
    BY <1>6 DEF MarkSent, NoTask
  <2>2. CASE task.any = TRUE
    <3>1. pending' \subseteq Events /\ sent' \subseteq pending' /\ acked' \subseteq pending' \ sent'
      BY <1>6, <2>2 DEF MarkSent, BridgeMarkSent, Types
    <3>2. forwarded' \in [Events -> Nat]
      BY <1>6, <2>2 DEF MarkSent, BridgeMarkSent, Forward, Types
    <3> QED
      BY <1>6, <2>1, <3>1, <3>2 DEF MarkSent, Types, engine, clients
  <2>3. CASE task.any = FALSE
    BY <1>6, <2>1, <2>3 DEF MarkSent, Types, engine, clients, bridge
  <2> QED
    BY <2>2, <2>3, ZenonT(60) DEF Types
<1>7. CASE StreamClosed
  <2>1. task' \in [pc : {"recv", "send", "done"}, todo : SUBSET Conns, any : BOOLEAN] /\ task'.pc # "send"
    BY <1>7, ZenonT(60) DEF StreamClosed, NoTask
  <2>2. Fallback \in 1 .. Count + 1
    BY DEF Fallback
  <2>3. queue' \in [Conns -> SUBSET (1 .. Count + 1)]
    BY <1>7, <2>2 DEF StreamClosed, Types
  <2> QED
    BY <1>7, <2>1, <2>3 DEF StreamClosed, Types, engine, bridge
<1>8. ASSUME NEW c \in Conns, SendTo(c) PROVE Types'
  <2>1. task.any \in BOOLEAN /\ (task.any \/ (status[c] = "registered" /\ Room(c))) \in BOOLEAN
    BY DEF Types
  <2>2. task' \in [pc : {"recv", "send", "done"}, todo : SUBSET Conns, any : BOOLEAN]
    BY <1>8, <2>1, ZenonT(60) DEF SendTo, Types
  <2>3. taken' = taken /\ 1 <= taken /\ taken \in 1 .. Count + 1
    BY <1>8 DEF SendTo, Types
  <2>4. queue' \in [Conns -> SUBSET (1 .. Count + 1)]
    BY <1>8, <2>3 DEF SendTo, Types
  <2> QED
    BY <1>8, <2>2, <2>3, <2>4 DEF SendTo, Types, engine, bridge
<1>9. ASSUME NEW c \in Conns, AddConnection(c) PROVE Types'
  BY <1>9 DEF AddConnection, SetStatus, Types, Events, Fallback, vars, engine, bridge, registry, clients
<1>10. ASSUME NEW c \in Conns, RegisterStrategy(c) PROVE Types'
  BY <1>10 DEF RegisterStrategy, SetStatus, Types, Events, Fallback, vars, engine, bridge, registry, clients
<1>11. ASSUME NEW c \in Conns, SendTaskFails(c) PROVE Types'
  BY <1>11 DEF SendTaskFails, SetStatus, Types, Events, Fallback, vars, engine, bridge, registry, clients
<1>12. ASSUME NEW c \in Conns, Disconnect(c) PROVE Types'
  BY <1>12 DEF Disconnect, SetStatus, Types, Events, Fallback, vars, engine, bridge, registry, clients
<1>13. ASSUME NEW c \in Conns, Receive(c) PROVE Types'
  BY <1>13 DEF Receive, Oldest, Types, Events, Fallback, vars, engine, bridge, registry, clients
<1>14. ASSUME NEW c \in Conns, StrategyAck(c) PROVE Types'
  <2>1. PICK known \in SUBSET pending, others \in {{}, (1 .. Fallback) \ pending} :
          HandleStrategyAck(known \cup others) /\ confirmed' = confirmed \cup known
    BY <1>14 DEF StrategyAck
  <2>2. pending' \subseteq Events /\ sent' \subseteq pending' /\ acked' \subseteq pending' \ sent'
    BY <2>1 DEF HandleStrategyAck, Types
  <2>3. forwarded' \in [Events -> Nat]
    BY <2>1 DEF HandleStrategyAck, Forward, Types
  <2>4. confirmed' \subseteq Events
    BY <2>1, ZenonT(60) DEF Types
  <2> QED
    BY <1>14, <2>2, <2>3, <2>4 DEF StrategyAck, Types, engine, registry
<1>15. CASE UNCHANGED vars
  BY <1>15, SMTT(30) DEF Types, Events, Fallback, vars, engine, bridge, registry, clients
<1> QED
  BY <1>1, <1>2, <1>3, <1>4, <1>5, <1>6, <1>7, <1>8, <1>9, <1>10, <1>11, <1>12, <1>13, <1>14, <1>15 DEF Next, TaskStep, ConnStep

\* The counts: a release takes the event out of the queue in the same step.
LEMMA CountedNext == IInv /\ [Next]_vars => Counted'
<1> SUFFICES ASSUME IInv, [Next]_vars PROVE Counted'
  OBVIOUS
<1> USE CountAssumption, EventAssumption DEF IInv
<1>1. CASE ReadEvent
  BY <1>1 DEF ReadEvent, Forward, Counted, PendingRead, Types, Events, vars, engine, bridge, registry, clients
<1>2. CASE WriterFail
  BY <1>2 DEF WriterFail, Counted, PendingRead, Types, Events, vars, engine, bridge, registry, clients
<1>3. CASE EngineClose
  BY <1>3 DEF EngineClose, Counted, PendingRead, Types, Events, vars, engine, bridge, registry, clients
<1>4. ASSUME NEW e \in Events, WriterSend(e) PROVE Counted'
  BY <1>4 DEF WriterSend, Counted, PendingRead, Types, Events, vars, engine, bridge, registry, clients
<1>5. CASE TakeEvent
  BY <1>5 DEF TakeEvent, Oldest, Stream, Counted, PendingRead, Types, Events, vars, engine, bridge, registry, clients
<1>6. CASE MarkSent
  BY <1>6 DEF MarkSent, BridgeMarkSent, Forward, NoTask, Counted, PendingRead, Types, Events, vars, engine, bridge, registry, clients
<1>7. CASE StreamClosed
  BY <1>7 DEF StreamClosed, NoTask, Counted, PendingRead, Types, Events, vars, engine, bridge, registry, clients
<1>8. ASSUME NEW c \in Conns, SendTo(c) PROVE Counted'
  BY <1>8 DEF SendTo, Counted, PendingRead, Types, Events, vars, engine, bridge, registry, clients
<1>9. ASSUME NEW c \in Conns, AddConnection(c) PROVE Counted'
  BY <1>9 DEF AddConnection, SetStatus, Counted, PendingRead, Types, Events, vars, engine, bridge, registry, clients
<1>10. ASSUME NEW c \in Conns, RegisterStrategy(c) PROVE Counted'
  BY <1>10 DEF RegisterStrategy, SetStatus, Counted, PendingRead, Types, Events, vars, engine, bridge, registry, clients
<1>11. ASSUME NEW c \in Conns, SendTaskFails(c) PROVE Counted'
  BY <1>11 DEF SendTaskFails, SetStatus, Counted, PendingRead, Types, Events, vars, engine, bridge, registry, clients
<1>12. ASSUME NEW c \in Conns, Disconnect(c) PROVE Counted'
  BY <1>12 DEF Disconnect, SetStatus, Counted, PendingRead, Types, Events, vars, engine, bridge, registry, clients
<1>13. ASSUME NEW c \in Conns, Receive(c) PROVE Counted'
  BY <1>13 DEF Receive, Oldest, Counted, PendingRead, Types, Events, vars, engine, bridge, registry, clients
<1>14. ASSUME NEW c \in Conns, StrategyAck(c) PROVE Counted'
  BY <1>14 DEF StrategyAck, HandleStrategyAck, Forward, Counted, PendingRead, Types, Events, vars, engine, bridge, registry, clients
<1>15. CASE UNCHANGED vars
  BY <1>15 DEF Counted, PendingRead, Types, Events, vars, engine, bridge, registry, clients
<1> QED
  BY <1>1, <1>2, <1>3, <1>4, <1>5, <1>6, <1>7, <1>8, <1>9, <1>10, <1>11, <1>12, <1>13, <1>14, <1>15 DEF Next, TaskStep, ConnStep

\* Only an event that has just been read becomes pending.
LEMMA PendingReadNext == IInv /\ [Next]_vars => PendingRead'
<1> SUFFICES ASSUME IInv, [Next]_vars PROVE PendingRead'
  OBVIOUS
<1> USE CountAssumption, EventAssumption DEF IInv
<1>1. CASE ReadEvent
  <2>1. read' = read + 1 /\ pending' \subseteq pending \cup {read + 1}
    BY <1>1 DEF ReadEvent
  <2> QED
    BY <2>1 DEF PendingRead, Types, Events
<1>2. CASE WriterFail
  BY <1>2 DEF WriterFail, PendingRead, Types, Events, vars, engine, bridge, registry, clients
<1>3. CASE EngineClose
  BY <1>3 DEF EngineClose, PendingRead, Types, Events, vars, engine, bridge, registry, clients
<1>4. ASSUME NEW e \in Events, WriterSend(e) PROVE PendingRead'
  BY <1>4 DEF WriterSend, PendingRead, Types, Events, vars, engine, bridge, registry, clients
<1>5. CASE TakeEvent
  BY <1>5 DEF TakeEvent, Oldest, Stream, PendingRead, Types, Events, vars, engine, bridge, registry, clients
<1>6. CASE MarkSent
  BY <1>6, ZenonT(60) DEF MarkSent, BridgeMarkSent, Forward, NoTask, PendingRead, Types, Events, vars, engine, bridge, registry, clients
<1>7. CASE StreamClosed
  BY <1>7 DEF StreamClosed, NoTask, PendingRead, Types, Events, vars, engine, bridge, registry, clients
<1>8. ASSUME NEW c \in Conns, SendTo(c) PROVE PendingRead'
  BY <1>8 DEF SendTo, PendingRead, Types, Events, vars, engine, bridge, registry, clients
<1>9. ASSUME NEW c \in Conns, AddConnection(c) PROVE PendingRead'
  BY <1>9 DEF AddConnection, SetStatus, PendingRead, Types, Events, vars, engine, bridge, registry, clients
<1>10. ASSUME NEW c \in Conns, RegisterStrategy(c) PROVE PendingRead'
  BY <1>10 DEF RegisterStrategy, SetStatus, PendingRead, Types, Events, vars, engine, bridge, registry, clients
<1>11. ASSUME NEW c \in Conns, SendTaskFails(c) PROVE PendingRead'
  BY <1>11 DEF SendTaskFails, SetStatus, PendingRead, Types, Events, vars, engine, bridge, registry, clients
<1>12. ASSUME NEW c \in Conns, Disconnect(c) PROVE PendingRead'
  BY <1>12 DEF Disconnect, SetStatus, PendingRead, Types, Events, vars, engine, bridge, registry, clients
<1>13. ASSUME NEW c \in Conns, Receive(c) PROVE PendingRead'
  BY <1>13 DEF Receive, Oldest, PendingRead, Types, Events, vars, engine, bridge, registry, clients
<1>14. ASSUME NEW c \in Conns, StrategyAck(c) PROVE PendingRead'
  BY <1>14, ZenonT(60) DEF StrategyAck, HandleStrategyAck, Forward, PendingRead, Types, Events, vars, engine, bridge, registry, clients
<1>15. CASE UNCHANGED vars
  BY <1>15 DEF PendingRead, Types, Events, vars, engine, bridge, registry, clients
<1> QED
  BY <1>1, <1>2, <1>3, <1>4, <1>5, <1>6, <1>7, <1>8, <1>9, <1>10, <1>11, <1>12, <1>13, <1>14, <1>15 DEF Next, TaskStep, ConnStep

\* An early acknowledgement is remembered until mark_sent releases it.
LEMMA AckedEarlyNext == IInv /\ [Next]_vars => AckedEarly'
<1> SUFFICES ASSUME IInv, [Next]_vars PROVE AckedEarly'
  OBVIOUS
<1> USE CountAssumption, EventAssumption DEF IInv
<1>1. CASE ReadEvent
  <2>1. acked' = acked /\ confirmed' = confirmed /\ read' = read + 1
    BY <1>1 DEF ReadEvent, registry, clients
  <2>2. pending' \subseteq pending \cup {read + 1}
    BY <1>1 DEF ReadEvent
  <2>3. read + 1 \notin confirmed
    BY DEF AckedEarly, Types
  <2>4. \A e \in confirmed : e <= read + 1
    BY DEF AckedEarly, Types, Events
  <2> QED
    BY <2>1, <2>2, <2>3, <2>4 DEF AckedEarly
<1>2. CASE WriterFail
  BY <1>2 DEF WriterFail, AckedEarly, Types, Events, vars, engine, bridge, registry, clients
<1>3. CASE EngineClose
  BY <1>3 DEF EngineClose, AckedEarly, Types, Events, vars, engine, bridge, registry, clients
<1>4. ASSUME NEW e \in Events, WriterSend(e) PROVE AckedEarly'
  BY <1>4 DEF WriterSend, AckedEarly, Types, Events, vars, engine, bridge, registry, clients
<1>5. CASE TakeEvent
  BY <1>5 DEF TakeEvent, Oldest, Stream, AckedEarly, Types, Events, vars, engine, bridge, registry, clients
<1>6. CASE MarkSent
  BY <1>6, ZenonT(60) DEF MarkSent, BridgeMarkSent, Forward, NoTask, AckedEarly, Types, Events, vars, engine, bridge, registry, clients
<1>7. CASE StreamClosed
  BY <1>7 DEF StreamClosed, NoTask, AckedEarly, Types, Events, vars, engine, bridge, registry, clients
<1>8. ASSUME NEW c \in Conns, SendTo(c) PROVE AckedEarly'
  BY <1>8 DEF SendTo, AckedEarly, Types, Events, vars, engine, bridge, registry, clients
<1>9. ASSUME NEW c \in Conns, AddConnection(c) PROVE AckedEarly'
  BY <1>9 DEF AddConnection, SetStatus, AckedEarly, Types, Events, vars, engine, bridge, registry, clients
<1>10. ASSUME NEW c \in Conns, RegisterStrategy(c) PROVE AckedEarly'
  BY <1>10 DEF RegisterStrategy, SetStatus, AckedEarly, Types, Events, vars, engine, bridge, registry, clients
<1>11. ASSUME NEW c \in Conns, SendTaskFails(c) PROVE AckedEarly'
  BY <1>11 DEF SendTaskFails, SetStatus, AckedEarly, Types, Events, vars, engine, bridge, registry, clients
<1>12. ASSUME NEW c \in Conns, Disconnect(c) PROVE AckedEarly'
  BY <1>12 DEF Disconnect, SetStatus, AckedEarly, Types, Events, vars, engine, bridge, registry, clients
<1>13. ASSUME NEW c \in Conns, Receive(c) PROVE AckedEarly'
  BY <1>13 DEF Receive, Oldest, AckedEarly, Types, Events, vars, engine, bridge, registry, clients
<1>14. ASSUME NEW c \in Conns, StrategyAck(c) PROVE AckedEarly'
  <2>1. PICK known \in SUBSET pending, others \in {{}, (1 .. Fallback) \ pending} :
          HandleStrategyAck(known \cup others) /\ confirmed' = confirmed \cup known
    BY <1>14 DEF StrategyAck
  <2>2. (known \cup others) \cap pending = known
    BY <2>1
  <2>3. acked' = acked \cup (known \ sent) /\ pending' = pending \ (known \cap sent) /\ read' = read
    BY <1>14, <2>1, <2>2 DEF StrategyAck, HandleStrategyAck, engine
  <2>4. acked' \subseteq confirmed' /\ confirmed' \cap pending' \subseteq acked'
    BY <2>1, <2>3 DEF AckedEarly
  <2>5. \A e \in confirmed' : e <= read'
    BY <2>1, <2>3 DEF AckedEarly, PendingRead
  <2> QED
    BY <2>4, <2>5 DEF AckedEarly
<1>15. CASE UNCHANGED vars
  BY <1>15 DEF AckedEarly, Types, Events, vars, engine, bridge, registry, clients
<1> QED
  BY <1>1, <1>2, <1>3, <1>4, <1>5, <1>6, <1>7, <1>8, <1>9, <1>10, <1>11, <1>12, <1>13, <1>14, <1>15 DEF Next, TaskStep, ConnStep

\* An event is handed to a connection before it is marked sent, and the task
\* marks it before it takes the next.
LEMMA HandedNext == IInv /\ [Next]_vars => Handed'
<1> SUFFICES ASSUME IInv, [Next]_vars PROVE Handed'
  OBVIOUS
<1> USE CountAssumption, EventAssumption DEF IInv
<1>1. CASE ReadEvent
  BY <1>1 DEF ReadEvent, Forward, Handed, MarkDue, AckedEarly, PendingRead, Types, Events, Fallback, vars, engine, bridge, registry, clients
<1>2. CASE WriterFail
  BY <1>2 DEF WriterFail, Handed, MarkDue, AckedEarly, PendingRead, Types, Events, Fallback, vars, engine, bridge, registry, clients
<1>3. CASE EngineClose
  BY <1>3 DEF EngineClose, Handed, MarkDue, AckedEarly, PendingRead, Types, Events, Fallback, vars, engine, bridge, registry, clients
<1>4. ASSUME NEW e \in Events, WriterSend(e) PROVE Handed'
  BY <1>4 DEF WriterSend, Handed, MarkDue, AckedEarly, PendingRead, Types, Events, Fallback, vars, engine, bridge, registry, clients
<1>5. CASE TakeEvent
  BY <1>5 DEF TakeEvent, Oldest, Stream, Handed, MarkDue, AckedEarly, PendingRead, Types, Events, Fallback, vars, engine, bridge, registry, clients
<1>6. CASE MarkSent
  BY <1>6 DEF MarkSent, BridgeMarkSent, Forward, NoTask, Handed, MarkDue, AckedEarly, PendingRead, Types, Events, Fallback, vars, engine, bridge, registry, clients
<1>7. CASE StreamClosed
  BY <1>7 DEF StreamClosed, NoTask, Handed, MarkDue, AckedEarly, PendingRead, Types, Events, Fallback, vars, engine, bridge, registry, clients
<1>8. ASSUME NEW c \in Conns, SendTo(c) PROVE Handed'
  <2>1. task'.any \in BOOLEAN /\ (task.any => task'.any) /\ task'.pc = "send"
    BY <1>8 DEF SendTo, Types
  <2>2. SUFFICES ASSUME NEW k \in Conns, NEW e \in (queue'[k] \cup seen'[k]) \cap Events
                 PROVE  e <= taken' /\ (e \in pending' => e \in sent' \/ MarkDue(e)')
    BY DEF Handed, Events
  <2>3. CASE e \in queue[k] \cup seen[k]
    <3>1. e <= taken /\ (e \in pending => e \in sent \/ MarkDue(e))
      BY <2>3 DEF Handed
    <3>2. MarkDue(e) => MarkDue(e)'
      BY <1>8, <2>1 DEF MarkDue, SendTo, Types
    <3> QED
      BY <1>8, <3>1, <3>2 DEF SendTo, bridge
  <2>4. CASE e \notin queue[k] \cup seen[k]
    <3>1. e = taken /\ task'.any
      BY <1>8, <2>4, ZenonT(60) DEF SendTo, Types
    <3> QED
      BY <1>8, <2>1, <3>1 DEF SendTo, MarkDue, Types
  <2> QED
    BY <2>3, <2>4
<1>9. ASSUME NEW c \in Conns, AddConnection(c) PROVE Handed'
  BY <1>9 DEF AddConnection, SetStatus, Handed, MarkDue, AckedEarly, PendingRead, Types, Events, Fallback, vars, engine, bridge, registry, clients
<1>10. ASSUME NEW c \in Conns, RegisterStrategy(c) PROVE Handed'
  BY <1>10 DEF RegisterStrategy, SetStatus, Handed, MarkDue, AckedEarly, PendingRead, Types, Events, Fallback, vars, engine, bridge, registry, clients
<1>11. ASSUME NEW c \in Conns, SendTaskFails(c) PROVE Handed'
  BY <1>11 DEF SendTaskFails, SetStatus, Handed, MarkDue, AckedEarly, PendingRead, Types, Events, Fallback, vars, engine, bridge, registry, clients
<1>12. ASSUME NEW c \in Conns, Disconnect(c) PROVE Handed'
  BY <1>12 DEF Disconnect, SetStatus, Handed, MarkDue, AckedEarly, PendingRead, Types, Events, Fallback, vars, engine, bridge, registry, clients
<1>13. ASSUME NEW c \in Conns, Receive(c) PROVE Handed'
  BY <1>13 DEF Receive, Oldest, Handed, MarkDue, AckedEarly, PendingRead, Types, Events, Fallback, vars, engine, bridge, registry, clients
<1>14. ASSUME NEW c \in Conns, StrategyAck(c) PROVE Handed'
  BY <1>14 DEF StrategyAck, HandleStrategyAck, Forward, Handed, MarkDue, AckedEarly, PendingRead, Types, Events, Fallback, vars, engine, bridge, registry, clients
<1>15. CASE UNCHANGED vars
  BY <1>15 DEF Handed, MarkDue, AckedEarly, PendingRead, Types, Events, Fallback, vars, engine, bridge, registry, clients
<1> QED
  BY <1>1, <1>2, <1>3, <1>4, <1>5, <1>6, <1>7, <1>8, <1>9, <1>10, <1>11, <1>12, <1>13, <1>14, <1>15, SMTT(30) DEF Next, TaskStep, ConnStep

\* A relayed terminal suppresses the made-up one.
LEMMA EndedNext == IInv /\ [Next]_vars => Ended'
<1> SUFFICES ASSUME IInv, [Next]_vars PROVE Ended'
  OBVIOUS
<1> USE CountAssumption, EventAssumption DEF IInv
<1>1. CASE ReadEvent
  BY <1>1 DEF ReadEvent, Forward, Ended, Handed, Types, Events, Fallback, vars, engine, bridge, registry, clients
<1>2. CASE WriterFail
  BY <1>2 DEF WriterFail, Ended, Handed, Types, Events, Fallback, vars, engine, bridge, registry, clients
<1>3. CASE EngineClose
  BY <1>3 DEF EngineClose, Ended, Handed, Types, Events, Fallback, vars, engine, bridge, registry, clients
<1>4. ASSUME NEW e \in Events, WriterSend(e) PROVE Ended'
  BY <1>4 DEF WriterSend, Ended, Handed, Types, Events, Fallback, vars, engine, bridge, registry, clients
<1>5. CASE TakeEvent
  <2>1. \A e \in Terminals : e <= taken' => e <= taken \/ e = taken'
    BY <1>5 DEF TakeEvent, Oldest, Stream, Types, Events, engine
  <2>2. relayed' = (relayed \/ taken' \in Terminals) /\ queue' = queue /\ seen' = seen
    BY <1>5 DEF TakeEvent, clients
  <2>3. \A e \in Terminals : e <= taken' => relayed' = TRUE
    BY <2>1, <2>2, ZenonT(60) DEF Ended, Types
  <2>4. \A c \in Conns : Fallback \notin queue[c] \cup seen[c]
    BY <1>5 DEF TakeEvent, Ended
  <2> QED
    BY <2>2, <2>3, <2>4 DEF Ended
<1>6. CASE MarkSent
  BY <1>6 DEF MarkSent, BridgeMarkSent, Forward, NoTask, Ended, Handed, Types, Events, Fallback, vars, engine, bridge, registry, clients
<1>7. CASE StreamClosed
  BY <1>7 DEF StreamClosed, NoTask, Ended, Handed, Types, Events, Fallback, vars, engine, bridge, registry, clients
<1>8. ASSUME NEW c \in Conns, SendTo(c) PROVE Ended'
  BY <1>8 DEF SendTo, Ended, Handed, Types, Events, Fallback, vars, engine, bridge, registry, clients
<1>9. ASSUME NEW c \in Conns, AddConnection(c) PROVE Ended'
  BY <1>9 DEF AddConnection, SetStatus, Ended, Handed, Types, Events, Fallback, vars, engine, bridge, registry, clients
<1>10. ASSUME NEW c \in Conns, RegisterStrategy(c) PROVE Ended'
  BY <1>10 DEF RegisterStrategy, SetStatus, Ended, Handed, Types, Events, Fallback, vars, engine, bridge, registry, clients
<1>11. ASSUME NEW c \in Conns, SendTaskFails(c) PROVE Ended'
  BY <1>11 DEF SendTaskFails, SetStatus, Ended, Handed, Types, Events, Fallback, vars, engine, bridge, registry, clients
<1>12. ASSUME NEW c \in Conns, Disconnect(c) PROVE Ended'
  BY <1>12 DEF Disconnect, SetStatus, Ended, Handed, Types, Events, Fallback, vars, engine, bridge, registry, clients
<1>13. ASSUME NEW c \in Conns, Receive(c) PROVE Ended'
  BY <1>13 DEF Receive, Oldest, Ended, Handed, Types, Events, Fallback, vars, engine, bridge, registry, clients
<1>14. ASSUME NEW c \in Conns, StrategyAck(c) PROVE Ended'
  BY <1>14 DEF StrategyAck, HandleStrategyAck, Forward, Ended, Handed, Types, Events, Fallback, vars, engine, bridge, registry, clients
<1>15. CASE UNCHANGED vars
  BY <1>15 DEF Ended, Handed, Types, Events, Fallback, vars, engine, bridge, registry, clients
<1> QED
  BY <1>1, <1>2, <1>3, <1>4, <1>5, <1>6, <1>7, <1>8, <1>9, <1>10, <1>11, <1>12, <1>13, <1>14, <1>15, SMTT(30) DEF Next, TaskStep, ConnStep

-----------------------------------------------------------------------------

\* The invariant holds in every reachable state.
LEMMA Inductive == Spec => []IInv
<1>1. IInv /\ [Next]_vars => IInv'
  BY TypesNext, CountedNext, PendingReadNext, AckedEarlyNext, HandedNext, EndedNext DEF IInv
<1> QED
  BY InvInit, <1>1, PTL DEF Spec

\* For any number of events and connections, the bridge neither loses an
\* acknowledgement nor forwards one twice (mark_sent, handle_strategy_ack).
THEOREM AcksAccounted == Spec => []NoAckLost
<1>1. IInv => NoAckLost
  <2> SUFFICES ASSUME IInv PROVE NoAckLost
    OBVIOUS
  <2>1. \A e \in 1 .. read : e \in Events /\ ~(read < e)
    BY CountAssumption DEF IInv, Types, Events
  <2>2. \A e \in 1 .. read : forwarded[e] = IF e \in pending THEN 0 ELSE 1
    BY <2>1 DEF IInv, Counted
  <2>3. \A e \in confirmed \cap pending : e \in Events /\ e \in acked \ sent
    BY DEF IInv, AckedEarly, Types
  <2>4. \A e \in confirmed \cap pending : Delivered(e) => MarkDue(e)
    BY <2>3 DEF IInv, Handed, Delivered
  <2>5. \A e : MarkDue(e) => e = taken /\ task.pc = "send" /\ task.any
    BY DEF MarkDue
  <2> QED
    BY <2>2, <2>3, <2>4, <2>5 DEF NoAckLost
<1> QED
  BY Inductive, <1>1, PTL

\* For any number of events and connections, a connection is sent at most one
\* end-of-backtest terminal (backtest_terminal_relayed).
THEOREM OneTerminal == Spec => []TerminalOnce
<1>1. IInv => TerminalOnce
  <2> SUFFICES ASSUME IInv, NEW c \in Conns,
                      NEW d \in (queue[c] \cup seen[c]) \cap (Terminals \cup {Fallback}),
                      NEW e \in (queue[c] \cup seen[c]) \cap (Terminals \cup {Fallback})
               PROVE  d = e
    BY DEF TerminalOnce
  <2>1. \A k \in (queue[c] \cup seen[c]) \cap Terminals : relayed = TRUE
    BY EventAssumption DEF IInv, Handed, Ended
  <2>2. Fallback \in queue[c] \cup seen[c] => relayed = FALSE
    BY DEF IInv, Ended
  <2> QED
    BY <2>1, <2>2, EventAssumption
<1> QED
  BY Inductive, <1>1, PTL

\* The channels and the variables Types leaves out.
Bounded ==
  /\ closed \in BOOLEAN /\ toEngine \subseteq Events /\ atEngine \subseteq Events
  /\ status \in [Conns -> {"none", "added", "registered", "broken", "gone"}]
  /\ dropped \subseteq Conns
  /\ \A c \in Conns : IsFiniteSet(queue[c]) /\ Cardinality(queue[c]) <= Capacity

\* Adding a message where there is room, and removing any, keeps the bound.
LEMMA ChannelStep ==
  ASSUME NEW S, NEW m, IsFiniteSet(S), Cardinality(S) <= Capacity
  PROVE  /\ IsFiniteSet(S \ {m}) /\ Cardinality(S \ {m}) <= Capacity
         /\ Cardinality(S) < Capacity =>
              IsFiniteSet(S \cup {m}) /\ Cardinality(S \cup {m}) <= Capacity
         /\ IsFiniteSet({}) /\ Cardinality({}) <= Capacity
<1>1. Cardinality(S) \in Nat /\ Capacity \in Nat
  BY FS_CardinalityType, CountAssumption
<1>2. IsFiniteSet(S \cup {m}) /\ Cardinality(S \cup {m}) <= Cardinality(S) + 1 /\ Cardinality(S \cup {m}) \in Nat
  <2>1. IsFiniteSet(S \cup {m})
    BY FS_AddElement
  <2>2. m \in S => Cardinality(S \cup {m}) = Cardinality(S)
    BY FS_AddElement
  <2>3. m \notin S => Cardinality(S \cup {m}) = Cardinality(S) + 1
    BY FS_AddElement
  <2>4. Cardinality(S \cup {m}) \in Nat
    BY <2>1, FS_CardinalityType
  <2>5. CASE m \in S
    BY <1>1, <2>1, <2>2, <2>5
  <2>6. CASE m \notin S
    BY <1>1, <2>1, <2>3, <2>4, <2>6
  <2> QED
    BY <2>5, <2>6
<1>3. IsFiniteSet(S \ {m}) /\ Cardinality(S \ {m}) <= Cardinality(S) /\ Cardinality(S \ {m}) \in Nat
  BY <1>1, FS_RemoveElement, FS_CardinalityType
<1>4. IsFiniteSet({}) /\ Cardinality({}) = 0
  BY FS_EmptySet
<1> QED
  BY <1>1, <1>2, <1>3, <1>4

\* Every step keeps the channels within their capacity.
LEMMA BoundedNext == Types /\ Bounded /\ [Next]_vars => Bounded'
<1> SUFFICES ASSUME Types, Bounded, [Next]_vars PROVE Bounded'
  OBVIOUS
<1>1. CASE \/ ReadEvent \/ WriterFail \/ EngineClose \/ TakeEvent \/ MarkSent \/ UNCHANGED vars
           \/ \E e \in Events : WriterSend(e)
           \/ \E c \in Conns : StrategyAck(c) \/ AddConnection(c) \/ RegisterStrategy(c)
  <2>1. queue' = queue
    BY <1>1 DEF ReadEvent, WriterFail, EngineClose, TakeEvent, MarkSent, WriterSend, StrategyAck,
                AddConnection, RegisterStrategy, SetStatus, vars, clients
  <2>2. closed' \in BOOLEAN /\ dropped' \subseteq Conns /\ status' \in [Conns -> {"none", "added", "registered", "broken", "gone"}]
    BY <1>1, ZenonT(60) DEF Bounded, ReadEvent, WriterFail, EngineClose, TakeEvent, MarkSent, WriterSend, StrategyAck,
                AddConnection, RegisterStrategy, SetStatus, vars, clients, engine
  <2>3. toEngine' \subseteq Events /\ atEngine' \subseteq Events
    <3>1. CASE ReadEvent
      BY <3>1, EventAssumption DEF Bounded, ReadEvent, Forward
    <3>2. CASE MarkSent
      BY <3>2, SMTT(30) DEF Bounded, MarkSent, BridgeMarkSent, Forward, Types, engine, bridge
    <3>3. ASSUME NEW c \in Conns, StrategyAck(c) PROVE toEngine' \subseteq Events /\ atEngine' \subseteq Events
      BY <3>3 DEF Bounded, StrategyAck, HandleStrategyAck, Forward, Types, engine
    <3>4. CASE \/ WriterFail \/ EngineClose \/ TakeEvent \/ UNCHANGED vars
               \/ \E e \in Events : WriterSend(e)
               \/ \E c \in Conns : AddConnection(c) \/ RegisterStrategy(c)
      BY <3>4 DEF Bounded, WriterFail, EngineClose, TakeEvent, WriterSend, AddConnection,
                  RegisterStrategy, SetStatus, vars, engine, bridge
    <3> QED
      BY <1>1, <3>1, <3>2, <3>3, <3>4
  <2> QED
    BY <2>1, <2>2, <2>3, SMTT(30) DEF Bounded
<1>2. CASE StreamClosed \/ \E c \in Conns : SendTo(c) \/ SendTaskFails(c) \/ Disconnect(c) \/ Receive(c)
  <2>1. /\ closed' = closed /\ toEngine' = toEngine /\ atEngine' = atEngine /\ dropped' \subseteq Conns
        /\ status' \in [Conns -> {"none", "added", "registered", "broken", "gone"}]
    BY <1>2, ZenonT(60) DEF Bounded, StreamClosed, SendTo, SendTaskFails, Disconnect, Receive, SetStatus, engine, bridge
  <2>2. ASSUME NEW k \in Conns
        PROVE  \/ queue'[k] = queue[k] \/ queue'[k] = {}
               \/ \E m \in queue[k] : queue'[k] = queue[k] \ {m}
               \/ \E m \in {taken, Fallback} : queue'[k] = queue[k] \cup {m} /\ Cardinality(queue[k]) < Capacity
    <3>1. CASE StreamClosed
      BY <3>1 DEF StreamClosed, Room
    <3>2. ASSUME NEW c \in Conns, SendTo(c) PROVE queue'[k] = queue[k] \/ (queue'[k] = queue[k] \cup {taken} /\ Cardinality(queue[k]) < Capacity)
      BY <3>2 DEF SendTo, Room, Types
    <3>3. ASSUME NEW c \in Conns, SendTaskFails(c) \/ Disconnect(c) PROVE queue'[k] = queue[k] \/ queue'[k] = {}
      BY <3>3 DEF SendTaskFails, Disconnect, Types
    <3>4. ASSUME NEW c \in Conns, Receive(c) PROVE queue'[k] = queue[k] \/ \E m \in queue[k] : queue'[k] = queue[k] \ {m}
      BY <3>4 DEF Receive, Oldest, Types
    <3> QED
      BY <1>2, <3>1, <3>2, <3>3, <3>4
  <2>3. ASSUME NEW k \in Conns PROVE IsFiniteSet(queue'[k]) /\ Cardinality(queue'[k]) <= Capacity
    <3>1. IsFiniteSet(queue[k]) /\ Cardinality(queue[k]) <= Capacity
      BY DEF Bounded
    <3>2. CASE queue'[k] = queue[k] \/ queue'[k] = {}
      BY <3>1, <3>2, ChannelStep, ZenonT(60)
    <3>3. ASSUME NEW m \in queue[k], queue'[k] = queue[k] \ {m}
          PROVE  IsFiniteSet(queue'[k]) /\ Cardinality(queue'[k]) <= Capacity
      BY <3>1, <3>3, ChannelStep
    <3>4. ASSUME NEW m \in {taken, Fallback}, queue'[k] = queue[k] \cup {m}, Cardinality(queue[k]) < Capacity
          PROVE  IsFiniteSet(queue'[k]) /\ Cardinality(queue'[k]) <= Capacity
      BY <3>1, <3>4, ChannelStep, ZenonT(60)
    <3> QED
      BY <2>2, <3>2, <3>3, <3>4
  <2> QED
    BY <2>1, <2>3 DEF Bounded
<1> QED
  BY <1>1, <1>2 DEF Next, TaskStep, ConnStep

\* For any number of events and connections, every variable has its type and
\* no outbound channel holds more than its capacity.
THEOREM AckTypeCorrect == Spec => []TypeOK
<1>1. Init => Bounded
  <2> SUFFICES ASSUME Init PROVE Bounded
    OBVIOUS
  <2>1. closed \in BOOLEAN /\ toEngine \subseteq Events /\ atEngine \subseteq Events /\ dropped \subseteq Conns
    BY ZenonT(60) DEF Init
  <2>2. status \in [Conns -> {"none", "added", "registered", "broken", "gone"}]
    BY DEF Init
  <2>3. \A c \in Conns : IsFiniteSet(queue[c]) /\ Cardinality(queue[c]) <= Capacity
    BY FS_EmptySet, CountAssumption DEF Init
  <2> QED
    BY <2>1, <2>2, <2>3 DEF Bounded
<1>2. IInv /\ Bounded /\ [Next]_vars => Bounded'
  BY BoundedNext DEF IInv
<1>3. IInv /\ Bounded => TypeOK
  BY DEF IInv, Types, Bounded, TypeOK
<1> QED
  BY Inductive, <1>1, <1>2, <1>3, PTL DEF Spec

\* For any number of events and connections, the gateway implements the pacing
\* the engine relies on: an event is released at most once, and only after a
\* strategy acknowledged it, or because it has no message for the strategy.
THEOREM Paced == Spec => EnginePaced
<1>1. Init => Pacing!Init
  BY DEF Init, Pacing!Init
<1>2. IInv /\ [Next]_vars => [Pacing!Next]_<<confirmed, forwarded>>
  <2> SUFFICES ASSUME IInv, [Next]_vars
               PROVE  [Pacing!Next]_<<confirmed, forwarded>>
    OBVIOUS
  <2>1. \A e \in pending : forwarded[e] = 0
    BY DEF IInv, Types, Counted
  <2>2. CASE ReadEvent
    <3>1. confirmed' = confirmed
      BY <2>2 DEF ReadEvent, clients
    <3>2. CASE read + 1 \in Silent
      <4>1. forwarded' = [e \in Events |-> IF e \in {read + 1} THEN forwarded[e] + 1 ELSE forwarded[e]]
        BY <2>2, <3>2 DEF ReadEvent, Forward
      <4>2. read + 1 \in Events /\ read < read + 1 /\ forwarded[read + 1] = 0
        BY <3>2, EventAssumption DEF IInv, Types, Counted
      <4>3. Pacing!Step({}, {read + 1})
        BY <3>1, <3>2, <4>1, <4>2 DEF Pacing!Step
      <4> QED
        BY <4>2, <4>3 DEF Pacing!Next
    <3>3. CASE read + 1 \notin Silent
      BY <2>2, <3>1, <3>3 DEF ReadEvent
    <3> QED
      BY <3>2, <3>3
  <2>3. CASE MarkSent
    <3>1. confirmed' = confirmed
      BY <2>3 DEF MarkSent, clients
    <3>2. CASE task.any
      <4> DEFINE now == {taken} \cap pending \cap acked
      <4>1. forwarded' = [e \in Events |-> IF e \in now THEN forwarded[e] + 1 ELSE forwarded[e]]
        BY <2>3, <3>2 DEF MarkSent, BridgeMarkSent, Forward
      <4>2. now \subseteq Events /\ now \subseteq confirmed /\ now \subseteq pending
        BY DEF IInv, Types, AckedEarly
      <4> HIDE DEF now
      <4>3. Pacing!Step({}, now)
        BY <2>1, <3>1, <4>1, <4>2 DEF Pacing!Step
      <4> QED
        BY <4>2, <4>3 DEF Pacing!Next
    <3>3. CASE ~task.any
      BY <2>3, <3>1, <3>3 DEF MarkSent, bridge
    <3> QED
      BY <3>2, <3>3
  <2>4. ASSUME NEW c \in Conns, StrategyAck(c) PROVE Pacing!Next
    <3>1. PICK known \in SUBSET pending, others \in {{}, (1 .. Fallback) \ pending} :
            HandleStrategyAck(known \cup others) /\ confirmed' = confirmed \cup known
      BY <2>4 DEF StrategyAck
    <3> DEFINE now == (known \cup others) \cap pending \cap sent
    <3>2. forwarded' = [e \in Events |-> IF e \in now THEN forwarded[e] + 1 ELSE forwarded[e]]
      BY <3>1 DEF HandleStrategyAck, Forward
    <3>3. now \subseteq Events /\ now \subseteq known /\ now \subseteq pending /\ known \subseteq Events
      BY <3>1 DEF IInv, Types
    <3> HIDE DEF now
    <3>4. Pacing!Step(known, now)
      BY <2>1, <3>1, <3>2, <3>3 DEF Pacing!Step
    <3> QED
      BY <3>3, <3>4 DEF Pacing!Next
  <2>5. CASE \/ WriterFail \/ EngineClose \/ TakeEvent \/ StreamClosed \/ UNCHANGED vars
             \/ \E e \in Events : WriterSend(e)
    BY <2>5 DEF WriterFail, EngineClose, TakeEvent, StreamClosed, WriterSend, vars, engine, bridge, registry, clients
  <2>6. CASE \E c \in Conns : \/ SendTo(c) \/ AddConnection(c) \/ RegisterStrategy(c)
                             \/ SendTaskFails(c) \/ Disconnect(c) \/ Receive(c)
    BY <2>6 DEF SendTo, AddConnection, RegisterStrategy, SendTaskFails, Disconnect, Receive, SetStatus, bridge
  <2> QED
    BY <2>2, <2>3, <2>4, <2>5, <2>6 DEF Next, TaskStep, ConnStep
<1> QED
  BY Inductive, <1>1, <1>2, PTL DEF Spec, EnginePaced, Pacing!Spec
=============================================================================
