----------------------------- MODULE AckDelivery -----------------------------
(***************************************************************************)
(* A backtest: the Tektii engine's events travel through the gateway to    *)
(* the connected strategy, and its acknowledgements travel back and pace   *)
(* the engine.                                                             *)
(*                                                                         *)
(* Tasks: the engine message processor (reads events, registers them as    *)
(* pending), the provider event task of the registry (hands them to the    *)
(* strategy connections, then marks them sent), one socket task per        *)
(* strategy connection, and the engine writer.                             *)
(*                                                                         *)
(* Event ids are numbers in emission order, so that the event stream and   *)
(* the outbound channels, first-in first-out, are sets read in increasing  *)
(* order.  The channel to the writer is a set read in any order.           *)
(***************************************************************************)
EXTENDS Integers, FiniteSets

CONSTANTS
  Count,          \* number of events the engine emits
  Silent,         \* events without a message for the strategy (Error, Pong)
  Terminals,      \* the in-band backtest_complete, if the engine sends one
  Conns,          \* strategy connections
  Capacity        \* WS_CLIENT_CHANNEL_CAPACITY

ASSUME CountAssumption == Count \in Nat /\ Capacity \in Nat \ {0}

Events == 1 .. Count

ASSUME EventAssumption ==
  /\ Silent \subseteq Events
  /\ Terminals \subseteq Events \ Silent
  /\ \A d, e \in Terminals : d = e

\* The backtest_complete the registry makes up when the stream just ends.
Fallback == Count + 1

VARIABLES
  read,           \* last event the message processor has read
  closed,         \* the engine's stream has ended
  writerUp,       \* the engine writer task is running
  pending,        \* the bridge's queue ...
  sent,           \* ... the events in it that are marked sent ...
  acked,          \* ... and those acknowledged before they were
  toEngine,       \* the acknowledgements in the channel to the writer
  atEngine,       \* those the engine has received (external)
  taken,          \* last event the provider event task has received
  task,           \* what that task is doing with it
  relayed,        \* backtest_terminal_relayed
  status,         \* state of each strategy connection
  queue,          \* its outbound channel
  seen,           \* what the strategy got over it (external)
  confirmed,      \* history: events acknowledged while they were pending
  forwarded,      \* history: event -> times released toward the engine
  dropped         \* history: connections whose channel was full at a send

bridge == <<pending, sent, acked, toEngine, forwarded>>
engine == <<read, closed, writerUp, atEngine>>
registry == <<taken, task, relayed>>
clients == <<status, queue, seen, confirmed, dropped>>
vars == <<engine, bridge, registry, clients>>

NoTask == [pc |-> "recv", todo |-> {}, any |-> FALSE]

Init ==
  /\ read = 0 /\ closed = FALSE /\ writerUp = TRUE /\ atEngine = {}
  /\ pending = {} /\ sent = {} /\ acked = {} /\ toEngine = {}
  /\ taken = 0 /\ task = NoTask /\ relayed = FALSE
  /\ status = [c \in Conns |-> "none"]
  /\ queue = [c \in Conns |-> {}]
  /\ seen = [c \in Conns |-> {}]
  /\ confirmed = {} /\ dropped = {}
  /\ forwarded = [e \in Events |-> 0]

-----------------------------------------------------------------------------
(* The bridge.  Each operation runs under the bridge's write lock; the     *)
(* channel to the writer is unbounded, and closed once the writer is gone. *)

\* engine_ack_tx.send
Forward(ids) ==
  /\ toEngine' = IF writerUp THEN toEngine \cup ids ELSE toEngine
  /\ forwarded' = [e \in Events |-> IF e \in ids THEN forwarded[e] + 1 ELSE forwarded[e]]

\* Mutant: the acknowledgement that came first is forgotten.
MarkSentOnly(e) ==
  /\ sent' = sent \cup ({e} \cap pending)
  /\ UNCHANGED <<pending, acked, toEngine, forwarded>>

\* Mark e sent; if its acknowledgement came first, release it.  An unknown id
\* is ignored.
BridgeMarkSent(e) ==
  LET now == {e} \cap pending \cap acked
  IN  /\ pending' = pending \ now
      /\ sent' = (sent \cup ({e} \cap pending)) \ now
      /\ acked' = acked \ now
      /\ Forward(now)

\* Mutant: an acknowledgement that beats mark_sent is dropped.
HandleStrategyAckLate(ids) ==
  LET now == ids \cap pending \cap sent
  IN  /\ pending' = pending \ now
      /\ sent' = sent \ now
      /\ acked' = acked
      /\ Forward(now)

\* Mutant: release by position, as many of the oldest sent events as the
\* acknowledgement names.
HandleStrategyAckPositional(ids) ==
  LET now == {e \in pending \cap sent :
                Cardinality({d \in pending \cap sent : d < e}) < Cardinality(ids)}
  IN  /\ pending' = pending \ now
      /\ sent' = sent \ now
      /\ acked' = acked \cup ((ids \cap pending) \ sent)
      /\ Forward(now)

\* Release the named events that are sent; remember the acknowledgement of
\* those that are not yet.  Unknown ids release nothing.
HandleStrategyAck(ids) ==
  LET now == ids \cap pending \cap sent
  IN  /\ pending' = pending \ now
      /\ sent' = sent \ now
      /\ acked' = acked \cup ((ids \cap pending) \ sent)
      /\ Forward(now)

-----------------------------------------------------------------------------
(* The engine's side. *)

\* The latch that connect_tektii waits for before it connects to the engine.
StrategyConnected == \E c \in Conns : status[c] \notin {"none", "added"}

\* The message processor reads the next event and registers it as pending, or
\* acknowledges it at once when it has no message for the strategy.
ReadEvent ==
  LET e == read + 1
  IN  /\ ~closed /\ read < Count /\ StrategyConnected
      /\ read' = e
      /\ IF e \in Silent
         THEN Forward({e}) /\ UNCHANGED <<pending, sent, acked>>
         ELSE /\ pending' = pending \cup {e}
              /\ UNCHANGED <<sent, acked, toEngine, forwarded>>
      /\ UNCHANGED <<closed, writerUp, atEngine, registry, clients>>

\* The engine writer sends an acknowledgement.
WriterSend(e) ==
  /\ writerUp /\ e \in toEngine
  /\ toEngine' = toEngine \ {e}
  /\ atEngine' = atEngine \cup {e}
  /\ UNCHANGED <<read, closed, writerUp, pending, sent, acked, forwarded, registry, clients>>

\* A send fails and the writer ends.
WriterFail ==
  /\ writerUp
  /\ writerUp' = FALSE
  /\ UNCHANGED <<read, closed, atEngine, bridge, registry, clients>>

\* The engine's stream ends; the processor aborts the writer.
EngineClose ==
  /\ ~closed /\ StrategyConnected
  /\ closed' = TRUE /\ writerUp' = FALSE
  /\ UNCHANGED <<read, atEngine, bridge, registry, clients>>

-----------------------------------------------------------------------------
(* The provider event task. *)

Stream == {e \in Events \ Silent : taken < e /\ e <= read}

\* The messages at the head of a channel: one, or none when it is empty.
Oldest(channel) == {m \in channel : \A k \in channel : m <= k}

Room(c) == Cardinality(queue[c]) < Capacity

\* The connected_strategies read lock is held.
Sending == task.pc = "send" /\ task.todo # {}

\* Mutant: a relayed terminal is not recorded.
TakeEventOnly ==
  /\ task.pc = "recv"
  /\ taken' \in Oldest(Stream)
  /\ task' = [pc |-> "send", todo |-> {c \in Conns : status[c] \in {"registered", "broken"}}, any |-> FALSE]
  /\ UNCHANGED <<relayed, engine, bridge, clients>>

\* The next event of the stream, for every registered connection.
TakeEvent ==
  /\ task.pc = "recv"
  /\ taken' \in Oldest(Stream)
  /\ relayed' = (relayed \/ taken' \in Terminals)
  /\ task' = [pc |-> "send", todo |-> {c \in Conns : status[c] \in {"registered", "broken"}}, any |-> FALSE]
  /\ UNCHANGED <<engine, bridge, clients>>

\* Mutant: an unbounded send.
SendToUnbounded(c) ==
  LET ok == status[c] = "registered"
  IN  /\ task.pc = "send" /\ c \in task.todo
      /\ queue' = IF ok THEN [queue EXCEPT ![c] = @ \cup {taken}] ELSE queue
      /\ task' = [task EXCEPT !.todo = @ \ {c}, !.any = @ \/ ok]
      /\ UNCHANGED <<taken, relayed, engine, bridge, status, seen, confirmed, dropped>>

\* try_send to one connection.  A full or a closed channel loses the event for
\* that connection, and nothing else happens.
SendTo(c) ==
  LET open == status[c] = "registered"
      ok == open /\ Room(c)
  IN  /\ task.pc = "send" /\ c \in task.todo
      /\ queue' = IF ok THEN [queue EXCEPT ![c] = @ \cup {taken}] ELSE queue
      /\ dropped' = IF open /\ ~ok THEN dropped \cup {c} ELSE dropped
      /\ task' = [task EXCEPT !.todo = @ \ {c}, !.any = @ \/ ok]
      /\ UNCHANGED <<taken, relayed, engine, bridge, status, seen, confirmed>>

\* An event that reached a connection is marked sent; another stays pending.
MarkSent ==
  /\ task.pc = "send" /\ task.todo = {}
  /\ IF task.any THEN BridgeMarkSent(taken) ELSE UNCHANGED bridge
  /\ task' = NoTask
  /\ UNCHANGED <<taken, relayed, engine, clients>>

\* The stream is drained and closed: without an in-band terminal one is made
\* up and broadcast to every connection of the manager.
StreamClosed ==
  /\ task.pc = "recv" /\ closed /\ Stream = {}
  /\ task' = [NoTask EXCEPT !.pc = "done"]
  /\ LET open == {c \in Conns : status[c] \in {"added", "registered"}}
     IN  /\ queue' = [c \in Conns |->
                        IF ~relayed /\ c \in open /\ Room(c)
                        THEN queue[c] \cup {Fallback} ELSE queue[c]]
         /\ dropped' = IF relayed THEN dropped
                       ELSE dropped \cup {c \in open : ~Room(c)}
  /\ UNCHANGED <<taken, relayed, engine, bridge, status, seen, confirmed>>

-----------------------------------------------------------------------------
(* The strategy's connections. *)

SetStatus(c, from, to) ==
  /\ status[c] \in from
  /\ status' = [status EXCEPT ![c] = to]
  /\ UNCHANGED <<engine, bridge, registry, seen, confirmed, dropped>>

AddConnection(c) == SetStatus(c, {"none"}, "added") /\ UNCHANGED queue

\* Needs the connected_strategies write lock.
RegisterStrategy(c) ==
  ~Sending /\ SetStatus(c, {"added"}, "registered") /\ UNCHANGED queue

\* The send task fails to write to the socket: it drops its receiver.
SendTaskFails(c) ==
  /\ SetStatus(c, {"registered"}, "broken")
  /\ queue' = [queue EXCEPT ![c] = {}]

\* The socket ends: unregister, remove, abort the send task.
Disconnect(c) ==
  /\ ~Sending
  /\ SetStatus(c, {"registered", "broken"}, "gone")
  /\ queue' = [queue EXCEPT ![c] = {}]

\* The send task writes the oldest message to the socket.
Receive(c) ==
  /\ status[c] = "registered"
  /\ \E m \in Oldest(queue[c]) :
       /\ queue' = [queue EXCEPT ![c] = @ \ {m}]
       /\ seen' = [seen EXCEPT ![c] = @ \cup {m}]
  /\ UNCHANGED <<engine, bridge, registry, status, confirmed, dropped>>

\* An EventAck, whose ids are passed on unchecked: the strategy may name events
\* it got over an earlier connection or never got, and, all of them or none, the
\* ids that are not pending: released, not yet read or (Fallback) never known.
StrategyAck(c) ==
  /\ status[c] \in {"registered", "broken"}
  /\ \E known \in SUBSET pending, others \in {{}, (1 .. Fallback) \ pending} :
       /\ HandleStrategyAck(known \cup others)
       /\ confirmed' = confirmed \cup known
  /\ UNCHANGED <<engine, registry, status, queue, seen, dropped>>

-----------------------------------------------------------------------------
TaskStep == TakeEvent \/ MarkSent \/ StreamClosed \/ \E c \in Conns : SendTo(c)

ConnStep(c) ==
  \/ AddConnection(c) \/ RegisterStrategy(c) \/ SendTaskFails(c) \/ Disconnect(c)
  \/ Receive(c) \/ StrategyAck(c)

Next ==
  \/ ReadEvent \/ WriterFail \/ EngineClose \/ \E e \in Events : WriterSend(e)
  \/ TaskStep
  \/ \E c \in Conns : ConnStep(c)

Spec == Init /\ [][Next]_vars

\* The runtime schedules the event task and the engine writer.  A write to the
\* engine's socket ends: the engine reads what it is sent, or the write fails.
\* Nothing is assumed of the strategy.
FairSpec ==
  /\ Spec
  /\ WF_vars(TaskStep)
  /\ \A e \in Events : WF_vars(WriterSend(e) \/ (e \in toEngine /\ WriterFail))

-----------------------------------------------------------------------------
(* Properties *)

\* Every variable has its type, and no outbound channel exceeds the capacity
\* its mpsc::channel was created with.
TypeOK ==
  /\ read \in 0 .. Count /\ taken \in 0 .. read
  /\ closed \in BOOLEAN /\ writerUp \in BOOLEAN /\ relayed \in BOOLEAN
  /\ \A s \in {pending, sent, acked, toEngine, atEngine, confirmed} : s \in SUBSET Events
  /\ task \in [pc : {"recv", "send", "done"}, todo : SUBSET Conns, any : BOOLEAN]
  /\ status \in [Conns -> {"none", "added", "registered", "broken", "gone"}]
  /\ queue \in [Conns -> SUBSET (1 .. Count + 1)]
  /\ \A c \in Conns : Cardinality(queue[c]) <= Capacity
  /\ seen \in [Conns -> SUBSET (1 .. Count + 1)]
  /\ forwarded \in [Events -> Nat]
  /\ dropped \in SUBSET Conns

\* A strategy has got the event, over whichever connection.
Delivered(e) == \E c \in Conns : e \in seen[c]

\* The bridge loses no acknowledgement and repeats none: an event read from
\* the engine is either still pending or was released exactly once; an
\* acknowledged event is still pending only while it is not marked sent, and the
\* acknowledgement is remembered; and if a strategy has got the event, that is
\* only the window before the mark_sent that is due (ack_bridge.rs, the
\* micro-race of mark_sent and handle_strategy_ack).
NoAckLost ==
  /\ \A e \in 1 .. read : forwarded[e] = IF e \in pending THEN 0 ELSE 1
  /\ \A e \in confirmed \cap pending :
       /\ e \in acked \ sent
       /\ Delivered(e) => e = taken /\ task.pc = "send" /\ task.any

\* No connection is sent two end-of-backtest terminals, whether the engine's
\* own, the made-up one, or both are produced (spawn_provider_event_task,
\* backtest_terminal_relayed).
TerminalOnce ==
  \A c \in Conns : \A d, e \in (queue[c] \cup seen[c]) \cap (Terminals \cup {Fallback}) : d = e

\* The engine is paced by the strategy: an event is released at most once, and
\* only once a strategy acknowledged it or it has no message for the strategy
\* (strict-id release in handle_strategy_ack; immediate_ack).
Pacing == INSTANCE AckPacing WITH processed <- confirmed, released <- forwarded
EnginePaced == Pacing!Spec

\* The acknowledgement of an event that a strategy got reaches the engine
\* unless the engine's stream ends or its writer fails first.
AckReachesEngine ==
  \A e \in Events : e \in confirmed /\ Delivered(e) ~> e \in atEngine \/ ~writerUp

\* A strategy whose channel overflowed is disconnected and is sent nothing
\* more, as WsConnection::send announces ("will be disconnected").
NoDeliveryAfterDrop ==
  [][\A c \in dropped : queue'[c] \subseteq queue[c]]_vars
=============================================================================
