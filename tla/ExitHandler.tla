------------------------------ MODULE ExitHandler ------------------------------
(***************************************************************************)
(* The exit-management handler of the gateway core: stop-loss and          *)
(* take-profit legs are registered when the submit call returns, placed at *)
(* the provider as the primary order fills, and cancelled when the other   *)
(* leg or the position is gone.                                            *)
(*                                                                         *)
(* Tasks that run concurrently over the handler's two maps:                *)
(*   - one HTTP task per submission (submit, register, replay);            *)
(*   - the fill job: whoever holds fill_processing_lock, either the event  *)
(*     router or a submission replaying a buffered fill;                   *)
(*   - the position-close task, which takes no lock;                       *)
(*   - the periodic sweep, the reconnect path and the operator's reset.    *)
(*                                                                         *)
(* Quantities are whole lots.  The exit orders of a leg are told apart by  *)
(* the number n in their client order id ("<parent>-sl", "<parent>-sl-1",  *)
(* ...), under which the provider accepts one order.                       *)
(***************************************************************************)
EXTENDS Integers, FiniteSets, FiniteSetsExt

CONSTANTS
  Primaries,      \* ids the provider gives to primary orders
  Submissions,    \* POST /orders calls
  PrimaryOf,      \* the primary order a submission is answered with
  LegsOf,         \* the legs each primary asks for
  Symbols,
  SymbolOf,
  Total,          \* quantity of every primary order
  MinQty,         \* config.min_exit_order_qty
  Retries,        \* config.retry_delays.len()
  Threshold,      \* circuit breaker threshold
  MaxPending      \* config.max_pending_entries

Legs == {"sl", "tp"}

ASSUME SubmissionAssumption == PrimaryOf \in [Submissions -> Primaries]

ASSUME LegsAssumption == LegsOf \in [Primaries -> SUBSET Legs]

ASSUME SymbolAssumption == SymbolOf \in [Primaries -> Symbols]

ASSUME ConfigAssumption ==
  /\ Total \in Nat \ {0}
  /\ MinQty \in Nat \ {0}
  /\ Retries \in Nat
  /\ Threshold \in Nat \ {0}
  /\ MaxPending \in Nat

\* The event router's task, as the owner of a fill job.
ASSUME RouterAssumption == "router" \notin Submissions

VARIABLES
  entry,          \* pending_by_placeholder: placeholder -> entry
  index,          \* pending_by_primary: primary -> its legs
  unmatched,      \* unmatched_fills: primary -> buffered quantity, 0 for none
  breaker,        \* the exit circuit breaker
  job,            \* the fill being processed under fill_processing_lock
  submit,         \* progress of each submission
  closer,         \* the position-close task
  broker,         \* the exit orders the provider has accepted (external)
  filled,         \* quantity of each primary filled at the provider (external)
  delivered,      \* history: largest fill handed to handle_fill
  lost            \* history: primaries whose buffered fill was given up

vars == <<entry, index, unmatched, breaker, job, submit, closer, broker, filled,
          delivered, lost>>

handlerMaps == <<entry, index>>
history == <<delivered, lost>>

Placeholders == Primaries \X Legs
Sibling(ph) == <<ph[1], IF ph[2] = "sl" THEN "tp" ELSE "sl">>

\* Legs are inserted, and therefore visited, stop-loss first.
First(legs) == IF "sl" \in legs THEN "sl" ELSE "tp"

\* orders: the numbers of its actual_orders; covered: the quantity that
\* calculate_active_coverage sums over them, all of them being open; last:
\* last_attempted_fill_qty, 0 for none.
NoEntry == [status |-> "Absent", orders |-> {}, covered |-> 0, last |-> 0,
            sibling |-> FALSE]
NewEntry == [NoEntry EXCEPT !.status = "Pending"]

Present(e) == e.status # "Absent"
IsTerminal(e) == e.status \in {"Cancelled", "Failed"}

Orders(ph) == {o \in broker : o.ph = ph}
Tracked(ph) == {o \in Orders(ph) : o.n \in entry[ph].orders}

HasPending(p) == index[p] # {}

Idle == [pc |-> "idle", by |-> "router", p |-> "none", q |-> 0, todo |-> {},
         qty |-> 0, n |-> 0, attempt |-> 0, cancels |-> {}, ok |-> TRUE]
NotClosing == [pc |-> "idle", ph |-> <<"none", "sl">>, orders |-> {}, todo |-> {}]

Init ==
  /\ entry = [ph \in Placeholders |-> NoEntry]
  /\ index = [p \in Primaries |-> {}]
  /\ unmatched = [p \in Primaries |-> 0]
  /\ breaker = [failures |-> 0, open |-> FALSE]
  /\ job = Idle
  /\ submit = [s \in Submissions |-> [pc |-> "idle", todo |-> {}, q |-> 0]]
  /\ closer = NotClosing
  /\ broker = {}
  /\ filled = [p \in Primaries |-> 0]
  /\ delivered = [p \in Primaries |-> 0]
  /\ lost = {}

-----------------------------------------------------------------------------
(* The provider (external). *)

\* A primary order fills further; it can do so as soon as it has been sent.
BrokerFillPrimary(p) ==
  /\ \E s \in Submissions : PrimaryOf[s] = p /\ submit[s].pc # "idle"
  /\ filled[p] < Total
  /\ \E q \in (filled[p] + 1) .. Total : filled' = [filled EXCEPT ![p] = q]
  /\ UNCHANGED <<handlerMaps, unmatched, breaker, job, submit, closer, broker, history>>

\* The orders once o has reached the given state.
Moved(o, state) == (broker \ {o}) \cup {[o EXCEPT !.state = state]}

\* A resting exit order fills completely.
BrokerFillExit(o) ==
  /\ o.state = "open"
  /\ broker' = Moved(o, "filled")
  /\ UNCHANGED <<handlerMaps, unmatched, breaker, job, submit, closer, filled, history>>

\* The orders after the provider has been asked to cancel order n of leg ph: a
\* resting order is cancelled, one that is gone already stays as it is.
AfterCancel(ph, n) ==
  {IF o.ph = ph /\ o.n = n /\ o.state = "open"
   THEN [o EXCEPT !.state = "cancelled"] ELSE o : o \in broker}

-----------------------------------------------------------------------------
(* The submit path of api/routes.rs. *)

SetSubmit(s, v) == submit' = [submit EXCEPT ![s] = v]

SubmitOrder(s) ==
  /\ submit[s].pc = "idle"
  /\ SetSubmit(s, [submit[s] EXCEPT !.pc = "sent"])
  /\ UNCHANGED <<handlerMaps, unmatched, breaker, job, closer, broker, filled, history>>

\* The provider's answer arrives; exits are registered unless there are none,
\* the order already has some, or the handler is full.
RegisterPendingExits(s) ==
  LET p == PrimaryOf[s]
      full == Cardinality({ph \in Placeholders : Present(entry[ph])}) >= MaxPending
  IN  /\ submit[s].pc = "sent"
      /\ SetSubmit(s, IF LegsOf[p] = {} \/ HasPending(p) \/ full
                      THEN [submit[s] EXCEPT !.pc = "done"]
                      ELSE [submit[s] EXCEPT !.pc = "register", !.todo = LegsOf[p]])
      /\ UNCHANGED <<handlerMaps, unmatched, breaker, job, closer, broker, filled, history>>

\* insert_entry_inner for the next leg, first half: the entry.
RegisterLeg(s) ==
  LET ph == <<PrimaryOf[s], First(submit[s].todo)>>
  IN  /\ submit[s].pc = "register" /\ submit[s].todo # {}
      /\ entry' = [entry EXCEPT ![ph] = NewEntry]
      /\ SetSubmit(s, [submit[s] EXCEPT !.pc = "index"])
      /\ UNCHANGED <<index, unmatched, breaker, job, closer, broker, filled, history>>

\* Its second half: the entry's id joins the index.  After the last leg of a
\* pair the siblings are linked.
IndexLeg(s) ==
  LET p == PrimaryOf[s]
      leg == First(submit[s].todo)
      rest == submit[s].todo \ {leg}
  IN  /\ submit[s].pc = "index" /\ submit[s].todo # {}
      /\ index' = [index EXCEPT ![p] = @ \cup {leg}]
      /\ SetSubmit(s, IF rest # {} THEN [submit[s] EXCEPT !.pc = "register", !.todo = rest]
                      ELSE IF LegsOf[p] = Legs
                      THEN [submit[s] EXCEPT !.pc = "link", !.todo = Legs]
                      ELSE [submit[s] EXCEPT !.pc = "replay", !.todo = {}])
      /\ UNCHANGED <<entry, unmatched, breaker, job, closer, broker, filled, history>>

\* One leg of a pair, if its entry is still there, learns its sibling.
LinkSibling(s) ==
  LET ph == <<PrimaryOf[s], First(submit[s].todo)>>
      rest == submit[s].todo \ {First(submit[s].todo)}
  IN  /\ submit[s].pc = "link" /\ submit[s].todo # {}
      /\ entry' = IF Present(entry[ph]) THEN [entry EXCEPT ![ph].sibling = TRUE] ELSE entry
      /\ SetSubmit(s, [submit[s] EXCEPT !.pc = IF rest = {} THEN "replay" ELSE "link",
                                        !.todo = rest])
      /\ UNCHANGED <<index, unmatched, breaker, job, closer, broker, filled, history>>

\* process_buffered_fill takes the buffered fill before it asks for the lock.
TakeBufferedFill(s) ==
  LET p == PrimaryOf[s]
  IN  /\ submit[s].pc = "replay"
      /\ SetSubmit(s, IF unmatched[p] = 0
                      THEN [submit[s] EXCEPT !.pc = "done"]
                      ELSE [submit[s] EXCEPT !.pc = "waiting", !.q = unmatched[p]])
      /\ unmatched' = [unmatched EXCEPT ![p] = 0]
      /\ UNCHANGED <<handlerMaps, breaker, job, closer, broker, filled, history>>

-----------------------------------------------------------------------------
(* handle_fill_internal, under fill_processing_lock. *)

BeginJob(by, p, q) ==
  /\ job.pc = "idle"
  /\ job' = [Idle EXCEPT !.pc = IF HasPending(p) THEN "legs" ELSE "unmatched",
                         !.by = by, !.p = p, !.q = q, !.todo = index[p]]

\* The router is handed a fill event; reconciliation can hand it an old one.
RouterFill(p) ==
  /\ \E q \in 1 .. filled[p] :
       /\ BeginJob("router", p, q)
       /\ delivered' = [delivered EXCEPT ![p] = IF q > @ THEN q ELSE @]
  /\ UNCHANGED <<handlerMaps, unmatched, breaker, submit, closer, broker, filled, lost>>

ReplayFill(s) ==
  /\ submit[s].pc = "waiting"
  /\ BeginJob(s, PrimaryOf[s], submit[s].q)
  /\ SetSubmit(s, [submit[s] EXCEPT !.pc = "replaying", !.q = 0])
  /\ UNCHANGED <<handlerMaps, unmatched, breaker, closer, broker, filled, history>>

\* buffer_unmatched_fill: other fills may be too old or over the cap; the
\* primary's own earlier fill is overwritten.
BufferUnmatchedFill ==
  /\ job.pc = "unmatched"
  /\ \E gone \in SUBSET {p \in Primaries \ {job.p} : unmatched[p] # 0} :
       /\ unmatched' = [p \in Primaries |-> IF p = job.p THEN job.q
                                            ELSE IF p \in gone THEN 0 ELSE unmatched[p]]
       /\ lost' = lost \cup gone \cup (IF unmatched[job.p] > job.q THEN {job.p} ELSE {})
  /\ job' = [job EXCEPT !.pc = "reclaim"]
  /\ UNCHANGED <<handlerMaps, breaker, submit, closer, broker, filled, delivered>>

\* Mutant: the buffered fill is left for the registration to find.
ReclaimNothing ==
  /\ job.pc = "reclaim"
  /\ job' = [job EXCEPT !.pc = "legs", !.todo = {}]
  /\ UNCHANGED <<handlerMaps, unmatched, breaker, submit, closer, broker, filled, history>>

\* Registration may have landed meanwhile: take the fill back and go on.
ReclaimFill ==
  LET mine == HasPending(job.p) /\ unmatched[job.p] # 0
  IN  /\ job.pc = "reclaim"
      /\ unmatched' = IF mine THEN [unmatched EXCEPT ![job.p] = 0] ELSE unmatched
      /\ job' = [job EXCEPT !.pc = "legs", !.todo = IF mine THEN index[job.p] ELSE {}]
      /\ UNCHANGED <<handlerMaps, breaker, submit, closer, broker, filled, history>>

\* A fill of an order without exits, or of an exit order nobody tracks, is
\* buffered too and may push out others.
BufferForeignFill ==
  /\ job.pc = "idle"
  /\ \E gone \in SUBSET {p \in Primaries : unmatched[p] # 0} :
       /\ gone # {}
       /\ unmatched' = [p \in Primaries |-> IF p \in gone THEN 0 ELSE unmatched[p]]
       /\ lost' = lost \cup gone
  /\ UNCHANGED <<handlerMaps, breaker, job, submit, closer, broker, filled, delivered>>

\* The leg being processed, and the job once it is done with it.
JobPlaceholder == <<job.p, First(job.todo)>>
NextLeg == [Idle EXCEPT !.pc = "legs", !.by = job.by, !.p = job.p, !.q = job.q,
                        !.todo = job.todo \ {First(job.todo)}]

\* validate_entry_for_fill
Eligible(e, q) == Present(e) /\ ~IsTerminal(e) /\ q > e.last

\* Mutant: the orders already resting are not counted.
ExitQuantityUncovered(e, q) == q

\* calculate_exit_quantity; a fill up to Total has the total as its target.
ExitQuantity(e, q) == q - e.covered

\* Mutant: the breaker is not consulted.
HeldByDustOnly(want) == want < MinQty

\* The dust and the circuit-breaker checks that defer a placement.
Held(want) == want < MinQty \/ breaker.open

\* process_entry_fill up to the provider call: validation, the last attempted
\* quantity, the quantity still to place and the checks that defer it.
ProcessEntryFill ==
  LET ph == JobPlaceholder
      e == entry[ph]
      want == ExitQuantity(e, job.q)
  IN  /\ job.pc = "legs" /\ job.todo # {}
      /\ IF Eligible(e, job.q)
         THEN /\ entry' = [entry EXCEPT ![ph].last = job.q]
              /\ job' = IF Held(want) THEN NextLeg
                        ELSE [job EXCEPT !.pc = "submit", !.qty = want,
                                         !.n = Cardinality(e.orders), !.attempt = 0]
         ELSE job' = NextLeg /\ UNCHANGED entry
      /\ UNCHANGED <<index, unmatched, breaker, submit, closer, broker, filled, history>>

NewOrder == [ph |-> JobPlaceholder, n |-> job.n, qty |-> job.qty, state |-> "open"]

\* What the provider has after it sees the request, whatever the gateway
\* hears: client order ids are unique, so a repeated request adds nothing.
Accepted == IF \E o \in Orders(JobPlaceholder) : o.n = job.n
            THEN broker ELSE broker \cup {NewOrder}

\* submit_order answers with an order: a new one, or the one first accepted
\* under this client order id.  Its quantity is fetched with get_order, or
\* taken to be the requested one when that call fails.
PlaceOk ==
  /\ job.pc = "submit"
  /\ broker' = Accepted
  /\ \E o \in Accepted :
       /\ o.ph = JobPlaceholder /\ o.n = job.n
       /\ \E v \in {o.qty, job.qty} : job' = [job EXCEPT !.pc = "record", !.qty = v]
  /\ UNCHANGED <<handlerMaps, unmatched, breaker, submit, closer, filled, history>>

\* Mutant: one attempt more than retry_delays has.
PlaceRetryOnceMore ==
  /\ job.pc = "submit" /\ job.attempt <= Retries
  /\ broker' \in {broker, Accepted}
  /\ job' = [job EXCEPT !.attempt = @ + 1]
  /\ UNCHANGED <<handlerMaps, unmatched, breaker, submit, closer, filled, history>>

\* A retryable error with attempts left.  The request may or may not have
\* reached the provider.
PlaceRetry ==
  /\ job.pc = "submit" /\ job.attempt < Retries
  /\ broker' \in {broker, Accepted}
  /\ job' = [job EXCEPT !.attempt = @ + 1]
  /\ UNCHANGED <<handlerMaps, unmatched, breaker, submit, closer, filled, history>>

\* Insufficient balance or a wash trade: deferred, the entry stays as it is.
PlaceDeferred ==
  /\ job.pc = "submit"
  /\ job' = NextLeg
  /\ UNCHANGED <<handlerMaps, unmatched, breaker, submit, closer, broker, filled, history>>

\* record_failure, with the failures still inside the window kept.
RecordFailure(kept) ==
  [failures |-> kept + 1, open |-> breaker.open \/ kept + 1 >= Threshold]

\* Mutant: the retry loop starts over instead of giving up.
PlaceStartOver ==
  /\ job.pc = "submit" /\ job.attempt = Retries
  /\ broker' \in {broker, Accepted}
  /\ job' = [job EXCEPT !.attempt = 0]
  /\ UNCHANGED <<handlerMaps, unmatched, breaker, submit, closer, filled, history>>

\* The last attempt failed: an infrastructure failure counts toward the
\* breaker, a rate limit or a closed market does not; the entry keeps the
\* orders it had.
PlaceFailed ==
  LET ph == JobPlaceholder
  IN  /\ job.pc = "submit" /\ job.attempt = Retries
      /\ broker' \in {broker, Accepted}
      /\ \/ \E kept \in 0 .. breaker.failures : breaker' = RecordFailure(kept)
         \/ UNCHANGED breaker
      /\ entry' = IF Present(entry[ph])
                  THEN [entry EXCEPT ![ph].status = "Failed"] ELSE entry
      /\ job' = NextLeg
      /\ UNCHANGED <<index, unmatched, submit, closer, filled, history>>

\* update_entry_partial_fill and update_entry_to_placed
RecordPlaced(e) ==
  CASE e.status = "PartiallyTriggered" \/ (e.status = "Pending" /\ job.q < Total) ->
         [e EXCEPT !.status = IF job.q < Total THEN "PartiallyTriggered" ELSE "Placed",
                   !.orders = @ \cup {job.n}, !.covered = @ + job.qty]
    [] e.status # "PartiallyTriggered" /\ job.q = Total ->
         [e EXCEPT !.status = "Placed", !.orders = {job.n}, !.covered = job.qty]
    [] OTHER -> e

HandleSuccessfulPlacement ==
  LET ph == JobPlaceholder
  IN  /\ job.pc = "record"
      /\ entry' = IF Present(entry[ph])
                  THEN [entry EXCEPT ![ph] = RecordPlaced(@)] ELSE entry
      /\ job' = NextLeg
      /\ UNCHANGED <<index, unmatched, breaker, submit, closer, broker, filled, history>>

\* The guard is dropped; a replaying submission is finished.
EndFill ==
  /\ job.pc = "legs" /\ job.todo = {}
  /\ job' = Idle
  /\ submit' = IF job.by = "router" THEN submit
               ELSE [submit EXCEPT ![job.by].pc = "done"]
  /\ UNCHANGED <<handlerMaps, unmatched, breaker, closer, broker, filled, history>>

\* The client hangs up and axum drops the submission where it is suspended:
\* before the provider's answer, when nothing is registered, or waiting for a
\* lock that another job holds, when the fill it has taken from the buffer goes
\* with it.
ClientGone(s) ==
  /\ submit[s].pc = "sent" \/ (submit[s].pc = "waiting" /\ job.pc # "idle")
  /\ lost' = IF submit[s].pc = "waiting" THEN lost \cup {PrimaryOf[s]} ELSE lost
  /\ SetSubmit(s, [submit[s] EXCEPT !.pc = "done", !.q = 0])
  /\ UNCHANGED <<handlerMaps, unmatched, breaker, job, closer, broker, filled, delivered>>

\* The same during its replay, in a provider call or the sleep before a retry:
\* the guard is dropped and nothing more is recorded.  The request may or may
\* not have reached the provider.
ReplayDropped(s) ==
  /\ submit[s].pc = "replaying" /\ job.by = s
  /\ \/ job.pc = "submit" /\ broker' \in {broker, Accepted}
     \/ job.pc = "record" /\ UNCHANGED broker
  /\ job' = Idle
  /\ SetSubmit(s, [submit[s] EXCEPT !.pc = "done"])
  /\ UNCHANGED <<handlerMaps, unmatched, breaker, closer, filled, history>>

-----------------------------------------------------------------------------
(* handle_exit_leg_fill: the router is told that an exit order filled. *)

\* The filled leg's entry is dropped; a sibling still there is cancelled next.
ExitLegFilled(ph) ==
  LET sib == Sibling(ph)
      other == entry[ph].sibling /\ Present(entry[sib])
  IN  /\ job.pc = "idle"
      /\ \E o \in Tracked(ph) : o.state = "filled"
      /\ entry' = [entry EXCEPT ![ph] = NoEntry]
      /\ index' = [index EXCEPT ![ph[1]] = @ \ {ph[2]}]
      /\ job' = IF other THEN [Idle EXCEPT !.pc = "cancel", !.p = ph[1],
                                           !.todo = {sib[2]},
                                           !.cancels = entry[sib].orders]
                ELSE Idle
      /\ UNCHANGED <<unmatched, breaker, submit, closer, broker, filled, history>>

\* One order of the sibling: the provider answers the cancel, or the call
\* fails (which a provider may also answer for an order that is gone).
CancelSiblingOrder(n) ==
  /\ job.pc = "cancel" /\ n \in job.cancels
  /\ \/ /\ broker' = AfterCancel(JobPlaceholder, n)
        /\ job' = [job EXCEPT !.cancels = @ \ {n}]
     \/ /\ UNCHANGED broker
        /\ job' = [job EXCEPT !.cancels = @ \ {n}, !.ok = FALSE]
  /\ UNCHANGED <<handlerMaps, unmatched, breaker, submit, closer, filled, history>>

\* Mutant: under the lock, until every cancel succeeds.
SiblingCancelledAtLast ==
  /\ job.pc = "cancel" /\ job.cancels = {}
  /\ IF job.ok
     THEN /\ entry' = [entry EXCEPT ![JobPlaceholder] = NoEntry]
          /\ index' = [index EXCEPT ![job.p] = @ \ job.todo]
          /\ job' = Idle
     ELSE /\ job' = [job EXCEPT !.cancels = entry[JobPlaceholder].orders, !.ok = TRUE]
          /\ UNCHANGED handlerMaps
  /\ UNCHANGED <<unmatched, breaker, submit, closer, broker, filled, history>>

\* Mutant: the sibling's entry is dropped whatever its cancels came to.
SiblingDropped ==
  /\ job.pc = "cancel" /\ job.cancels = {}
  /\ entry' = [entry EXCEPT ![JobPlaceholder] = NoEntry]
  /\ index' = [index EXCEPT ![job.p] = @ \ job.todo]
  /\ job' = Idle
  /\ UNCHANGED <<unmatched, breaker, submit, closer, broker, filled, history>>

\* The sibling's entry is dropped only when every cancel succeeded.
SiblingCancelled ==
  /\ job.pc = "cancel" /\ job.cancels = {}
  /\ entry' = IF job.ok THEN [entry EXCEPT ![JobPlaceholder] = NoEntry] ELSE entry
  /\ index' = IF job.ok THEN [index EXCEPT ![job.p] = @ \ job.todo] ELSE index
  /\ job' = Idle
  /\ UNCHANGED <<unmatched, breaker, submit, closer, broker, filled, history>>

-----------------------------------------------------------------------------
(* cancel_for_position_close_internal: no lock, one provider call at a time. *)

ToCancel(e) ==
  \/ e.status \in {"Pending", "Placed", "PartiallyTriggered"}
  \/ e.status = "Failed" /\ e.orders # {}

\* The next entry of the list collected at the start.
CloseNext(todo) ==
  IF todo = {} THEN closer' = NotClosing
  ELSE \E x \in todo : closer' = [pc |-> "cancel", ph |-> x.ph, orders |-> x.orders,
                                  todo |-> todo \ {x}]

ClosePosition(sym) ==
  LET found == {ph \in Placeholders : SymbolOf[ph[1]] = sym /\ ToCancel(entry[ph])}
  IN  /\ closer.pc = "idle" /\ found # {}
      /\ CloseNext({[ph |-> ph, orders |-> entry[ph].orders] : ph \in found})
      /\ UNCHANGED <<handlerMaps, unmatched, breaker, job, submit, broker, filled, history>>

\* A failed cancel is only logged.
CloseCancelOrder(n) ==
  /\ closer.pc = "cancel" /\ n \in closer.orders
  /\ broker' \in {broker, AfterCancel(closer.ph, n)}
  /\ closer' = [closer EXCEPT !.orders = @ \ {n}]
  /\ UNCHANGED <<handlerMaps, unmatched, breaker, job, submit, filled, history>>

CloseMarkCancelled ==
  LET ph == closer.ph
  IN  /\ closer.pc = "cancel" /\ closer.orders = {}
      /\ entry' = IF Present(entry[ph])
                  THEN [entry EXCEPT ![ph].status = "Cancelled", ![ph].orders = {},
                                     ![ph].covered = 0]
                  ELSE entry
      /\ CloseNext(closer.todo)
      /\ UNCHANGED <<index, unmatched, breaker, job, submit, broker, filled, history>>

-----------------------------------------------------------------------------
(* Maintenance. *)

RemoveEntries(gone) ==
  /\ entry' = [ph \in Placeholders |-> IF ph \in gone THEN NoEntry ELSE entry[ph]]
  /\ index' = [p \in Primaries |-> {l \in index[p] : <<p, l>> \notin gone}]

\* clear_failed_entries_internal, after a reconnect has announced them again
ClearFailedEntries ==
  LET failed == {ph \in Placeholders : entry[ph].status = "Failed"}
  IN  /\ failed # {}
      /\ RemoveEntries(failed)
      /\ UNCHANGED <<unmatched, breaker, job, submit, closer, broker, filled, history>>

\* cleanup_expired_entries: any entry may have outlived entry_ttl, whatever
\* its status.
CleanupExpiredEntries ==
  /\ \E expired \in SUBSET {ph \in Placeholders : Present(entry[ph])} :
       expired # {} /\ RemoveEntries(expired)
  /\ UNCHANGED <<unmatched, breaker, job, submit, closer, broker, filled, history>>

\* The operator's reset.  The cooldown after an earlier reset, which refuses
\* it for a minute, is left out: a reset may come at any time.
ResetCircuitBreaker ==
  /\ breaker' = [failures |-> 0, open |-> FALSE]
  /\ breaker # breaker'
  /\ UNCHANGED <<handlerMaps, unmatched, job, submit, closer, broker, filled, history>>

\* handle_cancellation_internal: the primary was cancelled; entries that are
\* pending or partially triggered are cancelled with it, and the orders of the
\* latter forgotten.  Exported for library users; the gateway binary does not
\* call it.
HandleCancellation(p) ==
  /\ HasPending(p)
  /\ index' = [index EXCEPT ![p] = {}]
  /\ entry' = [ph \in Placeholders |->
                 IF /\ ph[1] = p /\ ph[2] \in index[p]
                    /\ entry[ph].status \in {"Pending", "PartiallyTriggered"}
                 THEN [entry[ph] EXCEPT !.status = "Cancelled", !.orders = {},
                                        !.covered = 0]
                 ELSE entry[ph]]
  /\ UNCHANGED <<unmatched, breaker, job, submit, closer, broker, filled, history>>

-----------------------------------------------------------------------------

SubmitStep(s) ==
  \/ SubmitOrder(s) \/ RegisterPendingExits(s) \/ RegisterLeg(s)
  \/ IndexLeg(s) \/ LinkSibling(s) \/ TakeBufferedFill(s) \/ ReplayFill(s)

FillStep ==
  \/ BufferUnmatchedFill \/ ReclaimFill \/ ProcessEntryFill
  \/ PlaceOk \/ PlaceRetry \/ PlaceDeferred \/ PlaceFailed
  \/ HandleSuccessfulPlacement \/ EndFill
  \/ \E n \in job.cancels : CancelSiblingOrder(n)
  \/ SiblingCancelled

CloseStep ==
  \/ \E n \in closer.orders : CloseCancelOrder(n)
  \/ CloseMarkCancelled

Trading ==
  \/ \E s \in Submissions : SubmitStep(s)
  \/ \E p \in Primaries : BrokerFillPrimary(p) \/ RouterFill(p)
  \/ \E ph \in Placeholders : ExitLegFilled(ph)
  \/ FillStep \/ CloseStep

Disturbance ==
  \/ \E o \in broker : BrokerFillExit(o)
  \/ \E sym \in Symbols : ClosePosition(sym)
  \/ \E p \in Primaries : HandleCancellation(p)
  \/ ClearFailedEntries \/ CleanupExpiredEntries \/ ResetCircuitBreaker
  \/ BufferForeignFill

HangUp == \E s \in Submissions : ClientGone(s) \/ ReplayDropped(s)

Next == Trading \/ Disturbance \/ HangUp

Spec == Init /\ [][Next]_vars

\* The job keeps making progress: every provider call is bounded by the HTTP
\* timeout.  A submission's own steps are synchronous once the provider has
\* answered; a client that hangs up ends it early.  The tokio mutex is first come first served, so a submission
\* waiting for it gets it although the router keeps taking it: strong
\* fairness of ReplayFill.
Fairness ==
  /\ WF_vars(FillStep)
  /\ \A s \in Submissions :
       /\ WF_vars(RegisterPendingExits(s) \/ RegisterLeg(s) \/ IndexLeg(s)
                  \/ LinkSibling(s) \/ TakeBufferedFill(s))
       /\ SF_vars(ReplayFill(s))

FairSpec == Spec /\ Fairness

-----------------------------------------------------------------------------
(* Properties. *)

EntryStatus == {"Absent", "Pending", "PartiallyTriggered", "Placed", "Failed", "Cancelled"}
EntryType == [status : EntryStatus, orders : SUBSET Nat, covered : Nat,
              last : 0 .. Total, sibling : BOOLEAN]
JobType ==
  [pc : {"idle", "unmatched", "reclaim", "legs", "submit", "record", "cancel"},
   by : Submissions \cup {"router"}, p : Primaries \cup {"none"}, q : 0 .. Total,
   todo : SUBSET Legs, qty : Nat, n : Nat, attempt : 0 .. Retries,
   cancels : SUBSET Nat, ok : BOOLEAN]
SubmitType ==
  [pc : {"idle", "sent", "register", "index", "link", "replay", "waiting", "replaying",
         "done"},
   todo : SUBSET Legs, q : 0 .. Total]
CloserType ==
  [pc : {"idle", "cancel"}, ph : Placeholders \cup {<<"none", "sl">>}, orders : SUBSET Nat,
   todo : SUBSET [ph : Placeholders, orders : SUBSET Nat]]
OrderType == [ph : Placeholders, n : Nat, qty : Nat \ {0},
              state : {"open", "filled", "cancelled"}]

\* Every variable keeps its shape; in particular handle_fill never asks the
\* provider for less than one lot.
TypeOK ==
  /\ entry \in [Placeholders -> EntryType]
  /\ index \in [Primaries -> SUBSET Legs]
  /\ unmatched \in [Primaries -> 0 .. Total]
  /\ breaker \in [failures : Nat, open : BOOLEAN]
  /\ job \in JobType
  /\ submit \in [Submissions -> SubmitType]
  /\ closer \in CloserType
  /\ broker \in SUBSET OrderType
  /\ filled \in [Primaries -> 0 .. Total]
  /\ delivered \in [Primaries -> 0 .. Total]
  /\ lost \in SUBSET Primaries

\* Exit orders of a leg that can still reduce, or have reduced, the position.
Exposure(ph) ==
  MapThenSumSet(LAMBDA o : o.qty, {o \in Orders(ph) : o.state # "cancelled"})

\* The provider never holds more exit quantity for a leg than the gateway has
\* been told was filled, over partial fills, repeated and stale fill events,
\* retries, lost answers and position closes (calculate_exit_quantity, the
\* duplicate-fill check and the deterministic client_order_id together).
NoOverCoverage == \A ph \in Placeholders : Exposure(ph) <= delivered[ph[1]]

Live(ph) == Present(entry[ph]) /\ ~IsTerminal(entry[ph]) /\ ph[2] \in index[ph[1]]

\* Nothing is under way that could still bring p's exits a fill.
Settled(p) ==
  /\ job.pc = "idle" \/ job.p # p
  /\ \A s \in Submissions : PrimaryOf[s] = p => submit[s].pc = "done"

FillReached(ph) ==
  Settled(ph[1]) /\ Live(ph) /\ ph[1] \notin lost => entry[ph].last >= delivered[ph[1]]

\* However fills, registration and replay interleave, a fill handed to
\* handle_fill is never stranded: once the submission is done and no job runs,
\* the leg registered first has been attempted for the largest fill delivered,
\* unless the buffered fill expired, was evicted or was overwritten, or the
\* submission that had taken it was dropped with its client.
FirstLegReached ==
  \A s \in Submissions :
    LegsOf[PrimaryOf[s]] # {} => FillReached(<<PrimaryOf[s], First(LegsOf[PrimaryOf[s]])>>)

\* The same for every leg: what the buffer and its replay are documented to
\* guarantee.
EveryLegReached ==
  \A ph \in Placeholders : FillReached(ph)

\* No exit order is created at the provider while the exit circuit breaker is
\* open, retries of a placement already under way included (replacements of a
\* leg, which do not ask the breaker, are not part of this module).
NoPlacementWhileOpen == [][Cardinality(broker') > Cardinality(broker) => ~breaker.open]_vars

\* An order's legs are never registered again over entries it already has.
RegisteredOnce ==
  [][\A s \in Submissions :
       RegisterLeg(s) => ~Present(entry[<<PrimaryOf[s], First(submit[s].todo)>>])]_vars

\* A leg's pair is resolved (its entry dropped, its sibling cancelled) only
\* when the leg is filled, that is when no order of it still rests.
PairResolvedWhenLegFilled ==
  [][\A ph \in Placeholders :
       ExitLegFilled(ph) => \A o \in Tracked(ph) : o.state # "open"]_vars

\* An entry the position close has cancelled (it stays indexed, unlike one
\* cancelled with its primary) stays cancelled: terminal states are final.
CancelledIsFinal ==
  [][\A ph \in Placeholders :
       entry[ph].status = "Cancelled" /\ ph[2] \in index[ph[1]] => entry'[ph].status \in {"Cancelled", "Absent"}]_vars

\* The sibling of a filled leg stops being tracked only when none of its orders
\* rests at the provider any more: a sibling whose cancel failed stays tracked,
\* so that the position close can still find it (cancel_exit_leg_orders).
SiblingKeptWhileResting ==
  [][\A ph \in Placeholders :
       job.pc = "cancel" /\ job'.pc = "idle" /\ Present(entry[ph]) /\ ~Present(entry'[ph])
         => \A o \in Tracked(ph) : o.state # "open"]_vars

\* A fill that a submission has taken from the buffer is replayed: the leg
\* registered first is attempted for it, unless its entry is gone or terminal
\* by then (process_buffered_fill).
BufferedFillReplayed ==
  \A s \in Submissions : \A q \in 1 .. Total :
    LET ph == <<PrimaryOf[s], First(LegsOf[PrimaryOf[s]])>>
    IN  submit[s].pc = "waiting" /\ submit[s].q = q
          ~> entry[ph].last >= q \/ ~Live(ph)

\* Every submission the provider answered finishes registering and replaying,
\* although the fill it replays has to wait for a lock the router keeps taking,
\* or is dropped with its client.
SubmissionFinishes ==
  \A s \in Submissions : (submit[s].pc = "register") ~> (submit[s].pc = "done")

\* The fill lock is always released again, whatever the provider answers.
LockReleased == (job.pc # "idle") ~> (job.pc = "idle")
===============================================================================
