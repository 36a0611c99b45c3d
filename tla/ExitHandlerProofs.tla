-------------------------- MODULE ExitHandlerProofs --------------------------
(***************************************************************************)
(* Type correctness of ExitHandler, and that no fill is stranded between   *)
(* the event router and the registration of the exits, for every set of    *)
(* orders, legs and symbols and every configuration.                       *)
(***************************************************************************)
EXTENDS ExitHandler, FiniteSetTheorems, TLAPS

\* A step is left to Zenon unless it names another prover.
USE ZenonT(60)

\* The actual_orders of an entry are a finite list.
OrdersFinite == \A ph \in Placeholders : IsFiniteSet(entry[ph].orders)

\* A job is about one of the primaries, has a leg in hand while it calls the
\* provider, and asks for at least one lot.
JobShape ==
  /\ job.pc # "idle" => job.p \in Primaries
  /\ job.pc \in {"submit", "record", "cancel"} => job.todo # {}
  /\ job.pc = "submit" => job.qty # 0

TInv == TypeOK /\ OrdersFinite /\ JobShape

-----------------------------------------------------------------------------
LEMMA FirstIsLeg ==
  ASSUME NEW legs \in SUBSET Legs, legs # {}
  PROVE  First(legs) \in legs
BY DEF First, Legs

LEMMA TypeInit == Init => TInv
<1> SUFFICES ASSUME Init PROVE TInv
  OBVIOUS
<1>1. TypeOK
  BY ConfigAssumption, SMTT(30)
     DEF Init, TypeOK, NoEntry, Idle, NotClosing, EntryType, EntryStatus, JobType,
         SubmitType, CloserType, OrderType, Placeholders, Legs
<1>2. OrdersFinite
  BY FS_EmptySet DEF Init, OrdersFinite, NoEntry
<1>3. JobShape
  BY DEF Init, JobShape, Idle
<1>4. QED
  BY <1>1, <1>2, <1>3 DEF TInv

LEMMA ZeroIsQty == 0 \in 0 .. Total /\ 0 \in 0 .. Retries
BY ConfigAssumption, SMTT(30)

LEMMA IdleType == Idle \in JobType /\ Idle.pc = "idle"
BY ConfigAssumption, SMTT(30) DEF Idle, JobType

LEMMA NoEntryType == NoEntry \in EntryType /\ NoEntry.orders = {}
BY ZeroIsQty DEF NoEntry, EntryType, EntryStatus

LEMMA AfterCancelType ==
  ASSUME TypeOK, NEW ph, NEW n
  PROVE  AfterCancel(ph, n) \in SUBSET OrderType
<1>1. ASSUME NEW o \in OrderType PROVE [o EXCEPT !.state = "cancelled"] \in OrderType
  BY DEF OrderType
<1>2. QED
  BY <1>1 DEF AfterCancel, TypeOK

LEMMA BeginJobType ==
  ASSUME TypeOK, NEW by \in Submissions \cup {"router"}, NEW p \in Primaries,
         NEW q \in 0 .. Total, BeginJob(by, p, q)
  PROVE  job' \in JobType /\ JobShape'
<1>1. index[p] \in SUBSET Legs
  BY DEF TypeOK
<1>2. QED
  BY <1>1, ZeroIsQty DEF BeginJob, Idle, JobType, JobShape

LEMMA TypeSubmit ==
  ASSUME TInv, NEW s \in Submissions, SubmitStep(s)
  PROVE  TInv'
<1> USE DEF TInv, TypeOK, OrdersFinite, JobShape, handlerMaps, history
<1> DEFINE p == PrimaryOf[s]
<1>p. p \in Primaries /\ LegsOf[p] \in SUBSET Legs
  BY SubmissionAssumption, LegsAssumption
<1>t. submit[s] \in SubmitType
  OBVIOUS
<1>1. CASE SubmitOrder(s)
  <2>1. submit' \in [Submissions -> SubmitType]
    BY <1>1, <1>t DEF SubmitOrder, SetSubmit, SubmitType
  <2>2. QED
    BY <1>1, <2>1 DEF SubmitOrder
<1>2. CASE RegisterPendingExits(s)
  <2>1. submit' \in [Submissions -> SubmitType]
    BY <1>2, <1>t, <1>p DEF RegisterPendingExits, SetSubmit, SubmitType
  <2>2. QED
    BY <1>2, <2>1 DEF RegisterPendingExits
<1>3. CASE RegisterLeg(s)
  <2>1. submit' \in [Submissions -> SubmitType]
    BY <1>3, <1>t DEF RegisterLeg, SetSubmit, SubmitType
  <2>2. NewEntry \in EntryType /\ NewEntry.orders = {}
    BY ZeroIsQty DEF NewEntry, NoEntry, EntryType, EntryStatus
  <2>3. entry' \in [Placeholders -> EntryType] /\ OrdersFinite'
    BY <1>3, <2>2, FS_EmptySet DEF RegisterLeg
  <2>4. QED
    BY <1>3, <2>1, <2>3 DEF RegisterLeg
<1>4. CASE IndexLeg(s)
  <2>1. First(submit[s].todo) \in Legs
    BY <1>4, <1>t, FirstIsLeg DEF IndexLeg, SubmitType
  <2>2. submit' \in [Submissions -> SubmitType]
    <3>1. submit'[s] \in SubmitType
      BY <1>4, <1>t DEF IndexLeg, SetSubmit, SubmitType
    <3>2. submit' = [submit EXCEPT ![s] = submit'[s]]
      BY <1>4 DEF IndexLeg, SetSubmit
    <3>3. QED
      BY <3>1, <3>2
  <2>3. index' \in [Primaries -> SUBSET Legs]
    BY <1>4, <1>p, <2>1 DEF IndexLeg
  <2>4. QED
    BY <1>4, <2>2, <2>3 DEF IndexLeg
<1>5. CASE LinkSibling(s)
  <2>1. submit' \in [Submissions -> SubmitType]
    BY <1>5, <1>t DEF LinkSibling, SetSubmit, SubmitType
  <2>2. ASSUME NEW e \in EntryType
        PROVE  [e EXCEPT !.sibling = TRUE] \in EntryType
               /\ [e EXCEPT !.sibling = TRUE].orders = e.orders
    BY DEF EntryType
  <2>3. entry' \in [Placeholders -> EntryType] /\ OrdersFinite'
    BY <1>5, <2>2 DEF LinkSibling
  <2>4. QED
    BY <1>5, <2>1, <2>3 DEF LinkSibling
<1>6. CASE TakeBufferedFill(s)
  <2>1. submit' \in [Submissions -> SubmitType]
    BY <1>6, <1>t, <1>p DEF TakeBufferedFill, SetSubmit, SubmitType
  <2>2. unmatched' \in [Primaries -> 0 .. Total]
    BY <1>6, ZeroIsQty DEF TakeBufferedFill
  <2>3. QED
    BY <1>6, <2>1, <2>2 DEF TakeBufferedFill
<1>7. CASE ReplayFill(s)
  <2>1. submit' \in [Submissions -> SubmitType]
    BY <1>7, <1>t, ZeroIsQty DEF ReplayFill, SetSubmit, SubmitType
  <2>2. submit[s].q \in 0 .. Total
    BY <1>t DEF SubmitType
  <2>3. job' \in JobType /\ JobShape'
    BY <1>7, <1>p, <2>2, BeginJobType DEF ReplayFill
  <2>4. QED
    BY <1>7, <2>1, <2>3 DEF ReplayFill
<1>8. QED
  BY <1>1, <1>2, <1>3, <1>4, <1>5, <1>6, <1>7 DEF SubmitStep

\* The job at a leg of its list.
LEMMA JobAtLeg ==
  ASSUME TInv, job.pc # "idle", job.todo # {}
  PROVE  /\ First(job.todo) \in job.todo
         /\ JobPlaceholder \in Placeholders
         /\ entry[JobPlaceholder] \in EntryType
         /\ IsFiniteSet(entry[JobPlaceholder].orders)
         /\ NextLeg \in JobType
         /\ NextLeg.pc = "legs" /\ NextLeg.p = job.p /\ NextLeg.q = job.q
         /\ NextLeg.todo = job.todo \ {First(job.todo)}
<1>1. /\ job.p \in Primaries /\ job.todo \in SUBSET Legs /\ job.q \in 0 .. Total
      /\ job.by \in Submissions \cup {"router"}
  BY DEF TInv, TypeOK, JobShape, JobType
<1>2. First(job.todo) \in job.todo
  BY <1>1, FirstIsLeg
<1>3. JobPlaceholder \in Placeholders
  BY <1>1, <1>2 DEF JobPlaceholder, Placeholders
<1>4. entry[JobPlaceholder] \in EntryType /\ IsFiniteSet(entry[JobPlaceholder].orders)
  BY <1>3 DEF TInv, TypeOK, OrdersFinite
<1>5. NextLeg \in JobType
  BY <1>1, ZeroIsQty DEF NextLeg, Idle, JobType
<1>6. /\ NextLeg.pc = "legs" /\ NextLeg.p = job.p /\ NextLeg.q = job.q
      /\ NextLeg.todo = job.todo \ {First(job.todo)}
  BY DEF NextLeg, Idle
<1>7. QED
  BY <1>2, <1>3, <1>4, <1>5, <1>6

LEMMA AcceptedType ==
  ASSUME TInv, job.pc = "submit"
  PROVE  Accepted \in SUBSET OrderType
<1>1. JobPlaceholder \in Placeholders
  BY JobAtLeg DEF TInv, JobShape
<1>2. job.n \in Nat /\ job.qty \in Nat \ {0}
  BY DEF TInv, TypeOK, JobType, JobShape
<1>3. NewOrder \in OrderType
  BY <1>1, <1>2 DEF NewOrder, OrderType
<1>4. QED
  BY <1>3 DEF Accepted, TInv, TypeOK

LEMMA RecordPlacedType ==
  ASSUME TInv, NEW e \in EntryType, IsFiniteSet(e.orders)
  PROVE  RecordPlaced(e) \in EntryType /\ IsFiniteSet(RecordPlaced(e).orders)
<1>1. job.n \in Nat /\ job.qty \in Nat /\ job.q \in 0 .. Total
  BY DEF TInv, TypeOK, JobType
<1>2. e.orders \in SUBSET Nat /\ e.covered \in Nat
  BY DEF EntryType
<1>3. IsFiniteSet({job.n}) /\ IsFiniteSet(e.orders \cup {job.n})
  BY FS_Singleton, FS_Union
<1>4. e.covered + job.qty \in Nat
  BY <1>1, <1>2, SMTT(30)
<1>5. CASE e.status = "PartiallyTriggered" \/ (e.status = "Pending" /\ job.q < Total)
  BY <1>1, <1>2, <1>3, <1>4, <1>5 DEF RecordPlaced, EntryType, EntryStatus
<1>6. CASE /\ ~(e.status = "PartiallyTriggered" \/ (e.status = "Pending" /\ job.q < Total))
           /\ e.status # "PartiallyTriggered" /\ job.q = Total
  BY <1>1, <1>2, <1>3, <1>6 DEF RecordPlaced, EntryType, EntryStatus
<1>7. CASE /\ ~(e.status = "PartiallyTriggered" \/ (e.status = "Pending" /\ job.q < Total))
           /\ ~(e.status # "PartiallyTriggered" /\ job.q = Total)
  BY <1>7 DEF RecordPlaced
<1>8. QED
  BY <1>5, <1>6, <1>7

LEMMA TypeFill ==
  ASSUME TInv, FillStep
  PROVE  TInv'
<1> USE DEF TInv, TypeOK, OrdersFinite, JobShape, handlerMaps, history
<1>t. /\ job \in JobType /\ job.todo \in SUBSET Legs /\ job.q \in 0 .. Total
      /\ job.by \in Submissions \cup {"router"}
  BY DEF JobType
<1>1. CASE BufferUnmatchedFill
  <2>1. PICK gone \in SUBSET {p \in Primaries \ {job.p} : unmatched[p] # 0} :
          /\ unmatched' = [p \in Primaries |-> IF p = job.p THEN job.q
                                               ELSE IF p \in gone THEN 0 ELSE unmatched[p]]
          /\ lost' = lost \cup gone \cup (IF unmatched[job.p] > job.q THEN {job.p} ELSE {})
    BY <1>1 DEF BufferUnmatchedFill
  <2>2. unmatched' \in [Primaries -> 0 .. Total]
    BY <2>1, <1>t, ZeroIsQty
  <2>3. lost' \in SUBSET Primaries
    BY <2>1, <1>1 DEF BufferUnmatchedFill
  <2>4. job' \in JobType /\ JobShape'
    BY <1>1 DEF BufferUnmatchedFill, JobType
  <2>5. QED
    BY <1>1, <2>2, <2>3, <2>4 DEF BufferUnmatchedFill
<1>2. CASE ReclaimFill
  <2>1. index[job.p] \in SUBSET Legs
    BY <1>2 DEF ReclaimFill
  <2>2. unmatched' \in [Primaries -> 0 .. Total]
    BY <1>2, ZeroIsQty DEF ReclaimFill
  <2>3. job' \in JobType /\ JobShape'
    BY <1>2, <2>1 DEF ReclaimFill, JobType
  <2>4. QED
    BY <1>2, <2>2, <2>3 DEF ReclaimFill
<1>3. CASE ProcessEntryFill
  <2> DEFINE e == entry[JobPlaceholder]
             want == ExitQuantity(e, job.q)
  <2>1. /\ JobPlaceholder \in Placeholders /\ e \in EntryType /\ IsFiniteSet(e.orders)
        /\ NextLeg \in JobType /\ NextLeg.pc = "legs" /\ NextLeg.p = job.p
    BY <1>3, JobAtLeg DEF ProcessEntryFill
  <2>2. [e EXCEPT !.last = job.q] \in EntryType /\ [e EXCEPT !.last = job.q].orders = e.orders
    BY <2>1, <1>t DEF EntryType
  <2>3. entry' \in [Placeholders -> EntryType] /\ OrdersFinite'
    BY <1>3, <2>1, <2>2 DEF ProcessEntryFill
  <2>4. CASE job' = NextLeg
    BY <1>3, <2>1, <2>3, <2>4 DEF ProcessEntryFill
  <2>5. CASE /\ ~(want < MinQty)
             /\ job' = [job EXCEPT !.pc = "submit", !.qty = want,
                                   !.n = Cardinality(e.orders), !.attempt = 0]
    <3>1. Cardinality(e.orders) \in Nat
      BY <2>1, FS_CardinalityType
    <3>2. e.covered \in Nat
      BY <2>1 DEF EntryType
    <3>3. want \in Nat \ {0}
      BY <2>5, <3>2, <1>t, ConfigAssumption, SMTT(30) DEF ExitQuantity
    <3>4. job' \in JobType /\ job'.qty = want /\ job'.pc = "submit"
          /\ job'.p = job.p /\ job'.todo = job.todo
      BY <2>5, <3>1, <3>3, ZeroIsQty DEF JobType
    <3>5. QED
      BY <1>3, <2>3, <3>3, <3>4 DEF ProcessEntryFill
  <2>6. QED
    BY <1>3, <2>4, <2>5 DEF ProcessEntryFill, Held
<1>4. CASE PlaceOk
  <2>1. Accepted \in SUBSET OrderType
    BY <1>4, AcceptedType DEF PlaceOk
  <2>2. PICK v \in {job.qty} \cup {o.qty : o \in Accepted} :
               job' = [job EXCEPT !.pc = "record", !.qty = v]
    BY <1>4 DEF PlaceOk
  <2>3. v \in Nat
    BY <2>1, <2>2, SMTT(30) DEF OrderType, JobType
  <2>4. job' \in JobType /\ JobShape'
    BY <1>4, <2>2, <2>3 DEF PlaceOk, JobType
  <2>5. QED
    BY <1>4, <2>1, <2>4 DEF PlaceOk
<1>5. CASE PlaceRetry
  <2>1. broker' \in SUBSET OrderType
    BY <1>5, AcceptedType DEF PlaceRetry
  <2>2. job.attempt \in 0 .. Retries
    BY DEF JobType
  <2>3. job.attempt + 1 \in 0 .. Retries
    BY <1>5, <2>2, ConfigAssumption, SMTT(30) DEF PlaceRetry
  <2>4. job' \in JobType /\ JobShape'
    BY <1>5, <2>3 DEF PlaceRetry, JobType
  <2>5. QED
    BY <1>5, <2>1, <2>4 DEF PlaceRetry
<1>6. CASE PlaceDeferred
  BY <1>6, JobAtLeg DEF PlaceDeferred
<1>7. CASE PlaceFailed
  <2> DEFINE e == entry[JobPlaceholder]
  <2>1. /\ JobPlaceholder \in Placeholders /\ e \in EntryType
        /\ NextLeg \in JobType /\ NextLeg.pc = "legs" /\ NextLeg.p = job.p
    BY <1>7, JobAtLeg DEF PlaceFailed
  <2>2. broker' \in SUBSET OrderType
    BY <1>7, AcceptedType DEF PlaceFailed
  <2>3. breaker' \in [failures : Nat, open : BOOLEAN]
    <3>1. CASE \E kept \in 0 .. breaker.failures : breaker' = RecordFailure(kept)
      <4>1. PICK kept \in 0 .. breaker.failures : breaker' = RecordFailure(kept)
        BY <3>1
      <4>2. kept + 1 \in Nat /\ breaker.open \in BOOLEAN
        BY SMTT(30)
      <4>3. QED
        BY <4>1, <4>2 DEF RecordFailure
    <3>2. QED
      BY <1>7, <3>1 DEF PlaceFailed
  <2>4. [e EXCEPT !.status = "Failed"] \in EntryType
        /\ [e EXCEPT !.status = "Failed"].orders = e.orders
    BY <2>1 DEF EntryType, EntryStatus
  <2>5. entry' \in [Placeholders -> EntryType] /\ OrdersFinite'
    BY <1>7, <2>1, <2>4 DEF PlaceFailed
  <2>6. QED
    BY <1>7, <2>1, <2>2, <2>3, <2>5 DEF PlaceFailed
<1>8. CASE HandleSuccessfulPlacement
  <2> DEFINE e == entry[JobPlaceholder]
  <2>1. /\ JobPlaceholder \in Placeholders /\ e \in EntryType /\ IsFiniteSet(e.orders)
        /\ NextLeg \in JobType /\ NextLeg.pc = "legs" /\ NextLeg.p = job.p
    BY <1>8, JobAtLeg DEF HandleSuccessfulPlacement
  <2>2. RecordPlaced(e) \in EntryType /\ IsFiniteSet(RecordPlaced(e).orders)
    BY <2>1, RecordPlacedType
  <2>3. entry' \in [Placeholders -> EntryType] /\ OrdersFinite'
    BY <1>8, <2>1, <2>2 DEF HandleSuccessfulPlacement
  <2>4. QED
    BY <1>8, <2>1, <2>3 DEF HandleSuccessfulPlacement
<1>9. CASE EndFill
  <2>1. submit' \in [Submissions -> SubmitType]
    <3>1. CASE job.by = "router"
      BY <1>9, <3>1 DEF EndFill
    <3>2. CASE job.by # "router"
      BY <1>9, <1>t, <3>2, SMTT(30) DEF EndFill, SubmitType
    <3>3. QED
      BY <3>1, <3>2
  <2>2. QED
    BY <1>9, <2>1, IdleType DEF EndFill
<1>10. ASSUME NEW n \in job.cancels, CancelSiblingOrder(n) PROVE TInv'
  <2>1. AfterCancel(JobPlaceholder, n) \in SUBSET OrderType
    BY AfterCancelType
  <2>2. job.pc = "cancel" /\ job.cancels \ {n} \in SUBSET Nat
    BY <1>10 DEF CancelSiblingOrder, JobType
  <2>3. CASE job' = [job EXCEPT !.cancels = @ \ {n}]
    BY <1>10, <2>1, <2>2, <2>3 DEF CancelSiblingOrder, JobType
  <2>4. CASE job' = [job EXCEPT !.cancels = @ \ {n}, !.ok = FALSE]
    BY <1>10, <2>1, <2>2, <2>4 DEF CancelSiblingOrder, JobType
  <2>5. QED
    BY <1>10, <2>3, <2>4 DEF CancelSiblingOrder
<1>11. CASE SiblingCancelled
  <2>1. NoEntry \in EntryType /\ NoEntry.orders = {}
    BY NoEntryType
  <2>2. entry' \in [Placeholders -> EntryType] /\ OrdersFinite'
    BY <1>11, <2>1, FS_EmptySet DEF SiblingCancelled
  <2>3. index' \in [Primaries -> SUBSET Legs]
    BY <1>11 DEF SiblingCancelled
  <2>4. QED
    BY <1>11, <2>2, <2>3, IdleType DEF SiblingCancelled
<1>12. QED
  BY <1>1, <1>2, <1>3, <1>4, <1>5, <1>6, <1>7, <1>8, <1>9, <1>10, <1>11 DEF FillStep

LEMMA CloseNextType ==
  ASSUME TypeOK, NEW todo \in SUBSET [ph : Placeholders, orders : SUBSET Nat],
         CloseNext(todo)
  PROVE  closer' \in CloserType
<1>1. CASE todo = {}
  BY <1>1, SMTT(30) DEF CloseNext, NotClosing, CloserType
<1>2. CASE todo # {}
  BY <1>2, SMTT(30) DEF CloseNext, CloserType
<1>3. QED
  BY <1>1, <1>2

LEMMA RemoveEntriesType ==
  ASSUME TInv, NEW gone, RemoveEntries(gone)
  PROVE  /\ entry' \in [Placeholders -> EntryType] /\ OrdersFinite'
         /\ index' \in [Primaries -> SUBSET Legs]
BY NoEntryType, FS_EmptySet DEF RemoveEntries, TInv, TypeOK, OrdersFinite

LEMMA TypeClose ==
  ASSUME TInv, CloseStep
  PROVE  TInv'
<1> USE DEF TInv, TypeOK, OrdersFinite, JobShape, handlerMaps, history
<1>t. /\ closer.orders \in SUBSET Nat
      /\ closer.todo \in SUBSET [ph : Placeholders, orders : SUBSET Nat]
  BY DEF CloserType
<1>1. ASSUME NEW n \in closer.orders, CloseCancelOrder(n) PROVE TInv'
  <2>1. AfterCancel(closer.ph, n) \in SUBSET OrderType
    BY AfterCancelType
  <2>2. closer' \in CloserType
    BY <1>1, <1>t DEF CloseCancelOrder, CloserType
  <2>3. QED
    BY <1>1, <2>1, <2>2 DEF CloseCancelOrder
<1>2. CASE CloseMarkCancelled
  <2> DEFINE e == entry[closer.ph]
             c == [e EXCEPT !.status = "Cancelled", !.orders = {}, !.covered = 0]
  <2>1. closer' \in CloserType
    BY <1>2, <1>t, CloseNextType DEF CloseMarkCancelled
  <2>2. ASSUME closer.ph \in Placeholders PROVE c \in EntryType /\ c.orders = {}
    <3>1. e \in EntryType
      BY <2>2
    <3>2. QED
      BY <3>1 DEF EntryType, EntryStatus
  <2>3. entry' = IF Present(e) THEN [entry EXCEPT ![closer.ph] = c] ELSE entry
    BY <1>2 DEF CloseMarkCancelled
  <2>4. entry' \in [Placeholders -> EntryType] /\ OrdersFinite'
    <3>1. CASE closer.ph \in Placeholders
      BY <3>1, <2>2, <2>3, FS_EmptySet
    <3>2. CASE closer.ph \notin Placeholders
      BY <3>2, <2>3
    <3>3. QED
      BY <3>1, <3>2
  <2>5. QED
    BY <1>2, <2>1, <2>4 DEF CloseMarkCancelled
<1>3. QED
  BY <1>1, <1>2 DEF CloseStep

LEMMA TypeEvents ==
  ASSUME TInv,
         \/ \E p \in Primaries : BrokerFillPrimary(p) \/ RouterFill(p)
         \/ \E ph \in Placeholders : ExitLegFilled(ph)
  PROVE  TInv'
<1> USE DEF TInv, TypeOK, OrdersFinite, JobShape, handlerMaps, history
<1>1. ASSUME NEW p \in Primaries, BrokerFillPrimary(p) PROVE TInv'
  <2>1. PICK q \in (filled[p] + 1) .. Total : filled' = [filled EXCEPT ![p] = q]
    BY <1>1 DEF BrokerFillPrimary
  <2>2. q \in 0 .. Total
    BY <2>1, ConfigAssumption, SMTT(30)
  <2>3. QED
    BY <1>1, <2>1, <2>2 DEF BrokerFillPrimary
<1>2. ASSUME NEW p \in Primaries, RouterFill(p) PROVE TInv'
  <2>1. PICK q \in 1 .. filled[p] :
          /\ BeginJob("router", p, q)
          /\ delivered' = [delivered EXCEPT ![p] = IF q > @ THEN q ELSE @]
    BY <1>2 DEF RouterFill
  <2>2. q \in 0 .. Total
    BY <2>1, ConfigAssumption, SMTT(30)
  <2>3. job' \in JobType /\ JobShape'
    BY <2>1, <2>2, BeginJobType
  <2>4. delivered' \in [Primaries -> 0 .. Total]
    BY <2>1, <2>2
  <2>5. QED
    BY <1>2, <2>3, <2>4 DEF RouterFill
<1>3. ASSUME NEW ph \in Placeholders, ExitLegFilled(ph) PROVE TInv'
  <2> DEFINE sib == Sibling(ph)
  <2>1. ph[1] \in Primaries /\ sib \in Placeholders /\ sib[2] \in Legs
    BY DEF Placeholders, Sibling, Legs
  <2>2. entry[sib].orders \in SUBSET Nat
    BY <2>1 DEF EntryType
  <2>3. entry' \in [Placeholders -> EntryType] /\ OrdersFinite'
    BY <1>3, NoEntryType, FS_EmptySet DEF ExitLegFilled
  <2>4. index' \in [Primaries -> SUBSET Legs]
    BY <1>3 DEF ExitLegFilled
  <2>5. CASE job' = Idle
    BY <1>3, <2>3, <2>4, <2>5, IdleType DEF ExitLegFilled
  <2>6. CASE job' = [Idle EXCEPT !.pc = "cancel", !.p = ph[1], !.todo = {sib[2]},
                                 !.cancels = entry[sib].orders]
    <3>1. job' \in JobType /\ JobShape'
      BY <2>1, <2>2, <2>6, ZeroIsQty DEF Idle, JobType
    <3>2. QED
      BY <1>3, <2>3, <2>4, <3>1 DEF ExitLegFilled
  <2>7. QED
    BY <1>3, <2>5, <2>6 DEF ExitLegFilled
<1>4. QED
  BY <1>1, <1>2, <1>3

LEMMA TypeDisturbance ==
  ASSUME TInv, Disturbance
  PROVE  TInv'
<1> USE DEF TInv, TypeOK, OrdersFinite, JobShape, handlerMaps, history
<1>1. ASSUME NEW o \in broker, BrokerFillExit(o) PROVE TInv'
  <2>1. [o EXCEPT !.state = "filled"] \in OrderType
    BY DEF OrderType
  <2>2. QED
    BY <1>1, <2>1 DEF BrokerFillExit, Moved
<1>2. ASSUME NEW sym \in Symbols, ClosePosition(sym) PROVE TInv'
  <2> DEFINE found == {ph \in Placeholders : SymbolOf[ph[1]] = sym /\ ToCancel(entry[ph])}
             todo == {[ph |-> ph, orders |-> entry[ph].orders] : ph \in found}
  <2>1. todo \in SUBSET [ph : Placeholders, orders : SUBSET Nat]
    BY SMTT(30) DEF EntryType
  <2>2. closer' \in CloserType
    BY <1>2, <2>1, CloseNextType DEF ClosePosition
  <2>3. QED
    BY <1>2, <2>2 DEF ClosePosition
<1>3. ASSUME NEW p \in Primaries, HandleCancellation(p) PROVE TInv'
  <2> DEFINE Gone(e) == [e EXCEPT !.status = "Cancelled", !.orders = {}, !.covered = 0]
  <2>1. ASSUME NEW e \in EntryType PROVE Gone(e) \in EntryType /\ Gone(e).orders = {}
    <3>1. 0 \in Nat /\ {} \in SUBSET Nat
      OBVIOUS
    <3>2. QED
      BY <3>1 DEF EntryType, EntryStatus
  <2>2. entry' \in [Placeholders -> EntryType] /\ OrdersFinite'
    <3>1. \A ph \in Placeholders : entry'[ph] = entry[ph] \/ entry'[ph] = Gone(entry[ph])
      BY <1>3 DEF HandleCancellation
    <3>2. entry' = [ph \in Placeholders |-> entry'[ph]]
      BY <1>3 DEF HandleCancellation
    <3>3. \A ph \in Placeholders : entry[ph] \in EntryType /\ IsFiniteSet(entry[ph].orders)
      OBVIOUS
    <3> HIDE DEF Gone
    <3>4. \A ph \in Placeholders : entry'[ph] \in EntryType /\ IsFiniteSet(entry'[ph].orders)
      BY <2>1, <3>1, <3>3, FS_EmptySet
    <3>5. entry' \in [Placeholders -> EntryType]
      BY <3>2, <3>4
    <3>6. QED
      BY <3>4, <3>5
  <2>3. index' \in [Primaries -> SUBSET Legs]
    BY <1>3 DEF HandleCancellation
  <2>4. QED
    BY <1>3, <2>2, <2>3 DEF HandleCancellation
<1>4. CASE ClearFailedEntries
  BY <1>4, RemoveEntriesType DEF ClearFailedEntries
<1>5. CASE CleanupExpiredEntries
  BY <1>5, RemoveEntriesType DEF CleanupExpiredEntries
<1>6. CASE ResetCircuitBreaker
  BY <1>6 DEF ResetCircuitBreaker
<1>7. CASE BufferForeignFill
  <2>1. PICK gone \in SUBSET {p \in Primaries : unmatched[p] # 0} :
          /\ unmatched' = [p \in Primaries |-> IF p \in gone THEN 0 ELSE unmatched[p]]
          /\ lost' = lost \cup gone
    BY <1>7 DEF BufferForeignFill
  <2>2. unmatched' \in [Primaries -> 0 .. Total] /\ lost' \in SUBSET Primaries
    BY <2>1, ZeroIsQty
  <2>3. QED
    BY <1>7, <2>2 DEF BufferForeignFill
<1>8. QED
  BY <1>1, <1>2, <1>3, <1>4, <1>5, <1>6, <1>7 DEF Disturbance

LEMMA TypeHangUp ==
  ASSUME TInv, HangUp
  PROVE  TInv'
<1> USE DEF TInv, TypeOK, OrdersFinite, JobShape, handlerMaps, history
<1>1. ASSUME NEW s \in Submissions, ClientGone(s) PROVE TInv'
  <2>1. submit' \in [Submissions -> SubmitType]
    BY <1>1, ZeroIsQty DEF ClientGone, SetSubmit, SubmitType
  <2>2. lost' \in SUBSET Primaries
    BY <1>1, SubmissionAssumption DEF ClientGone
  <2>3. QED
    BY <1>1, <2>1, <2>2 DEF ClientGone
<1>2. ASSUME NEW s \in Submissions, ReplayDropped(s) PROVE TInv'
  <2>1. submit' \in [Submissions -> SubmitType]
    BY <1>2 DEF ReplayDropped, SetSubmit, SubmitType
  <2>2. broker' \in SUBSET OrderType
    BY <1>2, AcceptedType DEF ReplayDropped
  <2>3. job' \in JobType /\ job'.pc = "idle"
    BY <1>2, IdleType DEF ReplayDropped
  <2>4. QED
    BY <1>2, <2>1, <2>2, <2>3 DEF ReplayDropped
<1>3. QED
  BY <1>1, <1>2 DEF HangUp

LEMMA TypeNext == TInv /\ [Next]_vars => TInv'
<1> SUFFICES ASSUME TInv, [Next]_vars PROVE TInv'
  OBVIOUS
<1>1. CASE Trading
  BY <1>1, TypeSubmit, TypeFill, TypeClose, TypeEvents DEF Trading
<1>2. CASE Disturbance
  BY <1>2, TypeDisturbance
<1>3. CASE UNCHANGED vars
  BY <1>3 DEF vars, TInv, TypeOK, OrdersFinite, JobShape
<1>4. CASE HangUp
  BY <1>4, TypeHangUp
<1>5. QED
  BY <1>1, <1>2, <1>3, <1>4 DEF Next

\* Type correctness of the exit handler: whatever the interleaving of
\* submissions, fills, closes and clean-ups, the maps, the fill job and the
\* position-close task keep their shape.
THEOREM TypeCorrect == Spec => []TypeOK
<1>1. TInv => TypeOK
  BY DEF TInv
<1>2. QED
  BY TypeInit, TypeNext, <1>1, PTL DEF Spec

\* The quantities a leg was attempted for are numbers.
LEMMA LastIsQty ==
  ASSUME TypeOK, NEW ph \in Placeholders
  PROVE  entry[ph].last \in Int /\ entry[ph].last >= 0
<1>1. entry[ph] \in EntryType
  BY DEF TypeOK
<1>2. entry[ph].last \in 0 .. Total
  BY <1>1 DEF EntryType
<1>3. QED
  BY <1>2, ConfigAssumption, SMTT(30)

LEMMA LastIsQtyNext ==
  ASSUME TypeOK', NEW ph \in Placeholders
  PROVE  entry'[ph].last \in Int
<1>1. entry'[ph] \in EntryType
  BY DEF TypeOK
<1>2. entry'[ph].last \in 0 .. Total
  BY <1>1 DEF EntryType
<1>3. QED
  BY <1>2, ConfigAssumption, SMTT(30)

LEMMA DeliveredIsQty ==
  ASSUME TypeOK, NEW p \in Primaries
  PROVE  /\ delivered[p] \in Int /\ 0 <= delivered[p] /\ delivered[p] <= Total
         /\ filled[p] \in Int /\ unmatched[p] \in Int
<1>1. delivered[p] \in 0 .. Total /\ filled[p] \in 0 .. Total /\ unmatched[p] \in 0 .. Total
  BY DEF TypeOK
<1>2. QED
  BY <1>1, ConfigAssumption, SMTT(30)

LEMMA JobIsQty ==
  ASSUME TypeOK
  PROVE  job.q \in Int
<1>1. job.q \in 0 .. Total
  BY DEF TypeOK, JobType
<1>2. QED
  BY <1>1, ConfigAssumption, SMTT(30)

\* A leg that was attempted for enough stays so when its attempts only grow.
LEMMA StillEnough ==
  ASSUME NEW a \in Int, NEW b \in Int, NEW c \in Int, a >= b, b >= c
  PROVE  a >= c
BY SMTT(30)

-----------------------------------------------------------------------------
(* No fill is stranded. *)

\* The provider answers each submission with an order of its own.
UniqueSubmission ==
  \A s, t \in Submissions : PrimaryOf[s] = PrimaryOf[t] => s = t

FirstLegOf(p) == <<p, First(LegsOf[p])>>

\* The legs a submission has still to index.
ToRegister(s) ==
  IF submit[s].pc \in {"idle", "sent"} THEN LegsOf[PrimaryOf[s]]
  ELSE IF submit[s].pc \in {"register", "index"} THEN submit[s].todo
  ELSE {}

BeforeFirst(s) == First(LegsOf[PrimaryOf[s]]) \in ToRegister(s)

BeforeReplay(s) == submit[s].pc \in {"idle", "sent", "register", "index", "link", "replay"}

\* The job works on the legs of a fill.
Filling == job.pc \notin {"idle", "cancel"}

\* The first leg is indexed first, and a leg that is not indexed yet, or not
\* asked for, is not in the hands of a fill.
RegistrationOrder ==
  \A s \in Submissions :
    LET p == PrimaryOf[s]
    IN  /\ ToRegister(s) \subseteq LegsOf[p]
        /\ BeforeFirst(s) => ToRegister(s) = LegsOf[p]
        /\ index[p] \subseteq LegsOf[p] \ ToRegister(s)
        /\ Filling /\ job.p = p => job.todo \subseteq LegsOf[p] \ ToRegister(s)

\* A leg under placement has its attempted quantity set already, a fill put
\* into the buffer is still the job's own when it is reclaimed, and a
\* submission whose fill is the job's is replaying.
JobConsistent ==
  /\ job.pc \in {"submit", "record"} /\ Present(entry[JobPlaceholder])
       => entry[JobPlaceholder].last >= job.q
  /\ job.pc = "reclaim" => unmatched[job.p] \in {0, job.q}
  /\ job.pc # "idle" /\ job.by # "router" => submit[job.by].pc = "replaying"

\* The legs the job has still to process.
JobLegs == IF job.pc = "legs" THEN job.todo
           ELSE IF job.pc \in {"submit", "record"} THEN job.todo \ {First(job.todo)}
           ELSE {}

\* Where the largest delivered fill can be: attempted already, in the buffer
\* ahead of the replay, with the replay, or with the job.
Attempted(s) ==
  LET f == FirstLegOf(PrimaryOf[s])
  IN  Live(f) /\ entry[f].last >= delivered[PrimaryOf[s]]

Buffered(s) == BeforeReplay(s) /\ unmatched[PrimaryOf[s]] >= delivered[PrimaryOf[s]]

AwaitsLock(s) == submit[s].pc = "waiting" /\ submit[s].q >= delivered[PrimaryOf[s]]

InJob(s) ==
  LET p == PrimaryOf[s]
  IN  /\ job.p = p /\ job.q >= delivered[p]
      /\ \/ job.pc = "unmatched"
         \/ job.pc = "reclaim" /\ unmatched[p] >= delivered[p]
         \/ First(LegsOf[p]) \in JobLegs

Carried(s) == Attempted(s) \/ Buffered(s) \/ AwaitsLock(s) \/ InJob(s)

\* The first leg has still to see the delivered fill, or has it tracked.
Owed(s) ==
  LET p == PrimaryOf[s]
  IN  /\ LegsOf[p] # {} /\ p \notin lost /\ delivered[p] > 0
      /\ BeforeFirst(s) \/ Live(FirstLegOf(p))

\* A delivered fill is never nowhere.
FillCarried == \A s \in Submissions : Owed(s) => Carried(s)

IInv == TInv /\ RegistrationOrder /\ JobConsistent /\ FillCarried

-----------------------------------------------------------------------------
\* What a step other than an insertion does to the maps: they only shrink, and
\* the attempted quantity of an entry only grows.
MapsShrink ==
  /\ \A ph \in Placeholders :
       Present(entry'[ph]) => Present(entry[ph]) /\ entry'[ph].last >= entry[ph].last
  /\ \A p \in Primaries : index'[p] \subseteq index[p]

\* Where the legs of a job come from.
JobLegsKnown ==
  Filling' =>
    \A l \in job'.todo :
      \/ Filling /\ job'.p = job.p /\ l \in job.todo
      \/ l \in index[job'.p]

LEMMA ShrinkFill ==
  ASSUME TInv, FillStep
  PROVE  MapsShrink /\ JobLegsKnown
<1> USE DEF MapsShrink, JobLegsKnown, Filling, handlerMaps, history
<1>t. TypeOK /\ JobShape /\ \A ph \in Placeholders : entry[ph].last >= entry[ph].last
  BY ConfigAssumption, SMTT(30) DEF TInv, TypeOK, EntryType
<1>1. CASE BufferUnmatchedFill
  BY <1>1, <1>t DEF BufferUnmatchedFill, TypeOK, JobType
<1>2. CASE ReclaimFill
  BY <1>2, <1>t DEF ReclaimFill, TypeOK, JobType
<1>3. CASE ProcessEntryFill
  <2>1. /\ JobPlaceholder \in Placeholders /\ NextLeg.p = job.p
        /\ NextLeg.todo \subseteq job.todo
    BY <1>3, JobAtLeg DEF ProcessEntryFill
  <2>2. \/ entry' = entry
        \/ /\ entry' = [entry EXCEPT ![JobPlaceholder].last = job.q]
           /\ job.q > entry[JobPlaceholder].last
    BY <1>3 DEF ProcessEntryFill, Eligible
  <2>q. job.q \in Int /\ \A ph \in Placeholders : entry[ph].last \in Int
    BY <1>t, ConfigAssumption, SMTT(30) DEF TypeOK, EntryType, JobType
  <2>3. \A ph \in Placeholders : /\ entry'[ph].status = entry[ph].status
                                 /\ entry'[ph].last >= entry[ph].last
    BY <2>1, <2>2, <2>q, <1>t, SMTT(30) DEF TypeOK, EntryType
  <2>4. job'.p = job.p /\ job'.todo \subseteq job.todo
    BY <1>3, <1>t, <2>1 DEF ProcessEntryFill, TypeOK, JobType
  <2>5. QED
    BY <1>3, <2>3, <2>4 DEF ProcessEntryFill, Present
<1>4. CASE PlaceOk
  BY <1>4, <1>t DEF PlaceOk, TypeOK, JobType
<1>5. CASE PlaceRetry
  BY <1>5, <1>t DEF PlaceRetry, TypeOK, JobType
<1>6. CASE PlaceDeferred
  BY <1>6, JobAtLeg, <1>t DEF PlaceDeferred, JobShape
<1>7. CASE PlaceFailed
  <2>1. /\ JobPlaceholder \in Placeholders /\ NextLeg.p = job.p
        /\ NextLeg.todo \subseteq job.todo
    BY <1>7, JobAtLeg, <1>t DEF PlaceFailed, JobShape
  <2>2. \A ph \in Placeholders : /\ Present(entry'[ph]) => Present(entry[ph])
                                 /\ entry'[ph].last = entry[ph].last
    BY <1>7, <2>1, <1>t DEF PlaceFailed, TypeOK, EntryType
  <2>3. QED
    BY <1>7, <1>t, <2>1, <2>2 DEF PlaceFailed
<1>8. CASE HandleSuccessfulPlacement
  <2>1. /\ JobPlaceholder \in Placeholders /\ NextLeg.p = job.p
        /\ NextLeg.todo \subseteq job.todo
    BY <1>8, JobAtLeg, <1>t DEF HandleSuccessfulPlacement, JobShape
  <2>r. ASSUME NEW e \in EntryType PROVE RecordPlaced(e).last = e.last
    BY DEF RecordPlaced, EntryType
  <2>2. \A ph \in Placeholders : /\ Present(entry'[ph]) => Present(entry[ph])
                                 /\ entry'[ph].last = entry[ph].last
    BY <1>8, <2>1, <2>r, <1>t DEF HandleSuccessfulPlacement, TypeOK
  <2>3. QED
    BY <1>8, <1>t, <2>1, <2>2 DEF HandleSuccessfulPlacement
<1>9. CASE EndFill
  BY <1>9, <1>t, IdleType DEF EndFill
<1>10. ASSUME NEW n \in job.cancels, CancelSiblingOrder(n) PROVE MapsShrink /\ JobLegsKnown
  BY <1>10, <1>t DEF CancelSiblingOrder, TypeOK, JobType
<1>11. CASE SiblingCancelled
  BY <1>11, <1>t, IdleType DEF SiblingCancelled, TypeOK, NoEntry, Present
<1>12. QED
  BY <1>1, <1>2, <1>3, <1>4, <1>5, <1>6, <1>7, <1>8, <1>9, <1>10, <1>11 DEF FillStep

LEMMA ShrinkEvents ==
  ASSUME TInv,
         \/ \E p \in Primaries : BrokerFillPrimary(p) \/ RouterFill(p)
         \/ \E ph \in Placeholders : ExitLegFilled(ph)
         \/ CloseStep \/ Disturbance
  PROVE  MapsShrink /\ JobLegsKnown
<1> USE DEF MapsShrink, JobLegsKnown, Filling, handlerMaps, history
<1>t. TypeOK /\ JobShape /\ \A ph \in Placeholders : entry[ph].last >= entry[ph].last
  BY ConfigAssumption, SMTT(30) DEF TInv, TypeOK, EntryType
<1>1. ASSUME NEW p \in Primaries, BrokerFillPrimary(p) PROVE MapsShrink /\ JobLegsKnown
  BY <1>1, <1>t DEF BrokerFillPrimary
<1>2. ASSUME NEW p \in Primaries, RouterFill(p) PROVE MapsShrink /\ JobLegsKnown
  <2>1. job'.p = p /\ job'.todo = index[p]
    BY <1>2 DEF RouterFill, BeginJob, Idle
  <2>2. QED
    BY <1>2, <1>t, <2>1 DEF RouterFill
<1>3. ASSUME NEW ph \in Placeholders, ExitLegFilled(ph) PROVE MapsShrink /\ JobLegsKnown
  <2>1. MapsShrink
    BY <1>3, <1>t DEF ExitLegFilled, TypeOK, NoEntry, Present
  <2>2. JobLegsKnown
    BY <1>3 DEF ExitLegFilled, Idle
  <2>3. QED
    BY <2>1, <2>2
<1>4. ASSUME NEW n \in closer.orders, CloseCancelOrder(n) PROVE MapsShrink /\ JobLegsKnown
  BY <1>4, <1>t DEF CloseCancelOrder
<1>5. CASE CloseMarkCancelled
  <2>1. \A ph \in Placeholders : /\ Present(entry'[ph]) => Present(entry[ph])
                                 /\ entry'[ph].last = entry[ph].last
    BY <1>5, <1>t, SMTT(30) DEF CloseMarkCancelled, TypeOK, EntryType
  <2>2. QED
    BY <1>5, <1>t, <2>1 DEF CloseMarkCancelled
<1>6. ASSUME NEW o \in broker, BrokerFillExit(o) PROVE MapsShrink /\ JobLegsKnown
  BY <1>6, <1>t DEF BrokerFillExit
<1>7. ASSUME NEW sym \in Symbols, ClosePosition(sym) PROVE MapsShrink /\ JobLegsKnown
  BY <1>7, <1>t DEF ClosePosition
<1>8. ASSUME NEW p \in Primaries, HandleCancellation(p) PROVE MapsShrink /\ JobLegsKnown
  <2>1. \A ph \in Placeholders : /\ Present(entry'[ph]) => Present(entry[ph])
                                 /\ entry'[ph].last = entry[ph].last
    BY <1>8, <1>t DEF HandleCancellation, TypeOK, EntryType, Present
  <2>2. QED
    BY <1>8, <1>t, <2>1 DEF HandleCancellation, TypeOK
<1>9. CASE ClearFailedEntries
  BY <1>9, <1>t DEF ClearFailedEntries, RemoveEntries, TypeOK, NoEntry, Present
<1>10. CASE CleanupExpiredEntries
  BY <1>10, <1>t, SMTT(30) DEF CleanupExpiredEntries, RemoveEntries, TypeOK, NoEntry, Present
<1>11. CASE ResetCircuitBreaker
  BY <1>11, <1>t DEF ResetCircuitBreaker
<1>12. CASE BufferForeignFill
  BY <1>12, <1>t DEF BufferForeignFill
<1>13. QED
  BY <1>1, <1>2, <1>3, <1>4, <1>5, <1>6, <1>7, <1>8, <1>9, <1>10, <1>11, <1>12
     DEF CloseStep, Disturbance

LEMMA ShrinkSubmit ==
  ASSUME TInv, NEW t \in Submissions, SubmitStep(t), ~RegisterLeg(t), ~IndexLeg(t)
  PROVE  MapsShrink /\ JobLegsKnown
<1> USE DEF MapsShrink, JobLegsKnown, Filling, handlerMaps, history
<1>t. TypeOK /\ \A ph \in Placeholders : entry[ph].last >= entry[ph].last
  BY ConfigAssumption, SMTT(30) DEF TInv, TypeOK, EntryType
<1>1. CASE LinkSibling(t)
  <2>1. \A ph \in Placeholders : /\ entry'[ph].status = entry[ph].status
                                 /\ entry'[ph].last = entry[ph].last
    BY <1>1, <1>t, SMTT(30) DEF LinkSibling, TypeOK, EntryType
  <2>2. QED
    BY <1>1, <2>1, <1>t DEF LinkSibling, Present
<1>2. CASE ReplayFill(t)
  <2>1. job'.p = PrimaryOf[t] /\ job'.todo = index[PrimaryOf[t]]
    BY <1>2 DEF ReplayFill, BeginJob, Idle
  <2>2. QED
    BY <1>2, <2>1, <1>t DEF ReplayFill
<1>3. CASE SubmitOrder(t) \/ RegisterPendingExits(t) \/ TakeBufferedFill(t)
  BY <1>3, <1>t DEF SubmitOrder, RegisterPendingExits, TakeBufferedFill
<1>4. QED
  BY <1>1, <1>2, <1>3 DEF SubmitStep

LEMMA ShrinkHangUp ==
  ASSUME TInv, HangUp
  PROVE  MapsShrink /\ JobLegsKnown
<1> USE DEF MapsShrink, JobLegsKnown, Filling, handlerMaps, history
<1>t. \A ph \in Placeholders : entry[ph].last >= entry[ph].last
  BY ConfigAssumption, SMTT(30) DEF TInv, TypeOK, EntryType
<1>1. ASSUME NEW s \in Submissions, ClientGone(s) PROVE MapsShrink /\ JobLegsKnown
  BY <1>1, <1>t DEF ClientGone
<1>2. ASSUME NEW s \in Submissions, ReplayDropped(s) PROVE MapsShrink /\ JobLegsKnown
  BY <1>2, <1>t, IdleType DEF ReplayDropped
<1>3. QED
  BY <1>1, <1>2 DEF HangUp

LEMMA OrderInit == Init => RegistrationOrder
BY SubmissionAssumption, LegsAssumption, SMTT(30)
   DEF Init, RegistrationOrder, ToRegister, BeforeFirst, Filling, Idle

\* A step that leaves the submissions alone, or moves one of them on without
\* indexing, keeps the order.
LEMMA OrderShrink ==
  ASSUME TInv, RegistrationOrder, \A p \in Primaries : index'[p] \subseteq index[p],
         JobLegsKnown,
         \A s \in Submissions : ToRegister(s)' \in {ToRegister(s), {}}
  PROVE  RegistrationOrder'
<1> SUFFICES ASSUME NEW s \in Submissions
             PROVE  LET p == PrimaryOf[s]
                    IN  /\ ToRegister(s)' \subseteq LegsOf[p]
                        /\ BeforeFirst(s)' => ToRegister(s)' = LegsOf[p]
                        /\ index'[p] \subseteq LegsOf[p] \ ToRegister(s)'
                        /\ Filling' /\ job'.p = p
                             => job'.todo \subseteq LegsOf[p] \ ToRegister(s)'
  BY DEF RegistrationOrder
<1> DEFINE p == PrimaryOf[s]
<1>1. p \in Primaries
  BY SubmissionAssumption
<1>2. /\ ToRegister(s) \subseteq LegsOf[p]
      /\ BeforeFirst(s) => ToRegister(s) = LegsOf[p]
      /\ index[p] \subseteq LegsOf[p] \ ToRegister(s)
      /\ Filling /\ job.p = p => job.todo \subseteq LegsOf[p] \ ToRegister(s)
  BY DEF RegistrationOrder
<1>3. ToRegister(s)' \subseteq ToRegister(s)
  OBVIOUS
<1>4. BeforeFirst(s)' => ToRegister(s)' = LegsOf[p]
  BY <1>2 DEF BeforeFirst
<1>5. index'[p] \subseteq index[p]
  BY <1>1
<1>6. Filling' /\ job'.p = p => job'.todo \subseteq LegsOf[p] \ ToRegister(s)
  BY <1>2 DEF JobLegsKnown
<1>7. QED
  BY <1>2, <1>3, <1>4, <1>5, <1>6

LEMMA OrderIndexed ==
  ASSUME UniqueSubmission, TInv, RegistrationOrder,
         NEW t \in Submissions, IndexLeg(t)
  PROVE  RegistrationOrder'
<1> DEFINE u == PrimaryOf[t]
           leg == First(submit[t].todo)
<1>t. TypeOK /\ submit[t] \in SubmitType
  BY DEF TInv, TypeOK
<1>1. submit[t].pc = "index" /\ submit[t].todo # {} /\ submit[t].todo \in SUBSET Legs
  BY <1>t DEF IndexLeg, SubmitType
<1>2. leg \in submit[t].todo
  BY <1>1, FirstIsLeg
<1>3. u \in Primaries
  BY SubmissionAssumption
<1>4. ToRegister(t) = submit[t].todo /\ ToRegister(t)' = submit[t].todo \ {leg}
  <2>1. \/ submit[t].todo \ {leg} # {} /\ submit'[t].pc = "register"
                                     /\ submit'[t].todo = submit[t].todo \ {leg}
        \/ submit[t].todo \ {leg} = {} /\ submit'[t].pc \in {"link", "replay"}
    BY <1>t DEF IndexLeg, SetSubmit, TypeOK, SubmitType
  <2>2. QED
    BY <1>1, <2>1 DEF ToRegister
<1>5. \A s \in Submissions : s # t => ToRegister(s)' = ToRegister(s)
  BY <1>t DEF IndexLeg, SetSubmit, ToRegister, TypeOK
<1>6. index' = [index EXCEPT ![u] = @ \cup {leg}] /\ job' = job
  BY DEF IndexLeg
<1>7. SUFFICES ASSUME NEW s \in Submissions
               PROVE  LET p == PrimaryOf[s]
                      IN  /\ ToRegister(s)' \subseteq LegsOf[p]
                          /\ BeforeFirst(s)' => ToRegister(s)' = LegsOf[p]
                          /\ index'[p] \subseteq LegsOf[p] \ ToRegister(s)'
                          /\ Filling' /\ job'.p = p
                               => job'.todo \subseteq LegsOf[p] \ ToRegister(s)'
  BY DEF RegistrationOrder
<1> DEFINE p == PrimaryOf[s]
<1>8. /\ ToRegister(s) \subseteq LegsOf[p]
      /\ BeforeFirst(s) => ToRegister(s) = LegsOf[p]
      /\ index[p] \subseteq LegsOf[p] \ ToRegister(s)
      /\ Filling /\ job.p = p => job.todo \subseteq LegsOf[p] \ ToRegister(s)
  BY DEF RegistrationOrder
<1>9. Filling' = Filling
  BY <1>6 DEF Filling
<1>10. CASE s = t
  <2>1. ~BeforeFirst(s)'
    BY <1>4, <1>8, <1>10 DEF BeforeFirst
  <2>2. index'[p] = index[p] \cup {leg}
    BY <1>3, <1>6, <1>10, <1>t DEF TypeOK
  <2>3. QED
    BY <1>2, <1>4, <1>6, <1>8, <1>9, <1>10, <2>1, <2>2
<1>11. CASE s # t
  <2>1. p # u
    BY <1>11 DEF UniqueSubmission
  <2>2. index'[p] = index[p]
    BY <2>1, <1>6, <1>t, SubmissionAssumption DEF TypeOK
  <2>3. ToRegister(s)' = ToRegister(s)
    BY <1>5, <1>11
  <2>4. QED
    BY <1>6, <1>8, <1>9, <2>2, <2>3 DEF BeforeFirst
<1>12. QED
  BY <1>10, <1>11

LEMMA OrderSubmit ==
  ASSUME UniqueSubmission, TInv, RegistrationOrder,
         NEW t \in Submissions, SubmitStep(t)
  PROVE  RegistrationOrder'
<1> USE DEF SetSubmit, ToRegister
<1>t. TypeOK /\ submit[t] \in SubmitType
  BY DEF TInv, TypeOK
<1>1. CASE ~IndexLeg(t)
  <2>1. \A s \in Submissions : s # t => submit'[s] = submit[s]
    BY <1>1, <1>t DEF SubmitStep, SubmitOrder, RegisterPendingExits, RegisterLeg, LinkSibling,
       TakeBufferedFill, ReplayFill, TypeOK
  <2>2. ToRegister(t)' \in {ToRegister(t), {}}
    <3>1. CASE SubmitOrder(t)
      BY <3>1, <1>t DEF SubmitOrder, TypeOK, SubmitType
    <3>2. CASE RegisterPendingExits(t)
      BY <3>2, <1>t DEF RegisterPendingExits, TypeOK, SubmitType
    <3>3. CASE RegisterLeg(t)
      BY <3>3, <1>t DEF RegisterLeg, TypeOK, SubmitType
    <3>4. CASE LinkSibling(t)
      BY <3>4, <1>t DEF LinkSibling, TypeOK, SubmitType
    <3>5. CASE TakeBufferedFill(t)
      BY <3>5, <1>t DEF TakeBufferedFill, TypeOK, SubmitType
    <3>6. CASE ReplayFill(t)
      BY <3>6, <1>t DEF ReplayFill, TypeOK, SubmitType
    <3>7. QED
      BY <1>1, <3>1, <3>2, <3>3, <3>4, <3>5, <3>6 DEF SubmitStep
  <2>3. \A s \in Submissions : ToRegister(s)' \in {ToRegister(s), {}}
    BY <2>1, <2>2
  <2>4. CASE RegisterLeg(t)
    <3>1. index' = index /\ job' = job
      BY <2>4 DEF RegisterLeg
    <3>2. JobLegsKnown
      BY <3>1 DEF JobLegsKnown, Filling
    <3>3. QED
      BY <2>3, <3>1, <3>2, OrderShrink
  <2>5. CASE ~RegisterLeg(t)
    <3>1. MapsShrink /\ JobLegsKnown
      BY <1>1, <2>5, ShrinkSubmit
    <3>2. QED
      BY <2>3, <3>1, OrderShrink DEF MapsShrink
  <2>6. QED
    BY <2>4, <2>5
<1>2. QED
  BY <1>1, OrderIndexed

LEMMA OrderNext ==
  ASSUME UniqueSubmission, TInv, RegistrationOrder, [Next]_vars
  PROVE  RegistrationOrder'
<1>1. ASSUME NEW s \in Submissions, SubmitStep(s) PROVE RegistrationOrder'
  BY <1>1, OrderSubmit
<1>2. CASE FillStep
  <2>1. \A s \in Submissions : ToRegister(s)' \in {ToRegister(s), {}}
    <3>1. CASE EndFill
      BY <3>1 DEF EndFill, ToRegister, TInv, TypeOK, SubmitType
    <3>2. CASE UNCHANGED submit
      BY <3>2 DEF ToRegister
    <3>3. QED
      BY <1>2, <3>1, <3>2 DEF FillStep, BufferUnmatchedFill, ReclaimFill, ProcessEntryFill,
         PlaceOk, PlaceRetry, PlaceDeferred, PlaceFailed, HandleSuccessfulPlacement,
         CancelSiblingOrder, SiblingCancelled
  <2>2. QED
    BY <1>2, <2>1, ShrinkFill, OrderShrink DEF MapsShrink
<1>3. CASE \/ \E p \in Primaries : BrokerFillPrimary(p) \/ RouterFill(p)
           \/ \E ph \in Placeholders : ExitLegFilled(ph)
           \/ CloseStep \/ Disturbance
  <2>1. UNCHANGED submit
    BY <1>3 DEF BrokerFillPrimary, RouterFill, ExitLegFilled, CloseStep, CloseCancelOrder,
       CloseMarkCancelled, Disturbance, BrokerFillExit, ClosePosition, HandleCancellation,
       ClearFailedEntries, CleanupExpiredEntries, ResetCircuitBreaker, BufferForeignFill
  <2>2. \A s \in Submissions : ToRegister(s)' \in {ToRegister(s), {}}
    BY <2>1 DEF ToRegister
  <2>3. QED
    BY <1>3, <2>2, ShrinkEvents, OrderShrink DEF MapsShrink
<1>4. CASE UNCHANGED vars
  BY <1>4 DEF vars, RegistrationOrder, ToRegister, BeforeFirst, Filling
<1>5. CASE HangUp
  <2>1. ASSUME NEW t \in Submissions, ClientGone(t) \/ ReplayDropped(t)
        PROVE  \A s \in Submissions : submit'[s] = submit[s] \/ submit'[s].pc = "done"
    <3>1. submit[t] \in SubmitType /\ submit = [s \in Submissions |-> submit[s]]
      BY DEF TInv, TypeOK
    <3>2. \A s \in Submissions : s # t => submit'[s] = submit[s]
      BY <2>1, <3>1 DEF ClientGone, ReplayDropped, SetSubmit
    <3>3. submit'[t].pc = "done"
      BY <2>1, <3>1 DEF ClientGone, ReplayDropped, SetSubmit, SubmitType
    <3>4. QED
      BY <3>2, <3>3
  <2>2. \A s \in Submissions : ToRegister(s)' \in {ToRegister(s), {}}
    BY <1>5, <2>1 DEF HangUp, ToRegister
  <2>3. QED
    BY <1>5, <2>2, ShrinkHangUp, OrderShrink DEF MapsShrink
<1>6. QED
  BY <1>1, <1>2, <1>3, <1>4, <1>5 DEF Next, Trading

\* An insertion touches neither the leg in the job's hands nor the job.
LEMMA InsertionApart ==
  ASSUME TInv, RegistrationOrder, NEW t \in Submissions, RegisterLeg(t),
         Filling, NEW l \in job.todo
  PROVE  entry'[<<job.p, l>>] = entry[<<job.p, l>>]
<1> DEFINE u == PrimaryOf[t]
           leg == First(submit[t].todo)
<1>1. submit[t].pc = "register" /\ submit[t].todo # {} /\ submit[t].todo \in SUBSET Legs
  BY DEF RegisterLeg, TInv, TypeOK, SubmitType
<1>2. leg \in ToRegister(t)
  BY <1>1, FirstIsLeg DEF ToRegister
<1>3. job.p = u => l # leg
  BY <1>2 DEF RegistrationOrder
<1>4. <<job.p, l>> \in Placeholders
  BY DEF TInv, TypeOK, JobShape, JobType, Placeholders, Filling
<1>5. <<job.p, l>> # <<u, leg>>
  BY <1>3
<1>6. QED
  BY <1>4, <1>5 DEF RegisterLeg, TInv, TypeOK

\* Steps that leave the job and the submission it works for alone.
LEMMA ConsistentFrame ==
  ASSUME TInv, TInv', JobConsistent, job' = job,
         \/ unmatched' = unmatched
         \/ \E p \in Primaries : unmatched' = [unmatched EXCEPT ![p] = 0]
         \/ job.pc = "idle",
         \A s \in Submissions : submit[s].pc = "replaying" => submit'[s] = submit[s],
         \/ MapsShrink
         \/ UNCHANGED entry
         \/ RegistrationOrder /\ \E t \in Submissions : RegisterLeg(t)
  PROVE  JobConsistent'
<1>1. JobPlaceholder' = JobPlaceholder
  BY DEF JobPlaceholder
<1>2. ASSUME job.pc \in {"submit", "record"}, Present(entry'[JobPlaceholder])
      PROVE  entry'[JobPlaceholder].last >= job.q
  <2>1. First(job.todo) \in job.todo /\ JobPlaceholder \in Placeholders
    BY <1>2, JobAtLeg DEF TInv, JobShape
  <2>2. CASE MapsShrink
    <3>1. Present(entry[JobPlaceholder]) /\ entry'[JobPlaceholder].last >= entry[JobPlaceholder].last
      BY <1>2, <2>1, <2>2 DEF MapsShrink
    <3>2. entry[JobPlaceholder].last >= job.q
      BY <1>2, <3>1 DEF JobConsistent
    <3>3. /\ job.q \in Int /\ entry[JobPlaceholder].last \in Int
          /\ entry'[JobPlaceholder].last \in Int
      BY <2>1, ConfigAssumption, SMTT(30) DEF TInv, TypeOK, EntryType, JobType
    <3>4. QED
      BY <3>1, <3>2, <3>3, SMTT(30)
  <2>3. CASE RegistrationOrder /\ \E t \in Submissions : RegisterLeg(t)
    <3>1. entry'[JobPlaceholder] = entry[JobPlaceholder]
      BY <1>2, <2>1, <2>3, InsertionApart DEF JobPlaceholder, Filling
    <3>2. QED
      BY <1>2, <3>1 DEF JobConsistent
  <2>4. CASE UNCHANGED entry
    BY <1>2, <2>4 DEF JobConsistent
  <2>5. QED
    BY <2>2, <2>3, <2>4
<1>3. job.pc = "reclaim" => unmatched'[job.p] \in {0, job.q}
  BY DEF JobConsistent, TInv, TypeOK, JobShape
<1>4. job.pc # "idle" /\ job.by # "router" => submit'[job.by].pc = "replaying"
  BY DEF JobConsistent, TInv, TypeOK, JobType
<1>5. QED
  BY <1>1, <1>2, <1>3, <1>4 DEF JobConsistent

LEMMA ConsistentFill ==
  ASSUME TInv, JobConsistent, FillStep
  PROVE  JobConsistent'
<1> USE DEF handlerMaps, history
<1>t. TypeOK /\ JobShape
  BY DEF TInv
<1>n. NextLeg.pc = "legs" /\ NextLeg.by = job.by
  BY DEF NextLeg, Idle
<1>1. CASE BufferUnmatchedFill
  <2>1. job'.pc = "reclaim" /\ job'.p = job.p /\ job'.q = job.q /\ job'.by = job.by
    BY <1>1, <1>t DEF BufferUnmatchedFill, TypeOK, JobType
  <2>2. unmatched'[job.p] = job.q
    BY <1>1, <1>t DEF BufferUnmatchedFill, JobShape
  <2>3. QED
    BY <1>1, <2>1, <2>2 DEF BufferUnmatchedFill, JobConsistent
<1>2. CASE ReclaimFill
  BY <1>2, <1>t DEF ReclaimFill, TypeOK, JobType, JobConsistent
<1>3. CASE ProcessEntryFill
  <2>1. JobPlaceholder \in Placeholders
    BY <1>3, JobAtLeg DEF ProcessEntryFill
  <2>2. CASE job' = NextLeg
    BY <1>3, <2>2, <1>n DEF ProcessEntryFill, JobConsistent
  <2>3. CASE job' # NextLeg
    <3>1. /\ entry' = [entry EXCEPT ![JobPlaceholder].last = job.q]
          /\ job'.pc = "submit" /\ job'.by = job.by /\ job'.q = job.q
          /\ job'.p = job.p /\ job'.todo = job.todo
      BY <1>3, <2>3, <1>t DEF ProcessEntryFill, TypeOK, JobType
    <3>2. JobPlaceholder' = JobPlaceholder
      BY <3>1 DEF JobPlaceholder
    <3>3. entry'[JobPlaceholder].last = job.q
      BY <3>1, <2>1, <1>t DEF TypeOK, EntryType
    <3>4. job.q >= job.q
      BY <1>t, ConfigAssumption, SMTT(30) DEF TypeOK, JobType
    <3>5. QED
      BY <1>3, <3>1, <3>2, <3>3, <3>4 DEF ProcessEntryFill, JobConsistent
  <2>4. QED
    BY <2>2, <2>3
<1>4. CASE PlaceOk \/ PlaceRetry
  <2>1. /\ job'.pc \in {"submit", "record"} /\ job'.by = job.by /\ job'.q = job.q
        /\ job'.p = job.p /\ job'.todo = job.todo
    BY <1>4, <1>t DEF PlaceOk, PlaceRetry, TypeOK, JobType
  <2>2. JobPlaceholder' = JobPlaceholder
    BY <2>1 DEF JobPlaceholder
  <2>3. QED
    BY <1>4, <2>1, <2>2 DEF PlaceOk, PlaceRetry, JobConsistent
<1>5. CASE PlaceDeferred \/ PlaceFailed \/ HandleSuccessfulPlacement
  BY <1>5, <1>n DEF PlaceDeferred, PlaceFailed, HandleSuccessfulPlacement, JobConsistent
<1>6. CASE EndFill \/ SiblingCancelled
  BY <1>6, IdleType DEF EndFill, SiblingCancelled, JobConsistent
<1>7. ASSUME NEW n \in job.cancels, CancelSiblingOrder(n) PROVE JobConsistent'
  BY <1>7, <1>t DEF CancelSiblingOrder, TypeOK, JobType, JobConsistent
<1>8. QED
  BY <1>1, <1>2, <1>3, <1>4, <1>5, <1>6, <1>7 DEF FillStep

LEMMA ConsistentNext ==
  ASSUME TInv, TInv', RegistrationOrder, JobConsistent, [Next]_vars
  PROVE  JobConsistent'
<1>t. TypeOK
  BY DEF TInv
<1>1. ASSUME NEW t \in Submissions, ReplayFill(t) PROVE JobConsistent'
  <2>1. job'.pc \in {"legs", "unmatched"} /\ job'.by = t /\ submit'[t].pc = "replaying"
    BY <1>1, <1>t DEF ReplayFill, BeginJob, Idle, SetSubmit, TypeOK, SubmitType
  <2>2. QED
    BY <2>1 DEF JobConsistent
<1>2. ASSUME NEW t \in Submissions, SubmitStep(t), ~ReplayFill(t) PROVE JobConsistent'
  <2>1. /\ job' = job
        /\ unmatched' = unmatched
           \/ \E p \in Primaries : unmatched' = [unmatched EXCEPT ![p] = 0]
    BY <1>2, SubmissionAssumption DEF SubmitStep, SubmitOrder, RegisterPendingExits, RegisterLeg,
       IndexLeg, LinkSibling, TakeBufferedFill
  <2>2. \A s \in Submissions : submit[s].pc = "replaying" => submit'[s] = submit[s]
    BY <1>2, <1>t DEF SubmitStep, SubmitOrder, RegisterPendingExits, RegisterLeg,
       IndexLeg, LinkSibling, TakeBufferedFill, SetSubmit, TypeOK
  <2>3. RegisterLeg(t) \/ UNCHANGED entry \/ MapsShrink
    BY <1>2, ShrinkSubmit DEF IndexLeg
  <2>4. QED
    BY <2>1, <2>2, <2>3, ConsistentFrame
<1>3. CASE FillStep
  BY <1>3, ConsistentFill
<1>4. CASE \/ \E p \in Primaries : RouterFill(p)
           \/ \E ph \in Placeholders : ExitLegFilled(ph)
  <2>1. ASSUME NEW p \in Primaries, RouterFill(p)
        PROVE  job'.pc \in {"legs", "unmatched"} /\ job'.by = "router"
    BY <2>1 DEF RouterFill, BeginJob, Idle
  <2>2. ASSUME NEW ph \in Placeholders, ExitLegFilled(ph)
        PROVE  job'.pc \in {"idle", "cancel"} /\ job'.by = "router"
    BY <2>2 DEF ExitLegFilled, Idle
  <2>3. QED
    BY <1>4, <2>1, <2>2 DEF JobConsistent
<1>5. CASE (\E p \in Primaries : BrokerFillPrimary(p)) \/ CloseStep \/ Disturbance
  <2>1. /\ job' = job /\ submit' = submit
        /\ unmatched' = unmatched \/ job.pc = "idle"
    BY <1>5 DEF BrokerFillPrimary, CloseStep, CloseCancelOrder,
       CloseMarkCancelled, Disturbance, BrokerFillExit, ClosePosition, HandleCancellation,
       ClearFailedEntries, CleanupExpiredEntries, ResetCircuitBreaker, BufferForeignFill
  <2>2. MapsShrink
    BY <1>5, ShrinkEvents
  <2>3. QED
    BY <2>1, <2>2, ConsistentFrame
<1>6. CASE UNCHANGED vars
  BY <1>6 DEF vars, JobConsistent, JobPlaceholder
<1>7. ASSUME NEW t \in Submissions, ClientGone(t) PROVE JobConsistent'
  <2>1. job' = job /\ unmatched' = unmatched
    BY <1>7 DEF ClientGone
  <2>2. \A s \in Submissions : submit[s].pc = "replaying" => submit'[s] = submit[s]
    BY <1>7, <1>t DEF ClientGone, SetSubmit, TypeOK
  <2>3. MapsShrink
    BY <1>7, ShrinkHangUp DEF HangUp
  <2>4. QED
    BY <2>1, <2>2, <2>3, ConsistentFrame
<1>8. ASSUME NEW t \in Submissions, ReplayDropped(t) PROVE JobConsistent'
  BY <1>8, IdleType DEF ReplayDropped, JobConsistent
<1>9. QED
  BY <1>1, <1>2, <1>3, <1>4, <1>5, <1>6, <1>7, <1>8 DEF Next, Trading, HangUp

\* Only an insertion or the record of a placement brings a leg to life.
NoRevival == \A ph \in Placeholders : Live(ph)' => Live(ph)

LEMMA TerminalKept ==
  ASSUME TInv, MapsShrink,
         \A ph \in Placeholders :
           IsTerminal(entry[ph]) => ~Present(entry'[ph]) \/ IsTerminal(entry'[ph])
  PROVE  NoRevival
<1> SUFFICES ASSUME NEW ph \in Placeholders, Live(ph)' PROVE Live(ph)
  BY DEF NoRevival
<1>1. ph[1] \in Primaries
  BY DEF Placeholders
<1>2. QED
  BY <1>1 DEF Live, MapsShrink

LEMMA NoRevivalFill ==
  ASSUME TInv, FillStep, ~HandleSuccessfulPlacement
  PROVE  NoRevival
<1> USE DEF handlerMaps, history, IsTerminal
<1>t. TypeOK /\ JobShape
  BY DEF TInv
<1>m. MapsShrink
  BY ShrinkFill
<1> SUFFICES \A ph \in Placeholders :
               IsTerminal(entry[ph]) => ~Present(entry'[ph]) \/ IsTerminal(entry'[ph])
  BY <1>m, TerminalKept
<1>1. CASE ProcessEntryFill
  <2>1. JobPlaceholder \in Placeholders
    BY <1>1, JobAtLeg DEF ProcessEntryFill
  <2>2. \A ph \in Placeholders : entry'[ph].status = entry[ph].status
    BY <1>1, <2>1, <1>t, SMTT(30) DEF ProcessEntryFill, TypeOK, EntryType
  <2>3. QED
    BY <2>2
<1>2. CASE PlaceFailed
  <2>1. JobPlaceholder \in Placeholders
    BY <1>2, JobAtLeg, <1>t DEF PlaceFailed, JobShape
  <2>2. \A ph \in Placeholders : entry'[ph].status \in {entry[ph].status, "Failed"}
    BY <1>2, <2>1, <1>t DEF PlaceFailed, TypeOK, EntryType
  <2>3. QED
    BY <2>2
<1>3. CASE SiblingCancelled
  <2>1. \A ph \in Placeholders : entry'[ph] = entry[ph] \/ entry'[ph] = NoEntry
    BY <1>3, <1>t DEF SiblingCancelled, TypeOK
  <2>2. QED
    BY <2>1, SMTT(30) DEF NoEntry, Present
<1>4. CASE UNCHANGED entry
  BY <1>4
<1>5. \/ ProcessEntryFill \/ PlaceFailed \/ SiblingCancelled
      \/ UNCHANGED entry
  BY DEF FillStep, BufferUnmatchedFill, ReclaimFill,
     PlaceOk, PlaceRetry, PlaceDeferred, EndFill, CancelSiblingOrder
<1>6. QED
  BY <1>1, <1>2, <1>3, <1>4, <1>5

LEMMA NoRevivalSubmit ==
  ASSUME TInv, NEW t \in Submissions, SubmitStep(t), ~RegisterLeg(t), ~IndexLeg(t)
  PROVE  NoRevival
<1>t. TypeOK /\ MapsShrink
  BY ShrinkSubmit DEF TInv
<1>1. CASE LinkSibling(t)
  <2>1. \A ph \in Placeholders : entry'[ph].status = entry[ph].status
    BY <1>1, <1>t DEF LinkSibling, TypeOK, EntryType
  <2>2. QED
    BY <2>1, <1>t, TerminalKept DEF IsTerminal
<1>2. CASE UNCHANGED entry
  BY <1>2, <1>t, TerminalKept
<1>3. QED
  BY <1>1, <1>2 DEF SubmitStep, SubmitOrder, RegisterPendingExits, TakeBufferedFill,
     ReplayFill, handlerMaps

LEMMA NoRevivalEvents ==
  ASSUME TInv,
         \/ \E p \in Primaries : BrokerFillPrimary(p) \/ RouterFill(p)
         \/ \E ph \in Placeholders : ExitLegFilled(ph)
         \/ CloseStep \/ Disturbance
  PROVE  NoRevival
<1> USE DEF handlerMaps
<1>t. TypeOK /\ MapsShrink
  BY ShrinkEvents DEF TInv
<1> DEFINE Kept(ph) == \/ entry'[ph].status = entry[ph].status
                       \/ entry'[ph].status \in {"Absent", "Cancelled"}
<1>1. ASSUME NEW ph \in Placeholders, ExitLegFilled(ph) PROVE \A x \in Placeholders : Kept(x)
  <2>1. \A x \in Placeholders : entry'[x] = entry[x] \/ entry'[x] = NoEntry
    BY <1>1, <1>t DEF ExitLegFilled, TypeOK
  <2>2. QED
    BY <2>1, SMTT(30) DEF NoEntry
<1>2. ASSUME CloseMarkCancelled PROVE \A x \in Placeholders : Kept(x)
  BY <1>2, <1>t, SMTT(30) DEF CloseMarkCancelled, TypeOK, EntryType
<1>3. ASSUME NEW p \in Primaries, HandleCancellation(p) PROVE \A x \in Placeholders : Kept(x)
  BY <1>3, <1>t DEF HandleCancellation, TypeOK, EntryType
<1>4. ASSUME ClearFailedEntries \/ CleanupExpiredEntries PROVE \A x \in Placeholders : Kept(x)
  BY <1>4, SMTT(30) DEF ClearFailedEntries, CleanupExpiredEntries, RemoveEntries, NoEntry
<1>5. ASSUME UNCHANGED entry PROVE \A x \in Placeholders : Kept(x)
  BY <1>5
<1>6. \/ UNCHANGED entry
      \/ \E ph \in Placeholders : ExitLegFilled(ph)
      \/ \E p \in Primaries : HandleCancellation(p)
      \/ CloseMarkCancelled \/ ClearFailedEntries \/ CleanupExpiredEntries
  <2>1. CASE \E p \in Primaries : BrokerFillPrimary(p) \/ RouterFill(p)
    BY <2>1 DEF BrokerFillPrimary, RouterFill
  <2>2. CASE CloseStep
    BY <2>2 DEF CloseStep, CloseCancelOrder
  <2>3. CASE Disturbance
    BY <2>3 DEF Disturbance, BrokerFillExit, ClosePosition, ResetCircuitBreaker,
       BufferForeignFill
  <2>4. QED
    BY <2>1, <2>2, <2>3
<1>7. \A x \in Placeholders : Kept(x)
  BY <1>1, <1>2, <1>3, <1>4, <1>5, <1>6
<1>8. QED
  BY <1>7, <1>t, TerminalKept DEF Present, IsTerminal

\* A fill owed after such a step was owed before it, and if the first leg had
\* been attempted for it, it still has.
LEMMA OwedBefore ==
  ASSUME TInv, TInv', RegistrationOrder, MapsShrink, NoRevival,
         NEW s \in Submissions, Owed(s)', BeforeFirst(s)' => BeforeFirst(s),
         lost \subseteq lost', delivered'[PrimaryOf[s]] = delivered[PrimaryOf[s]]
  PROVE  Owed(s) /\ (Attempted(s) => Attempted(s)')
<1> DEFINE p == PrimaryOf[s]
           f == FirstLegOf(p)
<1>1. p \in Primaries /\ LegsOf[p] \in SUBSET Legs /\ LegsOf[p] # {}
  BY SubmissionAssumption, LegsAssumption DEF Owed
<1>2. f \in Placeholders /\ First(LegsOf[p]) \in Legs
  BY <1>1, FirstIsLeg DEF FirstLegOf, Placeholders
<1>3. Live(f)' => Live(f)
  BY <1>2 DEF NoRevival
<1>4. Owed(s)
  BY <1>3 DEF Owed, FirstLegOf
<1>5. ASSUME Attempted(s) PROVE Attempted(s)'
  <2>1. Live(f) /\ entry[f].last >= delivered[p]
    BY <1>5 DEF Attempted
  <2>2. ~BeforeFirst(s)
    BY <2>1 DEF Live, BeforeFirst, RegistrationOrder, FirstLegOf
  <2>3. Live(f)'
    BY <2>2 DEF Owed
  <2>4. entry'[f].last >= entry[f].last
    BY <2>3, <1>2 DEF Live, MapsShrink
  <2>5. entry[f].last \in Int /\ delivered[p] \in Int
    BY <1>1, <1>2, LastIsQty, DeliveredIsQty DEF TInv
  <2>6. entry'[f].last \in Int
    BY <1>2, LastIsQtyNext DEF TInv
  <2>7. entry'[f].last >= delivered[p]
    BY <2>1, <2>4, <2>5, <2>6, StillEnough
  <2>8. entry'[f].last >= delivered'[p]
    BY <2>7
  <2>9. QED
    BY <2>3, <2>8 DEF Attempted, FirstLegOf
<1>6. QED
  BY <1>4, <1>5

\* Steps that leave alone everything that carries the fill of s, but for a
\* submission that ends its replay.
LEMMA CarriedFrame ==
  ASSUME TInv, TInv', RegistrationOrder, FillCarried, MapsShrink, NoRevival,
         NEW s \in Submissions, Owed(s)',
         lost \subseteq lost', delivered'[PrimaryOf[s]] = delivered[PrimaryOf[s]],
         unmatched'[PrimaryOf[s]] = unmatched[PrimaryOf[s]],
         \/ submit'[s] = submit[s]
         \/ submit[s].pc = "replaying" /\ submit'[s].pc = "done",
         job' = job \/ ~InJob(s)
  PROVE  Carried(s)'
<1>1. BeforeFirst(s)' => BeforeFirst(s)
  BY DEF BeforeFirst, ToRegister
<1>2. Owed(s) /\ (Attempted(s) => Attempted(s)')
  BY <1>1, OwedBefore
<1>3. Carried(s)
  BY <1>2 DEF FillCarried
<1>4. Buffered(s) => Buffered(s)'
  BY DEF Buffered, BeforeReplay
<1>5. AwaitsLock(s) => AwaitsLock(s)'
  BY DEF AwaitsLock
<1>6. InJob(s) => InJob(s)'
  BY DEF InJob, JobLegs
<1>7. QED
  BY <1>2, <1>3, <1>4, <1>5, <1>6 DEF Carried

LEMMA CarriedOwnSubmit ==
  ASSUME TInv, TInv', RegistrationOrder, FillCarried,
         NEW s \in Submissions, SubmitStep(s), Owed(s)'
  PROVE  Carried(s)'
<1> USE DEF handlerMaps, history
<1> DEFINE p == PrimaryOf[s]
           f == FirstLegOf(p)
<1>t. TypeOK /\ submit[s] \in SubmitType
  BY DEF TInv, TypeOK
<1>p. p \in Primaries /\ LegsOf[p] \in SUBSET Legs /\ LegsOf[p] # {}
  BY SubmissionAssumption, LegsAssumption DEF Owed
<1>f. f \in Placeholders /\ First(LegsOf[p]) \in LegsOf[p]
  BY <1>p, FirstIsLeg DEF FirstLegOf, Placeholders
<1>l. lost' = lost /\ delivered' = delivered
  BY DEF SubmitStep, SubmitOrder, RegisterPendingExits, RegisterLeg, IndexLeg, LinkSibling,
     TakeBufferedFill, ReplayFill
<1>d. delivered[p] \in Int /\ delivered[p] > 0
  <2>1. delivered'[p] > 0
    BY DEF Owed
  <2>2. QED
    BY <2>1, <1>t, <1>p, <1>l, DeliveredIsQty
<1>m. ~RegisterLeg(s) /\ ~IndexLeg(s) => MapsShrink /\ NoRevival
  BY ShrinkSubmit, NoRevivalSubmit
<1>1. CASE SubmitOrder(s)
  <2>1. submit[s].pc = "idle" /\ submit'[s].pc = "sent" /\ job' = job /\ unmatched' = unmatched
    BY <1>1, <1>t DEF SubmitOrder, SetSubmit, TypeOK, SubmitType
  <2>2. BeforeFirst(s)' => BeforeFirst(s)
    BY <2>1 DEF BeforeFirst, ToRegister
  <2>3. Owed(s) /\ (Attempted(s) => Attempted(s)')
    BY <2>1, <2>2, <1>l, <1>m, OwedBefore DEF RegisterLeg, IndexLeg
  <2>4. QED
    BY <2>1, <2>3, <1>l DEF FillCarried, Carried, Buffered, BeforeReplay, AwaitsLock, InJob, JobLegs
<1>2. CASE RegisterPendingExits(s)
  <2>1. /\ submit[s].pc = "sent" /\ job' = job /\ unmatched' = unmatched
        /\ entry' = entry /\ index' = index
        /\ \/ submit'[s].pc = "done"
           \/ submit'[s].pc = "register" /\ submit'[s].todo = LegsOf[p]
    BY <1>2, <1>t DEF RegisterPendingExits, SetSubmit, TypeOK, SubmitType
  <2>2. BeforeFirst(s)
    BY <2>1, <1>f DEF BeforeFirst, ToRegister
  <2>3. ~Live(f)
    BY <2>2 DEF Live, BeforeFirst, RegistrationOrder, FirstLegOf
  <2>4. ~Live(f)'
    BY <2>1, <2>3 DEF Live
  <2>5. submit'[s].pc = "register"
    BY <2>1, <2>4 DEF Owed, BeforeFirst, ToRegister
  <2>6. Owed(s) /\ (Attempted(s) => Attempted(s)')
    BY <2>1, <2>2, <1>l, <1>m, OwedBefore DEF RegisterLeg, IndexLeg
  <2>7. QED
    BY <2>1, <2>5, <2>6, <1>l DEF FillCarried, Carried, Buffered, BeforeReplay, AwaitsLock,
       InJob, JobLegs
<1>3. CASE RegisterLeg(s) \/ IndexLeg(s)
  <2> DEFINE leg == First(submit[s].todo)
  <2>1. /\ submit[s].pc \in {"register", "index"} /\ submit[s].todo # {}
        /\ submit[s].todo \in SUBSET Legs
        /\ job' = job /\ unmatched' = unmatched
    BY <1>3, <1>t DEF RegisterLeg, IndexLeg, SubmitType
  <2>2. /\ submit'[s].pc \in {"register", "index", "link", "replay"}
        /\ ToRegister(s)' \subseteq submit[s].todo
    <3>1. CASE RegisterLeg(s)
      BY <3>1, <1>t DEF RegisterLeg, SetSubmit, ToRegister, TypeOK, SubmitType
    <3>2. CASE IndexLeg(s)
      <4>1. \/ submit'[s].pc = "register" /\ submit'[s].todo = submit[s].todo \ {leg}
            \/ submit'[s].pc \in {"link", "replay"}
        BY <3>2, <1>t DEF IndexLeg, SetSubmit, TypeOK, SubmitType
      <4>2. QED
        BY <4>1 DEF ToRegister
    <3>3. QED
      BY <1>3, <3>1, <3>2
  <2>3. /\ entry' \in {entry, [entry EXCEPT ![<<p, leg>>] = NewEntry]}
        /\ index' \in {index, [index EXCEPT ![p] = @ \cup {leg}]}
    BY <1>3 DEF RegisterLeg, IndexLeg
  <2>4. CASE BeforeFirst(s)
    <3>1. Owed(s) /\ ~Attempted(s)
      BY <2>4, <1>l DEF Owed, Attempted, Live, BeforeFirst, RegistrationOrder, FirstLegOf
    <3>2. QED
      BY <2>1, <2>2, <3>1, <1>l DEF FillCarried, Carried, Buffered, BeforeReplay, AwaitsLock,
         InJob, JobLegs
  <2>5. CASE ~BeforeFirst(s)
    <3>1. leg \in submit[s].todo /\ First(LegsOf[p]) \notin submit[s].todo
      BY <2>1, <2>5, FirstIsLeg DEF BeforeFirst, ToRegister
    <3>2. f # <<p, leg>> /\ First(LegsOf[p]) # leg
      BY <3>1 DEF FirstLegOf
    <3>3. entry'[f] = entry[f]
      BY <2>3, <3>2, <1>f, <1>t DEF TypeOK
    <3>i. First(LegsOf[p]) \in index'[p] <=> First(LegsOf[p]) \in index[p]
      <4>1. [index EXCEPT ![p] = @ \cup {leg}][p] = index[p] \cup {leg}
        BY <1>p, <1>t DEF TypeOK
      <4>2. index'[p] = index[p] \/ index'[p] = index[p] \cup {leg}
        BY <2>3, <4>1
      <4>3. QED
        BY <4>2, <3>2
    <3>4. Live(f)' <=> Live(f)
      BY <3>3, <3>i DEF Live, FirstLegOf
    <3>5. ~BeforeFirst(s)'
      BY <2>2, <3>1 DEF BeforeFirst
    <3>6. Owed(s) /\ (Attempted(s) => Attempted(s)')
      BY <3>3, <3>4, <3>5, <1>l DEF Owed, Attempted, FirstLegOf
    <3>7. QED
      BY <2>1, <2>2, <3>6, <1>l DEF FillCarried, Carried, Buffered, BeforeReplay, AwaitsLock,
         InJob, JobLegs
  <2>6. QED
    BY <2>4, <2>5
<1>4. CASE LinkSibling(s)
  <2>1. /\ submit[s].pc = "link" /\ submit'[s].pc \in {"link", "replay"}
        /\ job' = job /\ unmatched' = unmatched
    BY <1>4, <1>t DEF LinkSibling, SetSubmit, TypeOK, SubmitType
  <2>2. ~RegisterLeg(s) /\ ~IndexLeg(s) /\ ~BeforeFirst(s)'
    BY <2>1 DEF RegisterLeg, IndexLeg, BeforeFirst, ToRegister
  <2>3. Owed(s) /\ (Attempted(s) => Attempted(s)')
    BY <2>2, <1>l, <1>m, OwedBefore
  <2>4. QED
    BY <2>1, <2>3, <1>l DEF FillCarried, Carried, Buffered, BeforeReplay, AwaitsLock, InJob, JobLegs
<1>5. CASE TakeBufferedFill(s)
  <2>1. /\ submit[s].pc = "replay" /\ submit'[s].pc \in {"done", "waiting"}
        /\ unmatched[p] # 0 => submit'[s].pc = "waiting" /\ submit'[s].q = unmatched[p]
        /\ job' = job
    BY <1>5, <1>t DEF TakeBufferedFill, SetSubmit, TypeOK, SubmitType
  <2>2. ~RegisterLeg(s) /\ ~IndexLeg(s) /\ ~BeforeFirst(s)'
    BY <2>1 DEF RegisterLeg, IndexLeg, BeforeFirst, ToRegister
  <2>3. Owed(s) /\ (Attempted(s) => Attempted(s)')
    BY <2>2, <1>l, <1>m, OwedBefore
  <2>4. unmatched[p] \in Int
    BY <1>t, <1>p, ConfigAssumption, SMTT(30) DEF TypeOK
  <2>5. unmatched[p] >= delivered[p] => AwaitsLock(s)'
    BY <2>1, <2>4, <1>d, <1>l, SMTT(30) DEF AwaitsLock
  <2>6. InJob(s) => InJob(s)' \/ unmatched[p] >= delivered[p]
    BY <2>1, <1>l DEF InJob, JobLegs
  <2>7. QED
    BY <2>1, <2>3, <2>5, <2>6 DEF FillCarried, Carried, Buffered, AwaitsLock
<1>6. CASE ReplayFill(s)
  <2>1. /\ submit[s].pc = "waiting" /\ submit'[s].pc = "replaying" /\ job.pc = "idle"
        /\ job'.p = p /\ job'.q = submit[s].q /\ job'.todo = index[p]
        /\ HasPending(p) => job'.pc = "legs"
    BY <1>6, <1>t DEF ReplayFill, BeginJob, Idle, SetSubmit, TypeOK, SubmitType
  <2>2. ~RegisterLeg(s) /\ ~IndexLeg(s) /\ ~BeforeFirst(s)' /\ ~BeforeFirst(s)
    BY <2>1 DEF RegisterLeg, IndexLeg, BeforeFirst, ToRegister
  <2>3. Owed(s) /\ (Attempted(s) => Attempted(s)')
    BY <2>2, <1>l, <1>m, OwedBefore
  <2>4. First(LegsOf[p]) \in index[p]
    BY <2>2, <2>3 DEF Owed, Live, FirstLegOf
  <2>5. AwaitsLock(s) => InJob(s)'
    BY <2>1, <2>4, <1>l DEF AwaitsLock, InJob, JobLegs, HasPending
  <2>6. ~Buffered(s) /\ ~InJob(s)
    BY <2>1 DEF Buffered, BeforeReplay, InJob, JobLegs
  <2>7. QED
    BY <2>3, <2>5, <2>6 DEF FillCarried, Carried
<1>7. QED
  BY <1>1, <1>2, <1>3, <1>4, <1>5, <1>6 DEF SubmitStep

LEMMA CarriedOtherSubmit ==
  ASSUME UniqueSubmission, TInv, TInv', RegistrationOrder, FillCarried,
         NEW s \in Submissions, NEW t \in Submissions, t # s, SubmitStep(t), Owed(s)'
  PROVE  Carried(s)'
<1> USE DEF handlerMaps, history
<1> DEFINE p == PrimaryOf[s]
           f == FirstLegOf(p)
<1>t. TypeOK
  BY DEF TInv
<1>p. p \in Primaries /\ PrimaryOf[t] \in Primaries /\ p # PrimaryOf[t]
  BY SubmissionAssumption DEF UniqueSubmission
<1>1. lost' = lost /\ delivered' = delivered
  BY DEF SubmitStep, SubmitOrder, RegisterPendingExits, RegisterLeg, IndexLeg, LinkSibling,
     TakeBufferedFill, ReplayFill
<1>2. submit'[s] = submit[s]
  BY <1>t DEF SubmitStep, SubmitOrder, RegisterPendingExits, RegisterLeg, IndexLeg, LinkSibling,
     TakeBufferedFill, ReplayFill, SetSubmit, TypeOK
<1>3. unmatched'[p] = unmatched[p]
  BY <1>t, <1>p DEF SubmitStep, SubmitOrder, RegisterPendingExits, RegisterLeg, IndexLeg, LinkSibling,
     TakeBufferedFill, ReplayFill, TypeOK
<1>4. job' = job \/ ~InJob(s)
  BY DEF SubmitStep, SubmitOrder, RegisterPendingExits, RegisterLeg, IndexLeg, LinkSibling,
     TakeBufferedFill, ReplayFill, BeginJob, InJob, JobLegs
<1>5. CASE RegisterLeg(t) \/ IndexLeg(t)
  <2>1. f \in Placeholders
    BY LegsAssumption, FirstIsLeg, <1>p DEF Owed, FirstLegOf, Placeholders
  <2>2. entry'[f] = entry[f] /\ index'[p] = index[p]
    BY <1>5, <2>1, <1>t, <1>p DEF RegisterLeg, IndexLeg, TypeOK, FirstLegOf
  <2>3. Owed(s) /\ (Attempted(s) => Attempted(s)')
    BY <2>2, <1>1, <1>2 DEF Owed, Attempted, Live, FirstLegOf, BeforeFirst, ToRegister
  <2>4. job' = job
    BY <1>5 DEF RegisterLeg, IndexLeg
  <2>5. QED
    BY <2>3, <2>4, <1>1, <1>2, <1>3 DEF FillCarried, Carried, Buffered, BeforeReplay,
       AwaitsLock, InJob, JobLegs
<1>6. CASE ~RegisterLeg(t) /\ ~IndexLeg(t)
  BY <1>1, <1>2, <1>3, <1>4, <1>6, ShrinkSubmit, NoRevivalSubmit, CarriedFrame
<1>7. QED
  BY <1>5, <1>6

LEMMA CarriedOwnFill ==
  ASSUME TInv, TInv', RegistrationOrder, JobConsistent, FillCarried,
         NEW s \in Submissions, FillStep, Owed(s)', job.p = PrimaryOf[s]
  PROVE  Carried(s)'
<1> USE DEF handlerMaps, history
<1> DEFINE p == PrimaryOf[s]
           f == FirstLegOf(p)
           first == First(LegsOf[p])
<1>t. TypeOK /\ JobShape
  BY DEF TInv
<1>p. p \in Primaries /\ LegsOf[p] \in SUBSET Legs /\ LegsOf[p] # {}
  BY SubmissionAssumption, LegsAssumption DEF Owed
<1>f. f \in Placeholders /\ first \in LegsOf[p]
  BY <1>p, FirstIsLeg DEF FirstLegOf, Placeholders
<1>d. /\ delivered' = delivered /\ lost \subseteq lost'
      /\ delivered[p] \in Int /\ delivered[p] > 0 /\ delivered[p] <= Total
      /\ unmatched[p] \in Int /\ job.q \in Int /\ entry[f].last \in Int
  <2>1. delivered' = delivered /\ lost \subseteq lost'
    BY DEF FillStep, BufferUnmatchedFill, ReclaimFill, ProcessEntryFill, PlaceOk, PlaceRetry,
       PlaceDeferred, PlaceFailed, HandleSuccessfulPlacement, EndFill, CancelSiblingOrder,
       SiblingCancelled
  <2>2. delivered'[p] > 0
    BY DEF Owed
  <2>3. delivered[p] > 0
    BY <2>1, <2>2
  <2>4. delivered[p] \in Int /\ delivered[p] <= Total /\ unmatched[p] \in Int
    BY <1>t, <1>p, DeliveredIsQty
  <2>5. job.q \in Int /\ entry[f].last \in Int
    BY <1>t, <1>f, JobIsQty, LastIsQty
  <2>6. QED
    BY <2>1, <2>3, <2>4, <2>5
<1>m. MapsShrink /\ (~HandleSuccessfulPlacement => NoRevival)
  BY ShrinkFill, NoRevivalFill
<1>i. BeforeFirst(s) => index[p] = {} /\ BeforeReplay(s) /\ (Filling => first \notin job.todo)
  BY <1>f DEF BeforeFirst, RegistrationOrder, BeforeReplay, ToRegister
<1>n. NextLeg.pc = "legs" /\ NextLeg.p = p /\ NextLeg.q = job.q
      /\ NextLeg.todo = job.todo \ {First(job.todo)}
  BY DEF NextLeg, Idle
<1>o. ASSUME ~HandleSuccessfulPlacement, BeforeFirst(s)' => BeforeFirst(s)
      PROVE  Owed(s) /\ (Attempted(s) => Attempted(s)') /\ Carried(s)
  BY <1>o, <1>d, <1>m, OwedBefore DEF FillCarried
<1>1. CASE BufferUnmatchedFill
  <2>1. /\ job'.pc = "reclaim" /\ job'.p = p /\ job'.q = job.q /\ job.pc = "unmatched"
        /\ submit' = submit /\ unmatched'[p] = job.q
        /\ unmatched[p] <= job.q
    <3>1. job'.pc = "reclaim" /\ job'.p = p /\ job'.q = job.q /\ job.pc = "unmatched"
      BY <1>1, <1>t DEF BufferUnmatchedFill, TypeOK, JobType
    <3>2. submit' = submit /\ unmatched'[p] = job.q
      BY <1>1, <1>p DEF BufferUnmatchedFill
    <3>3. p \notin lost'
      BY DEF Owed
    <3>4. ~(unmatched[p] > job.q)
      BY <1>1, <3>3 DEF BufferUnmatchedFill
    <3>5. QED
      BY <3>1, <3>2, <3>4, <1>d, SMTT(30)
  <2>2. (BeforeFirst(s)' => BeforeFirst(s)) /\ ~HandleSuccessfulPlacement
    BY <2>1 DEF BeforeFirst, ToRegister, HandleSuccessfulPlacement
  <2>3. Carried(s) /\ (Attempted(s) => Attempted(s)')
    BY <2>2, <1>o
  <2>4. ASSUME Buffered(s) PROVE Buffered(s)'
    <3>1. unmatched[p] >= delivered[p] /\ job.q >= unmatched[p]
      BY <2>1, <2>4, <1>d DEF Buffered
    <3>2. job.q >= delivered[p]
      BY <3>1, <1>d, StillEnough
    <3>3. unmatched'[p] >= delivered'[p]
      BY <3>2, <2>1, <1>d
    <3>4. QED
      BY <2>1, <2>4, <3>3 DEF Buffered, BeforeReplay
  <2>5. AwaitsLock(s) => AwaitsLock(s)'
    BY <2>1, <1>d DEF AwaitsLock
  <2>6. InJob(s) => InJob(s)'
    BY <2>1, <1>d DEF InJob
  <2>7. QED
    BY <2>3, <2>4, <2>5, <2>6 DEF Carried
<1>2. CASE ReclaimFill
  <2> DEFINE mine == HasPending(p) /\ unmatched[p] # 0
  <2>1. /\ job.pc = "reclaim" /\ job'.pc = "legs" /\ job'.p = p /\ job'.q = job.q
        /\ mine => job'.todo = index[p]
        /\ ~mine => unmatched' = unmatched
        /\ submit' = submit
    BY <1>2, <1>t DEF ReclaimFill, TypeOK, JobType
  <2>2. (BeforeFirst(s)' => BeforeFirst(s)) /\ ~HandleSuccessfulPlacement
    BY <2>1 DEF BeforeFirst, ToRegister, HandleSuccessfulPlacement
  <2>3. Owed(s) /\ Carried(s) /\ (Attempted(s) => Attempted(s)')
    BY <2>2, <1>o
  <2>4. AwaitsLock(s) => AwaitsLock(s)'
    BY <2>1, <1>d DEF AwaitsLock
  <2>5. ASSUME unmatched[p] >= delivered[p] PROVE InJob(s)' \/ (~mine /\ BeforeReplay(s))
    <3>1. unmatched[p] = job.q
      <4>1. unmatched[p] \in {0, job.q}
        BY <2>1 DEF JobConsistent
      <4>2. unmatched[p] # 0
        BY <2>5, <1>d, SMTT(30)
      <4>3. QED
        BY <4>1, <4>2
    <3>2. CASE BeforeFirst(s)
      BY <3>2, <1>i DEF HasPending
    <3>3. CASE ~BeforeFirst(s)
      <4>1. first \in index[p]
        BY <3>3, <2>3 DEF Owed, Live, FirstLegOf
      <4>2. mine
        <5>1. HasPending(p)
          BY <4>1 DEF HasPending
        <5>2. unmatched[p] # 0
          BY <2>5, <1>d, SMTT(30)
        <5>3. QED
          BY <5>1, <5>2
      <4>3. QED
        BY <4>1, <4>2, <2>1, <2>5, <3>1, <1>d DEF InJob, JobLegs
    <3>4. QED
      BY <3>2, <3>3
  <2>6. Buffered(s) => Carried(s)'
    BY <2>1, <2>5, <1>d DEF Buffered, BeforeReplay, Carried
  <2>7. InJob(s) => Carried(s)'
    BY <2>1, <2>5, <1>d DEF InJob, JobLegs, Buffered, BeforeReplay, Carried
  <2>8. QED
    BY <2>3, <2>4, <2>6, <2>7 DEF Carried
<1>3. CASE ProcessEntryFill
  <2>1. /\ job.pc = "legs" /\ job.todo # {} /\ submit' = submit /\ unmatched' = unmatched
        /\ index' = index /\ JobPlaceholder \in Placeholders
    BY <1>3, JobAtLeg DEF ProcessEntryFill
  <2>2. (BeforeFirst(s)' => BeforeFirst(s)) /\ ~HandleSuccessfulPlacement
    BY <2>1 DEF BeforeFirst, ToRegister, HandleSuccessfulPlacement
  <2>3. Carried(s) /\ (Attempted(s) => Attempted(s)')
    BY <2>2, <1>o
  <2>4. (Buffered(s) => Buffered(s)') /\ (AwaitsLock(s) => AwaitsLock(s)')
    BY <2>1, <1>d DEF Buffered, BeforeReplay, AwaitsLock
  <2>5. /\ job'.p = p /\ job'.q = job.q /\ job'.pc \in {"legs", "submit"}
        /\ job'.pc = "legs" => job'.todo = job.todo \ {First(job.todo)}
        /\ job'.pc = "submit" => job'.todo = job.todo
    BY <1>3, <1>t, <1>n DEF ProcessEntryFill, TypeOK, JobType
  <2>6. ASSUME InJob(s) PROVE Carried(s)'
    <3>1. first \in job.todo /\ job.q >= delivered[p]
      BY <2>1, <2>6 DEF InJob, JobLegs
    <3>2. CASE First(job.todo) # first
      BY <2>5, <3>1, <3>2, <1>d DEF Carried, InJob, JobLegs
    <3>3. CASE First(job.todo) = first
      <4>1. f = JobPlaceholder
        BY <3>3 DEF JobPlaceholder, FirstLegOf
      <4>2. ~BeforeFirst(s)
        BY <3>1, <2>1, <1>i DEF Filling
      <4>3. Live(f)' /\ Live(f)
        BY <2>2, <4>2, <1>f, <1>m DEF Owed, NoRevival
      <4>4. CASE Eligible(entry[f], job.q)
        <5>1. entry' = [entry EXCEPT ![f].last = job.q]
          BY <1>3, <4>1, <4>4 DEF ProcessEntryFill
        <5>2. entry'[f].last = job.q
          BY <5>1, <1>f, <1>t DEF TypeOK, EntryType
        <5>3. QED
          BY <5>2, <4>3, <3>1, <1>d DEF Carried, Attempted, FirstLegOf
      <4>5. CASE ~Eligible(entry[f], job.q)
        <5>1. entry' = entry
          BY <1>3, <4>1, <4>5 DEF ProcessEntryFill
        <5>2. ~(job.q > entry[f].last)
          BY <4>3, <4>5 DEF Eligible, Live
        <5>3. QED
          BY <5>1, <5>2, <4>3, <3>1, <1>d, SMTT(30) DEF Carried, Attempted, FirstLegOf
      <4>6. QED
        BY <4>4, <4>5
    <3>4. QED
      BY <3>2, <3>3
  <2>7. QED
    BY <2>3, <2>4, <2>6 DEF Carried
<1>4. CASE PlaceOk \/ PlaceRetry \/ PlaceDeferred \/ PlaceFailed
  <2>1. /\ job.pc = "submit" /\ submit' = submit /\ unmatched' = unmatched
        /\ job'.p = p /\ job'.q = job.q /\ job'.pc \in {"legs", "submit", "record"}
        /\ job'.pc = "legs" => job'.todo = job.todo \ {First(job.todo)}
        /\ job'.pc # "legs" => job'.todo = job.todo
    BY <1>4, <1>t, <1>n DEF PlaceOk, PlaceRetry, PlaceDeferred, PlaceFailed, TypeOK, JobType
  <2>2. (BeforeFirst(s)' => BeforeFirst(s)) /\ ~HandleSuccessfulPlacement
    BY <2>1 DEF BeforeFirst, ToRegister, HandleSuccessfulPlacement
  <2>3. Carried(s) /\ (Attempted(s) => Attempted(s)')
    BY <2>2, <1>o
  <2>4. (Buffered(s) => Buffered(s)') /\ (AwaitsLock(s) => AwaitsLock(s)')
    BY <2>1, <1>d DEF Buffered, BeforeReplay, AwaitsLock
  <2>5. InJob(s) => InJob(s)'
    BY <2>1, <1>d DEF InJob, JobLegs
  <2>6. QED
    BY <2>3, <2>4, <2>5 DEF Carried
<1>5. CASE HandleSuccessfulPlacement
  <2>1. /\ job.pc = "record" /\ submit' = submit /\ unmatched' = unmatched /\ index' = index
        /\ job' = NextLeg /\ JobPlaceholder \in Placeholders /\ First(job.todo) \in job.todo
    BY <1>5, <1>t, JobAtLeg DEF HandleSuccessfulPlacement, JobShape
  <2>2. BeforeFirst(s)' <=> BeforeFirst(s)
    BY <2>1 DEF BeforeFirst, ToRegister
  <2>3. (Buffered(s) => Buffered(s)') /\ (AwaitsLock(s) => AwaitsLock(s)')
    BY <2>1, <1>d DEF Buffered, BeforeReplay, AwaitsLock
  <2>4. InJob(s) => InJob(s)'
    BY <2>1, <1>n, <1>d DEF InJob, JobLegs
  <2>5. CASE f # JobPlaceholder
    <3>1. entry'[f] = entry[f]
      BY <1>5, <2>5, <1>f, <1>t DEF HandleSuccessfulPlacement, TypeOK
    <3>2. Owed(s) /\ (Attempted(s) => Attempted(s)')
      BY <2>1, <2>2, <3>1, <1>d DEF Owed, Attempted, Live, FirstLegOf
    <3>3. QED
      BY <3>2, <2>3, <2>4 DEF FillCarried, Carried
  <2>6. CASE f = JobPlaceholder
    <3>1. ~BeforeFirst(s)
      BY <2>1, <2>6, <1>i DEF JobPlaceholder, FirstLegOf, Filling
    <3>2. Live(f)'
      BY <2>2, <3>1 DEF Owed
    <3>3. Present(entry[f]) /\ entry'[f].last >= entry[f].last
      BY <3>2, <1>f, <1>m DEF Live, MapsShrink
    <3>4. entry[f].last >= job.q
      BY <2>1, <2>6, <3>3 DEF JobConsistent
    <3>5. entry[f].last \in Int /\ entry'[f].last \in Int
      BY <1>f, LastIsQty, LastIsQtyNext DEF TInv
    <3>6. CASE job.q >= delivered[p]
      <4>1. entry[f].last >= delivered[p]
        BY <3>4, <3>5, <3>6, <1>d, StillEnough
      <4>2. entry'[f].last >= delivered[p]
        BY <3>3, <3>5, <4>1, <1>d, StillEnough
      <4>3. entry'[f].last >= delivered'[p]
        BY <4>2, <1>d
      <4>4. QED
        BY <3>2, <4>3 DEF Carried, Attempted, FirstLegOf
    <3>7. CASE ~(job.q >= delivered[p])
      <4>1. job.q # Total /\ job.q < Total
        BY <3>7, <1>d, ConfigAssumption, SMTT(30)
      <4>2. entry'[f] = RecordPlaced(entry[f])
        BY <1>5, <2>6, <3>3, <1>f, <1>t DEF HandleSuccessfulPlacement, TypeOK
      <4>3. IsTerminal(entry[f]) => entry'[f] = entry[f]
        BY <4>1, <4>2 DEF RecordPlaced, IsTerminal
      <4>4. Live(f)
        BY <2>1, <3>2, <3>3, <4>3 DEF Live
      <4>5. Owed(s)
        BY <4>4, <1>d DEF Owed, FirstLegOf
      <4>6. ASSUME Attempted(s) PROVE Attempted(s)'
        <5>1. entry[f].last >= delivered[p]
          BY <4>6 DEF Attempted
        <5>2. entry'[f].last >= delivered[p]
          BY <3>3, <3>5, <5>1, <1>d, StillEnough
        <5>3. entry'[f].last >= delivered'[p]
          BY <5>2, <1>d
        <5>4. QED
          BY <3>2, <5>3 DEF Attempted, FirstLegOf
      <4>7. QED
        BY <4>5, <4>6, <2>3, <2>4 DEF FillCarried, Carried
    <3>8. QED
      BY <3>6, <3>7
  <2>7. QED
    BY <2>5, <2>6
<1>6. CASE EndFill \/ SiblingCancelled \/ \E n \in job.cancels : CancelSiblingOrder(n)
  <2>1. /\ unmatched' = unmatched /\ ~HandleSuccessfulPlacement
        /\ job.pc \in {"legs", "cancel"} /\ (job.pc = "legs" => job.todo = {})
    BY <1>6 DEF EndFill, SiblingCancelled, CancelSiblingOrder, HandleSuccessfulPlacement
  <2>2. ~InJob(s)
    BY <2>1 DEF InJob, JobLegs
  <2>3. \/ submit'[s] = submit[s]
        \/ submit[s].pc = "replaying" /\ submit'[s].pc = "done"
    <3>1. CASE EndFill
      <4>1. job.by # "router" => job.by \in Submissions /\ submit[job.by].pc = "replaying"
        BY <3>1, <1>t DEF EndFill, JobConsistent, TypeOK, JobType
      <4>2. QED
        BY <3>1, <4>1, <1>t DEF EndFill, TypeOK, SubmitType
    <3>2. CASE ~EndFill
      BY <1>6, <3>2 DEF SiblingCancelled, CancelSiblingOrder
    <3>3. QED
      BY <3>1, <3>2
  <2>4. QED
    BY <2>1, <2>2, <2>3, <1>d, <1>m, CarriedFrame
<1>7. QED
  BY <1>1, <1>2, <1>3, <1>4, <1>5, <1>6 DEF FillStep

LEMMA CarriedOtherFill ==
  ASSUME TInv, TInv', RegistrationOrder, JobConsistent, FillCarried,
         NEW s \in Submissions, FillStep, Owed(s)', job.p # PrimaryOf[s]
  PROVE  Carried(s)'
<1> USE DEF handlerMaps, history
<1> DEFINE p == PrimaryOf[s]
           f == FirstLegOf(p)
<1>t. TypeOK /\ JobShape
  BY DEF TInv
<1>p. p \in Primaries /\ p \notin lost'
  BY SubmissionAssumption DEF Owed
<1>1. delivered' = delivered /\ lost \subseteq lost'
  BY DEF FillStep, BufferUnmatchedFill, ReclaimFill, ProcessEntryFill, PlaceOk, PlaceRetry,
     PlaceDeferred, PlaceFailed, HandleSuccessfulPlacement, EndFill, CancelSiblingOrder,
     SiblingCancelled
<1>2. unmatched'[p] = unmatched[p]
  <2>1. CASE BufferUnmatchedFill
    BY <2>1, <1>p DEF BufferUnmatchedFill
  <2>2. CASE ReclaimFill
    BY <2>2, <1>t, <1>p DEF ReclaimFill, TypeOK
  <2>3. CASE UNCHANGED unmatched
    BY <2>3
  <2>4. QED
    BY <2>1, <2>2, <2>3 DEF FillStep, ProcessEntryFill, PlaceOk, PlaceRetry,
       PlaceDeferred, PlaceFailed, HandleSuccessfulPlacement, EndFill, CancelSiblingOrder,
       SiblingCancelled
<1>3. ~InJob(s)
  BY DEF InJob
<1>4. \/ submit'[s] = submit[s]
      \/ submit[s].pc = "replaying" /\ submit'[s].pc = "done"
  <2>1. CASE EndFill
    <3>1. job.by # "router" => job.by \in Submissions /\ submit[job.by].pc = "replaying"
      BY <2>1, <1>t DEF EndFill, JobConsistent, TypeOK, JobType
    <3>2. QED
      BY <2>1, <3>1, <1>t DEF EndFill, TypeOK, SubmitType
  <2>2. CASE UNCHANGED submit
    BY <2>2
  <2>3. QED
    BY <2>1, <2>2 DEF FillStep, BufferUnmatchedFill, ReclaimFill, ProcessEntryFill, PlaceOk,
       PlaceRetry, PlaceDeferred, PlaceFailed, HandleSuccessfulPlacement, CancelSiblingOrder,
       SiblingCancelled
<1>5. CASE HandleSuccessfulPlacement
  <2>1. /\ submit' = submit /\ index' = index
        /\ f # JobPlaceholder
    BY <1>5 DEF HandleSuccessfulPlacement, JobPlaceholder, FirstLegOf
  <2>2. f \in Placeholders
    BY LegsAssumption, FirstIsLeg, <1>p DEF Owed, FirstLegOf, Placeholders
  <2>3. entry'[f] = entry[f]
    BY <1>5, <2>1, <2>2, <1>t DEF HandleSuccessfulPlacement, TypeOK
  <2>4. Owed(s) /\ (Attempted(s) => Attempted(s)')
    BY <2>1, <2>3, <1>1 DEF Owed, Attempted, Live, FirstLegOf, BeforeFirst, ToRegister
  <2>5. (Buffered(s) => Buffered(s)') /\ (AwaitsLock(s) => AwaitsLock(s)')
    BY <2>1, <1>1, <1>2 DEF Buffered, BeforeReplay, AwaitsLock
  <2>6. QED
    BY <2>4, <2>5, <1>3 DEF FillCarried, Carried
<1>6. CASE ~HandleSuccessfulPlacement
  BY <1>1, <1>2, <1>3, <1>4, <1>6, ShrinkFill, NoRevivalFill, CarriedFrame
<1>7. QED
  BY <1>5, <1>6

LEMMA CarriedOwnRouterFill ==
  ASSUME TInv, TInv', RegistrationOrder, FillCarried,
         NEW s \in Submissions, RouterFill(PrimaryOf[s]), Owed(s)'
  PROVE  Carried(s)'
<1> USE DEF handlerMaps, history
<1> DEFINE p == PrimaryOf[s]
           f == FirstLegOf(p)
           first == First(LegsOf[p])
<1>t. TypeOK /\ p \in Primaries
  BY SubmissionAssumption DEF TInv
<1>1. PICK q \in 1 .. filled[p] :
        /\ BeginJob("router", p, q)
        /\ delivered' = [delivered EXCEPT ![p] = IF q > @ THEN q ELSE @]
  BY DEF RouterFill
<1>2. /\ job.pc = "idle" /\ job'.p = p /\ job'.q = q /\ job'.todo = index[p]
      /\ job'.pc = IF HasPending(p) THEN "legs" ELSE "unmatched"
  BY <1>1 DEF BeginJob, Idle
<1>3. UNCHANGED <<entry, index, unmatched, submit, lost>>
  BY DEF RouterFill
<1>4. filled[p] \in Int /\ delivered[p] \in Int /\ q \in Int
      /\ delivered'[p] = IF q > delivered[p] THEN q ELSE delivered[p]
  BY <1>1, <1>t, ConfigAssumption, SMTT(30) DEF TypeOK
<1>5. CASE q > delivered[p]
  <2>0. job'.q >= delivered'[p]
    <3>1. job'.q = q
      BY <1>2
    <3>2. delivered'[p] = q
      BY <1>4, <1>5
    <3>3. q >= q
      BY <1>4, SMTT(30)
    <3>4. QED
      BY <3>1, <3>2, <3>3
  <2>1. CASE BeforeFirst(s)
    <3>1. index[p] = {}
      BY <2>1 DEF BeforeFirst, RegistrationOrder
    <3>2. job'.pc = "unmatched" /\ job'.p = p
      BY <3>1, <1>2 DEF HasPending
    <3>3. QED
      BY <3>2, <2>0 DEF Carried, InJob
  <2>2. CASE ~BeforeFirst(s)
    <3>1. first \in index[p]
      BY <2>2, <1>3 DEF Owed, BeforeFirst, ToRegister, Live, FirstLegOf
    <3>2. QED
      <4>1. job'.pc = "legs" /\ job'.p = p /\ first \in job'.todo
        BY <3>1, <1>2 DEF HasPending
      <4>2. QED
        BY <4>1, <2>0 DEF Carried, InJob, JobLegs
  <2>3. QED
    BY <2>1, <2>2
<1>6. CASE ~(q > delivered[p])
  <2>a. delivered'[p] = delivered[p]
    BY <1>4, <1>6
  <2>b. ~InJob(s)
    BY <1>2 DEF InJob, JobLegs
  <2>1. delivered'[p] = delivered[p] /\ ~InJob(s)
    BY <2>a, <2>b
  <2>2. MapsShrink /\ NoRevival
    BY <1>t, ShrinkEvents, NoRevivalEvents
  <2>3. QED
    BY <2>1, <2>2, <1>3, CarriedFrame
<1>7. QED
  BY <1>5, <1>6

LEMMA CarriedEvents ==
  ASSUME TInv, TInv', RegistrationOrder, FillCarried,
         \/ \E p \in Primaries : BrokerFillPrimary(p) \/ RouterFill(p)
         \/ \E ph \in Placeholders : ExitLegFilled(ph)
         \/ CloseStep \/ Disturbance,
         NEW s \in Submissions, ~RouterFill(PrimaryOf[s]), Owed(s)'
  PROVE  Carried(s)'
<1> USE DEF handlerMaps, history
<1> DEFINE p == PrimaryOf[s]
<1>t. TypeOK /\ p \in Primaries /\ p \notin lost'
  BY SubmissionAssumption DEF TInv, Owed
<1>m. MapsShrink /\ NoRevival
  BY ShrinkEvents, NoRevivalEvents
<1> DEFINE Frame == /\ lost \subseteq lost' /\ delivered'[p] = delivered[p]
                    /\ unmatched'[p] = unmatched[p] /\ submit' = submit
                    /\ job' = job \/ job.pc = "idle"
<1>1. ASSUME NEW r \in Primaries, BrokerFillPrimary(r) PROVE Frame
  BY <1>1 DEF BrokerFillPrimary
<1>2. ASSUME NEW r \in Primaries, RouterFill(r) PROVE Frame
  <2>1. r # p
    BY <1>2
  <2>2. QED
    BY <1>2, <2>1, <1>t DEF RouterFill, BeginJob, TypeOK
<1>3. ASSUME NEW ph \in Placeholders, ExitLegFilled(ph) PROVE Frame
  BY <1>3 DEF ExitLegFilled
<1>4. ASSUME CloseStep PROVE Frame
  BY <1>4 DEF CloseStep, CloseCancelOrder, CloseMarkCancelled
<1>5. ASSUME BufferForeignFill PROVE Frame
  BY <1>5, <1>t DEF BufferForeignFill
<1>6. ASSUME Disturbance, ~BufferForeignFill PROVE Frame
  BY <1>6 DEF Disturbance, BrokerFillExit, ClosePosition, HandleCancellation,
     ClearFailedEntries, CleanupExpiredEntries, ResetCircuitBreaker
<1>7. Frame
  BY <1>1, <1>2, <1>3, <1>4, <1>5, <1>6
<1>8. job' = job \/ ~InJob(s)
  BY <1>7 DEF InJob, JobLegs
<1>9. QED
  BY <1>7, <1>8, <1>m, CarriedFrame

\* A dropped submission takes a fill with it only from the buffer, and a
\* dropped replay had the first leg attempted before its first provider call.
LEMMA CarriedHangUp ==
  ASSUME TInv, TInv', RegistrationOrder, FillCarried, HangUp,
         NEW s \in Submissions, Owed(s)'
  PROVE  Carried(s)'
<1> USE DEF handlerMaps, history
<1> DEFINE p == PrimaryOf[s]
           f == FirstLegOf(p)
<1>t. TypeOK /\ JobShape /\ submit[s] \in SubmitType
  BY DEF TInv, TypeOK
<1>p. p \in Primaries /\ LegsOf[p] \in SUBSET Legs /\ LegsOf[p] # {}
  BY SubmissionAssumption, LegsAssumption DEF Owed
<1>e. entry' = entry /\ index' = index
  BY DEF HangUp, ClientGone, ReplayDropped
<1>m. MapsShrink /\ NoRevival
  <2>1. MapsShrink
    BY ShrinkHangUp
  <2>2. QED
    BY <2>1, <1>e DEF NoRevival, Live
<1>1. ASSUME ClientGone(s) PROVE FALSE
  <2>1. submit'[s].pc = "done" /\ ~BeforeFirst(s)'
    BY <1>1, <1>t DEF ClientGone, SetSubmit, TypeOK, SubmitType, BeforeFirst, ToRegister
  <2>2. Live(f)
    BY <2>1, <1>e DEF Owed, Live
  <2>3. submit[s].pc # "waiting"
    BY <1>1 DEF ClientGone, Owed
  <2>4. ToRegister(s) = LegsOf[p]
    BY <1>1, <2>3 DEF ClientGone, ToRegister
  <2>5. QED
    BY <2>2, <2>4, <1>p, FirstIsLeg DEF RegistrationOrder, Live, FirstLegOf
<1>2. ASSUME NEW t \in Submissions, t # s, ClientGone(t) PROVE Carried(s)'
  <2>1. /\ lost \subseteq lost' /\ delivered' = delivered /\ unmatched' = unmatched
        /\ job' = job /\ submit'[s] = submit[s]
    BY <1>2, <1>t DEF ClientGone, SetSubmit, TypeOK
  <2>2. QED
    BY <2>1, <1>m, CarriedFrame
<1>3. ASSUME NEW t \in Submissions, ReplayDropped(t) PROVE Carried(s)'
  <2>1. /\ lost' = lost /\ delivered' = delivered /\ unmatched' = unmatched
        /\ job.pc \in {"submit", "record"}
    BY <1>3 DEF ReplayDropped
  <2>2. \/ submit'[s] = submit[s]
        \/ submit[s].pc = "replaying" /\ submit'[s].pc = "done"
    BY <1>3, <1>t DEF ReplayDropped, SetSubmit, TypeOK, SubmitType
  <2>3. ~InJob(s)
    <3>1. ASSUME InJob(s) PROVE FALSE
      <4>1. job.p = p /\ First(LegsOf[p]) \in job.todo \ {First(job.todo)}
        BY <2>1, <3>1 DEF InJob, JobLegs
      <4>2. job.todo \subseteq LegsOf[p]
        BY <2>1, <4>1 DEF RegistrationOrder, Filling
      <4>3. QED
        BY <4>1, <4>2, <1>p DEF First, Legs
    <3>2. QED
      BY <3>1
  <2>4. QED
    BY <2>1, <2>2, <2>3, <1>m, CarriedFrame
<1>4. QED
  BY <1>1, <1>2, <1>3 DEF HangUp

LEMMA CarriedNext ==
  ASSUME UniqueSubmission, TInv, TInv', RegistrationOrder, JobConsistent, FillCarried,
         [Next]_vars
  PROVE  FillCarried'
<1> SUFFICES ASSUME NEW s \in Submissions, Owed(s)' PROVE Carried(s)'
  BY DEF FillCarried
<1>1. CASE \E t \in Submissions : SubmitStep(t)
  BY <1>1, CarriedOwnSubmit, CarriedOtherSubmit
<1>2. CASE FillStep
  BY <1>2, CarriedOwnFill, CarriedOtherFill
<1>3. CASE \/ \E p \in Primaries : BrokerFillPrimary(p) \/ RouterFill(p)
           \/ \E ph \in Placeholders : ExitLegFilled(ph)
           \/ CloseStep \/ Disturbance
  BY <1>3, CarriedOwnRouterFill, CarriedEvents
<1>4. CASE UNCHANGED vars
  BY <1>4 DEF vars, FillCarried, Owed, Carried, Attempted, Buffered, AwaitsLock, InJob,
     JobLegs, BeforeFirst, BeforeReplay, ToRegister, Live
<1>5. CASE HangUp
  BY <1>5, CarriedHangUp
<1>6. QED
  BY <1>1, <1>2, <1>3, <1>4, <1>5 DEF Next, Trading

LEMMA Inductive ==
  ASSUME UniqueSubmission
  PROVE  (Init => IInv) /\ (IInv /\ [Next]_vars => IInv')
<1>1. Init => IInv
  <2>1. ASSUME Init PROVE JobConsistent
    BY <2>1 DEF Init, JobConsistent, Idle
  <2>2. ASSUME Init PROVE FillCarried
    <3>1. \A p \in Primaries : delivered[p] = 0
      BY <2>2 DEF Init
    <3>2. ASSUME NEW s \in Submissions PROVE ~Owed(s)
      <4>1. delivered[PrimaryOf[s]] = 0
        BY <3>1, SubmissionAssumption
      <4>2. ~(delivered[PrimaryOf[s]] > 0)
        BY <4>1, SMTT(30)
      <4>3. QED
        BY <4>2 DEF Owed
    <3>3. QED
      BY <3>2 DEF FillCarried
  <2>3. QED
    BY <2>1, <2>2, TypeInit, OrderInit DEF IInv
<1>2. IInv /\ [Next]_vars => IInv'
  <2>1. ASSUME IInv, [Next]_vars PROVE IInv'
    <3>1. TInv'
      BY <2>1, TypeNext DEF IInv
    <3>2. QED
      BY <2>1, <3>1, OrderNext, ConsistentNext, CarriedNext DEF IInv
  <2>2. QED
    BY <2>1
<1>3. QED
  BY <1>1, <1>2

\* The point of the inductive invariant: with nothing under way for the
\* primary, an owed fill can only have been attempted.
LEMMA NotStranded ==
  ASSUME UniqueSubmission, IInv
  PROVE  FirstLegReached
<1> SUFFICES ASSUME NEW s \in Submissions, LegsOf[PrimaryOf[s]] # {},
                    Settled(PrimaryOf[s]), Live(FirstLegOf(PrimaryOf[s])),
                    PrimaryOf[s] \notin lost
             PROVE  entry[FirstLegOf(PrimaryOf[s])].last >= delivered[PrimaryOf[s]]
  BY DEF FirstLegReached, FillReached, FirstLegOf
<1> DEFINE p == PrimaryOf[s]
           f == FirstLegOf(p)
<1>1. p \in Primaries /\ f \in Placeholders
  BY SubmissionAssumption, LegsAssumption, FirstIsLeg DEF FirstLegOf, Placeholders
<1>2. entry[f].last \in Int /\ entry[f].last >= 0 /\ delivered[p] \in Int /\ delivered[p] >= 0
  <2>1. TypeOK
    BY DEF IInv, TInv
  <2>2. QED
    BY <1>1, <2>1, LastIsQty, DeliveredIsQty
<1>3. CASE delivered[p] > 0
  <2>1. Carried(s)
    BY <1>3 DEF IInv, FillCarried, Owed
  <2>2. submit[s].pc = "done" /\ (job.pc = "idle" \/ job.p # p)
    BY DEF Settled
  <2>3. ~Buffered(s) /\ ~AwaitsLock(s)
    BY <2>2 DEF Buffered, BeforeReplay, AwaitsLock
  <2>4. ~InJob(s)
    BY <2>2 DEF InJob, JobLegs
  <2>5. Attempted(s)
    BY <2>1, <2>3, <2>4 DEF Carried
  <2>6. QED
    BY <2>5 DEF Attempted
<1>4. QED
  BY <1>2, <1>3, SMTT(30)

\* A fill handed to handle_fill is never stranded between the lookup, the
\* buffer, the reclaim and the replay, whatever the interleaving with the
\* registration of the exits and with the rest of the gateway, for any number
\* of orders: the leg registered first has been attempted for it.
THEOREM NoFillStranded ==
  ASSUME UniqueSubmission
  PROVE  Spec => []FirstLegReached
<1>1. IInv => FirstLegReached
  BY NotStranded
<1>2. QED
  BY Inductive, <1>1, PTL DEF Spec
=============================================================================
