---------------------------- MODULE EventStream -----------------------------
(***************************************************************************)
(* The audit events of one run: how the unit of work numbers and commits   *)
(* them (db/unit_of_work.py, repositories/write/event_repository.py), how  *)
(* the bus hands them to a subscriber (audit/event_bus.py) and how a       *)
(* WebSocket replays and follows them (api/routes/stream.py).              *)
(*                                                                         *)
(* A writer is whoever emits events of the run: the thread that executes   *)
(* it, an API handler, the sweeper.  Each has a transaction of its own.  A *)
(* guarded UPDATE of the run's row (mark_queued_if_suspended,              *)
(* mark_failed_if_suspended) takes the row's lock at once and keeps it to  *)
(* the end.  A handler assigns other statuses to the mapped object, and    *)
(* its session does not autoflush (db/session.py:23): the row is written   *)
(* by the commit, after the events are numbered, so for the numbering such *)
(* a transaction holds nothing.  Sessions of threads do autoflush          *)
(* (scheduler.py:46 keeps the default): a status a thread has pending is   *)
(* written, and its row locked, when _max_seq is read.  The model leaves   *)
(* that lock out and so allows more.                                       *)
(*                                                                         *)
(* An event is a record of its id and its seq.  Ids are numbers in the     *)
(* order the events were created, so they stand for the timestamps too.    *)
(***************************************************************************)
EXTENDS Naturals, Sequences, FiniteSets

CONSTANTS
    Threads,        \* pool threads that execute the run
    Handlers,       \* API handlers
    Sweepers,       \* the job that times out suspensions
    NoWriter,
    Capacity,       \* size of a subscriber's queue (100)
    SnapshotLimit,  \* rows a replay reads (500)
    MaxBatch,       \* bound: events per transaction
    MaxEvents       \* bound: events of the run

ASSUME StreamAssumption ==
    /\ NoWriter \notin Threads \cup Handlers \cup Sweepers
    /\ Capacity \in Nat \ {0} /\ SnapshotLimit \in Nat \ {0}
    /\ MaxBatch \in Nat \ {0} /\ MaxEvents \in Nat

VARIABLES
    clock,      \* events created so far
    table,      \* the committed rows, each with the kind of its transaction
    rowLock,    \* who holds the lock of the run's row
    tx,         \* where each writer's transaction is
    kind,       \* what it is for
    buffer,     \* its event buffer; once committed, what is left to publish
    stream,     \* where the WebSocket handler is
    feed,       \* Subscription.queue
    dropped,    \* Subscription.dropped
    current,    \* what the handler sends next: a batch of the replay or one event
    replayed,   \* how many rows the replay read
    got,        \* ids the client was sent
    told,       \* ids that were committed when it was last told of a gap
    lost        \* ids dropped that no gap message was sent for yet

busVars == <<feed, dropped, lost>>
clientVars == <<stream, current, replayed, got, told>>
vars == <<clock, table, rowLock, tx, kind, buffer, busVars, clientVars>>

Writers == Threads \cup Handlers \cup Sweepers

\* The transactions of a writer: the executor's events; an answer (a callback or
\* a rejection), a resume and a retry; a timeout.
KindsOf(w) ==
    {k \in {"step"} : w \in Threads}
    \cup {k \in {"answer", "resume", "retry"} : w \in Handlers}
    \cup {k \in {"timeout"} : w \in Sweepers}

Kinds == {"step", "answer", "resume", "retry", "timeout"}

\* Those with a guarded UPDATE of the run.
Claims == {"answer", "resume", "timeout"}

\* Those that publish what commit() returns.
Broadcast == {"step", "answer"}

Init ==
    /\ clock = 0
    /\ table = {}
    /\ rowLock = NoWriter
    /\ tx = [w \in Writers |-> "idle"]
    /\ kind = [w \in Writers |-> "step"]
    /\ buffer = [w \in Writers |-> <<>>]
    /\ stream = "off"
    /\ feed = <<>>
    /\ dropped = FALSE
    /\ lost = {}
    /\ current = {}
    /\ replayed = 0
    /\ got = {}
    /\ told = {}

----------------------------------------------------------------------------
(* Writers. *)

\* EventEmitter.emit: the events of a transaction, seq still unset.
Emit(w) ==
    /\ tx[w] = "idle"
    /\ \E n \in 1..MaxBatch :
          /\ clock + n <= MaxEvents
          /\ buffer' = [buffer EXCEPT ![w] = [k \in 1..n |-> [id |-> clock + k, seq |-> 0]]]
          /\ clock' = clock + n
    /\ \E k \in KindsOf(w) : kind' = [kind EXCEPT ![w] = k]
    /\ tx' = [tx EXCEPT ![w] = "open"]
    /\ UNCHANGED <<table, rowLock, busVars, clientVars>>

\* The UPDATE of the run's row, which waits for whoever holds it.
LockRun(w) ==
    /\ tx[w] = "open" /\ kind[w] \in Claims
    /\ rowLock = NoWriter
    /\ rowLock' = w
    /\ tx' = [tx EXCEPT ![w] = "locked"]
    /\ UNCHANGED <<clock, table, kind, buffer, busVars, clientVars>>

\* It matched no row: someone else moved the run; nothing is committed.
Abandon(w) ==
    /\ tx[w] = "open" /\ kind[w] \in Claims
    /\ rowLock = NoWriter
    /\ buffer' = [buffer EXCEPT ![w] = <<>>]
    /\ tx' = [tx EXCEPT ![w] = "idle"]
    /\ UNCHANGED <<clock, table, rowLock, kind, busVars, clientVars>>

\* m is what _max_seq returns: 0 or a committed seq, and none is higher.
MaxSeq(m) == \A e \in table : e.seq <= m

\* add_batch: continue from the highest committed seq.
Renumber(w) ==
    /\ \E m \in {0} \cup {e.seq : e \in table} :
          /\ MaxSeq(m)
          /\ buffer' = [buffer EXCEPT ![w] =
                          [k \in DOMAIN @ |-> [@[k] EXCEPT !.seq = m + k]]]
    /\ tx' = [tx EXCEPT ![w] = "numbered"]
    /\ UNCHANGED <<clock, table, rowLock, kind, busVars, clientVars>>

\* Mutant of Number: seq is read before the run's row is locked.
NumberUnlocked(w) == tx[w] \in {"open", "locked"} /\ Renumber(w)

\* commit() calls it when the transaction has made its other writes.
Number(w) == tx[w] = (IF kind[w] \in Claims THEN "locked" ELSE "open") /\ Renumber(w)

\* session.commit(): the rows become visible, the lock is released; commit()
\* returns the events; commit_and_broadcast publishes them, RunService and the
\* sweeper do not.
Commit(w) ==
    /\ tx[w] = "numbered"
    /\ table' = table \cup
         {[id |-> buffer[w][k].id, seq |-> buffer[w][k].seq, kind |-> kind[w]] :
              k \in DOMAIN buffer[w]}
    /\ rowLock' = IF rowLock = w THEN NoWriter ELSE rowLock
    /\ IF kind[w] \in Broadcast
       THEN tx' = [tx EXCEPT ![w] = "publish"] /\ UNCHANGED buffer
       ELSE /\ tx' = [tx EXCEPT ![w] = "idle"]
            /\ buffer' = [buffer EXCEPT ![w] = <<>>]
    /\ UNCHANGED <<clock, kind, busVars, clientVars>>

\* Mutant of Published: one event too many.
PublishedOnward(w) ==
    /\ buffer' = [buffer EXCEPT ![w] = Tail(@)]
    /\ tx' = [tx EXCEPT ![w] = IF buffer[w] = <<>> THEN "idle" ELSE "publish"]

\* The writer is done with the first of its events.
Published(w) ==
    /\ buffer' = [buffer EXCEPT ![w] = Tail(@)]
    /\ tx' = [tx EXCEPT ![w] = IF Len(buffer[w]) = 1 THEN "idle" ELSE "publish"]

Subscribed == stream \notin {"off", "closed"}

\* Mutant of Put: an event is for those who have caught up.
PutLive(w) ==
    /\ tx[w] = "publish"
    /\ \/ stream \notin {"live", "deliver"} /\ UNCHANGED feed
       \/ /\ stream \in {"live", "deliver"} /\ Len(feed) < Capacity
          /\ feed' = Append(feed, Head(buffer[w]))
    /\ Published(w)
    /\ UNCHANGED <<clock, table, rowLock, kind, dropped, lost, clientVars>>

\* EventBus.publish, for one event: nobody listens, or put_nowait ...
Put(w) ==
    /\ tx[w] = "publish"
    /\ \/ ~Subscribed /\ UNCHANGED feed
       \/ /\ Subscribed /\ Len(feed) < Capacity
          /\ feed' = Append(feed, Head(buffer[w]))
    /\ Published(w)
    /\ UNCHANGED <<clock, table, rowLock, kind, dropped, lost, clientVars>>

\* ... raises QueueFull ...
PutFull(w) ==
    /\ tx[w] = "publish"
    /\ Subscribed /\ Len(feed) >= Capacity
    /\ lost' = lost \cup {Head(buffer[w]).id}
    /\ tx' = [tx EXCEPT ![w] = "mark"]
    /\ UNCHANGED <<clock, table, rowLock, kind, buffer, feed, dropped, clientVars>>

\* ... and the handler of QueueFull marks the subscription.
MarkDropped(w) ==
    /\ tx[w] = "mark"
    /\ dropped' = TRUE
    /\ Published(w)
    /\ UNCHANGED <<clock, table, rowLock, kind, feed, lost, clientVars>>

WriterStep(w) ==
    \/ LockRun(w) \/ Abandon(w) \/ Number(w) \/ Commit(w)
    \/ Put(w) \/ PutFull(w) \/ MarkDropped(w)

----------------------------------------------------------------------------
(* The WebSocket handler of one connection.  Admission (the ticket, the user,
   the owner) comes before it. *)

\* Subscribe before the snapshot is read.
Subscribe ==
    /\ stream = "off"
    /\ stream' = "subscribed"
    /\ UNCHANGED <<clock, table, rowLock, tx, kind, buffer, busVars, current, replayed, got, told>>

\* What get_by_run(limit=500) returns: the oldest rows.
Snapshot(S) ==
    /\ Cardinality(S) <= SnapshotLimit
    /\ Cardinality(S) < SnapshotLimit => S = table
    /\ \A e \in S, f \in table \ S : e.id < f.id

ReadSnapshot ==
    /\ stream = "subscribed"
    /\ \E S \in SUBSET table :
          /\ Snapshot(S)
          /\ current' = {e.id : e \in S}
          /\ replayed' = Cardinality(S)
    /\ stream' = "replay"
    /\ UNCHANGED <<clock, table, rowLock, tx, kind, buffer, busVars, got, told>>

SendSnapshot ==
    /\ stream = "replay"
    /\ got' = got \cup current
    /\ current' = {}
    /\ stream' = "live"
    /\ UNCHANGED <<clock, table, rowLock, tx, kind, buffer, busVars, replayed, told>>

\* Mutant of Receive: the mark is taken back once the queue has room again.
ReceiveForgetful ==
    /\ stream = "live"
    /\ feed # <<>>
    /\ current' = {Head(feed).id}
    /\ feed' = Tail(feed)
    /\ dropped' = FALSE
    /\ stream' = "deliver"
    /\ UNCHANGED <<clock, table, rowLock, tx, kind, buffer, lost, replayed, got, told>>

\* queue.get() returns.
Receive ==
    /\ stream = "live"
    /\ feed # <<>>
    /\ current' = {Head(feed).id}
    /\ feed' = Tail(feed)
    /\ stream' = "deliver"
    /\ UNCHANGED <<clock, table, rowLock, tx, kind, buffer, dropped, lost, replayed, got, told>>

\* Mutant of Deliver: the gap message is sent, the mark stays set.
DeliverUnreset ==
    /\ stream = "deliver"
    /\ got' = got \cup current
    /\ current' = {}
    /\ IF dropped
       THEN told' = {e.id : e \in table} /\ lost' = {}
       ELSE UNCHANGED <<told, lost>>
    /\ stream' = "live"
    /\ UNCHANGED <<clock, table, rowLock, tx, kind, buffer, feed, dropped, replayed>>

\* If events were dropped the client is told first (it then reads the table
\* again); then the event is sent.
Deliver ==
    /\ stream = "deliver"
    /\ got' = got \cup current
    /\ current' = {}
    /\ IF dropped
       THEN dropped' = FALSE /\ told' = {e.id : e \in table} /\ lost' = {}
       ELSE UNCHANGED <<dropped, told, lost>>
    /\ stream' = "live"
    /\ UNCHANGED <<clock, table, rowLock, tx, kind, buffer, feed, replayed>>

\* The client goes away: unsubscribe.
Close ==
    /\ Subscribed
    /\ stream' = "closed"
    /\ UNCHANGED <<clock, table, rowLock, tx, kind, buffer, busVars, current, replayed, got, told>>

StreamStep == ReadSnapshot \/ SendSnapshot \/ Receive \/ Deliver

----------------------------------------------------------------------------
Next ==
    \/ \E w \in Writers : Emit(w) \/ WriterStep(w)
    \/ Subscribe \/ StreamStep \/ Close

Spec == Init /\ [][Next]_vars

\* Transactions end, and the handler's loop turns (at the latest when the
\* keepalive times out).
FairSpec ==
    /\ Spec
    /\ \A w \in Writers : WF_vars(WriterStep(w))
    /\ WF_vars(StreamStep)

----------------------------------------------------------------------------
(* Properties. *)

Event == [id : Nat, seq : Nat]

\* Every variable has its type.
TypeOK ==
    /\ clock \in Nat
    /\ table \subseteq [id : Nat, seq : Nat, kind : Kinds]
    /\ IsFiniteSet(table)
    /\ rowLock \in Writers \cup {NoWriter}
    /\ tx \in [Writers -> {"idle", "open", "locked", "numbered", "publish", "mark"}]
    /\ kind \in [Writers -> Kinds]
    /\ buffer \in [Writers -> Seq(Event)]
    /\ \A w \in Writers : tx[w] # "idle" => buffer[w] # <<>>
    /\ stream \in {"off", "subscribed", "replay", "live", "deliver", "closed"}
    /\ feed \in Seq(Event) /\ Len(feed) <= Capacity
    /\ dropped \in BOOLEAN
    /\ lost \subseteq Nat /\ current \subseteq Nat
    /\ replayed \in Nat
    /\ got \subseteq Nat /\ told \subseteq Nat

\* Events on their way to the client, or already there.
InFeed == {feed[k].id : k \in DOMAIN feed}

Unpublished ==
    UNION {{buffer[w][k].id : k \in DOMAIN buffer[w]} :
              w \in {v \in Writers : tx[v] \in {"publish", "mark"}}}

\* No event that is broadcast is missed by a client whose replay was not cut off
\* at the limit: once the replay has been read, whatever a broadcasting
\* transaction has committed was sent, is being sent, is in the queue, is still
\* to be published, or was dropped and is (or will be) covered by a gap message.
\* The events of a resume, a retry or a timeout reach it only by the replay.
NothingMissed ==
    stream \in {"replay", "live", "deliver"} /\ replayed < SnapshotLimit =>
        \A e \in table : e.kind \in Broadcast =>
            e.id \in got \cup current \cup InFeed \cup Unpublished \cup told \cup lost

\* A dropped event is not forgotten: the subscription is marked, or the writer
\* that met the full queue is about to mark it.
DropIsMarked ==
    Subscribed /\ lost # {} => dropped \/ \E w \in Writers : tx[w] = "mark"

\* A marked drop is announced once another event is received.
MarkedDropIsTold ==
    (dropped /\ stream = "live" /\ feed # <<>>) ~> (~dropped \/ stream = "closed")

\* Claims of the run number their events above those of every claim before: the
\* answers, resumes and timeouts of a run are ordered by seq as they happened.
ClaimSeqMonotonic ==
    [][\A e \in table' \ table, f \in table :
          e.kind \in Claims /\ f.kind \in Claims => f.seq < e.seq]_vars

\* "a monotonic per-run seq": no two events of the run have the same one.
SeqUnique == \A e, f \in table : e.seq = f.seq => e = f
=============================================================================
