-------------------------- MODULE EventStreamProofs -------------------------
(***************************************************************************)
(* What is proved of EventStream for every set of writers, queue capacity, *)
(* replay limit and bound: its type invariant, that a dropped event is     *)
(* marked, that no broadcast event is missed, and that the claims of a run *)
(* number their events in order.                                           *)
(***************************************************************************)
EXTENDS EventStream, FiniteSetTheorems, TLAPS

\* The tail of a buffer holds the same events one place earlier.
LEMMA TailPositions ==
    ASSUME NEW S, NEW b \in Seq(S), b # <<>>
    PROVE  /\ Head(b) = b[1] /\ 1 \in DOMAIN b /\ b[1] \in S
           /\ Tail(b) \in Seq(S) /\ Len(Tail(b)) = Len(b) - 1
           /\ Len(b) # 1 => Tail(b) # <<>>
           /\ \A k \in DOMAIN Tail(b) : k + 1 \in DOMAIN b /\ Tail(b)[k] = b[k + 1]
           /\ \A k \in DOMAIN b : k # 1 => k - 1 \in DOMAIN Tail(b) /\ b[k] = Tail(b)[k - 1]
<1>1. Tail(b) \in Seq(S) /\ Len(Tail(b)) = Len(b) - 1 /\ Len(b) \in Nat
  OBVIOUS
<1>2. Tail(b) = <<>> => Len(Tail(b)) = 0
  <2>1. Len(<<>>) = 0
    OBVIOUS
  <2> QED
    BY <2>1, Zenon
<1>3. Len(b) # 1 => Tail(b) # <<>>
  BY <1>1, <1>2
<1> QED
  BY <1>1, <1>3

LEMMA BufferEntries ==
    ASSUME NEW b \in Seq(Event)
    PROVE  \A k \in DOMAIN b :
              k \in Nat /\ b[k] \in Event /\ b[k].id \in Nat /\ b[k].seq \in Nat
<1>1. \A k \in DOMAIN b : k \in Nat /\ b[k] \in Event
  OBVIOUS
<1> QED
  BY <1>1 DEF Event

\* Numbering keeps the events of a buffer and changes their seq only.
LEMMA RenumberShape ==
    ASSUME TypeOK, NEW w \in Writers, Renumber(w)
    PROVE  \E m \in Nat :
              /\ MaxSeq(m)
              /\ buffer' \in [Writers -> Seq(Event)]
              /\ \A v \in Writers \ {w} : buffer'[v] = buffer[v]
              /\ DOMAIN buffer'[w] = DOMAIN buffer[w]
              /\ \A k \in DOMAIN buffer[w] :
                    /\ buffer'[w][k].id = buffer[w][k].id
                    /\ buffer'[w][k].seq = m + k
<1>1. PICK m \in {0} \cup {e.seq : e \in table} :
        /\ MaxSeq(m)
        /\ buffer' = [buffer EXCEPT ![w] = [k \in DOMAIN @ |-> [@[k] EXCEPT !.seq = m + k]]]
  BY DEF Renumber
<1>2. m \in Nat
  BY DEF TypeOK
<1>3. buffer \in [Writers -> Seq(Event)]
  BY DEF TypeOK
<1>4. buffer'[w] = [k \in DOMAIN buffer[w] |-> [buffer[w][k] EXCEPT !.seq = m + k]]
  BY <1>1, <1>3
<1>5. ASSUME NEW k \in DOMAIN buffer[w]
      PROVE  /\ [buffer[w][k] EXCEPT !.seq = m + k] \in Event
             /\ [buffer[w][k] EXCEPT !.seq = m + k].id = buffer[w][k].id
             /\ [buffer[w][k] EXCEPT !.seq = m + k].seq = m + k
  <2>0. buffer[w] \in Seq(Event)
    BY <1>3
  <2>1. buffer[w][k] \in [id : Nat, seq : Nat] /\ k \in Nat
    BY <2>0, BufferEntries DEF Event
  <2>2. m + k \in Nat
    BY <1>2, <2>1
  <2> QED
    BY <2>1, <2>2 DEF Event
<1>6. buffer'[w] \in Seq(Event)
  <2>1. DOMAIN buffer[w] = 1..Len(buffer[w]) /\ Len(buffer[w]) \in Nat
    BY <1>3
  <2> QED
    BY <1>4, <1>5, <2>1
<1>7. buffer' \in [Writers -> Seq(Event)] /\ \A v \in Writers \ {w} : buffer'[v] = buffer[v]
  BY <1>1, <1>3, <1>6
<1> QED
  BY <1>1, <1>2, <1>4, <1>5, <1>7

----------------------------------------------------------------------------
(* Types. *)

\* Emit fills an empty buffer.
LEMMA TypeOfEmit ==
    ASSUME TypeOK, NEW w \in Writers, Emit(w)
    PROVE  TypeOK'
<1>1. PICK n \in 1..MaxBatch :
        /\ buffer' = [buffer EXCEPT ![w] = [k \in 1..n |-> [id |-> clock + k, seq |-> 0]]]
        /\ clock' = clock + n
  BY DEF Emit
<1>2. n \in Nat \ {0} /\ clock \in Nat
  BY StreamAssumption DEF TypeOK
<1> DEFINE b == [k \in 1..n |-> [id |-> clock + k, seq |-> 0]]
<1>3. b \in Seq(Event)
  BY <1>2 DEF Event
<1>4. b # <<>>
  BY <1>2
<1>5. /\ buffer' \in [Writers -> Seq(Event)] /\ clock' \in Nat
      /\ \A v \in Writers : tx'[v] # "idle" => buffer'[v] # <<>>
  <2>1. buffer' = [buffer EXCEPT ![w] = b] /\ clock' \in Nat
    BY <1>1, <1>2
  <2> HIDE DEF b
  <2> QED
    BY <1>3, <1>4, <2>1 DEF TypeOK, Emit
<1>6. kind' \in [Writers -> Kinds]
  BY DEF TypeOK, Emit, KindsOf, Kinds
<1> QED
  BY <1>5, <1>6 DEF Emit, TypeOK, busVars, clientVars

\* A transaction locks, gives up or numbers its events.
LEMMA TypeOfOpen ==
    ASSUME TypeOK, NEW w \in Writers, LockRun(w) \/ Abandon(w) \/ Number(w)
    PROVE  TypeOK'
<1>1. CASE LockRun(w)
  BY <1>1 DEF LockRun, TypeOK, busVars, clientVars
<1>2. CASE Abandon(w)
  BY <1>2 DEF Abandon, TypeOK, busVars, clientVars
<1>3. CASE Number(w)
  <2>1. Renumber(w) /\ tx[w] # "idle"
    BY <1>3 DEF Number
  <2>2. /\ buffer' \in [Writers -> Seq(Event)]
        /\ \A v \in Writers \ {w} : buffer'[v] = buffer[v]
        /\ DOMAIN buffer'[w] = DOMAIN buffer[w]
    BY <2>1, RenumberShape
  <2>3. buffer[w] # <<>> /\ buffer[w] \in Seq(Event) /\ buffer'[w] \in Seq(Event)
    BY <2>1, <2>2 DEF TypeOK
  <2>4. buffer'[w] # <<>>
    BY <2>2, <2>3
  <2> QED
    BY <2>1, <2>2, <2>4 DEF Renumber, TypeOK, busVars, clientVars
<1> QED
  BY <1>1, <1>2, <1>3

\* The rows Commit inserts.
Inserted(w) ==
    {[id |-> buffer[w][k].id, seq |-> buffer[w][k].seq, kind |-> kind[w]] :
        k \in DOMAIN buffer[w]}

LEMMA TypeOfCommit ==
    ASSUME TypeOK, NEW w \in Writers, Commit(w)
    PROVE  TypeOK'
<1>1. table' = table \cup Inserted(w)
  BY DEF Commit, Inserted
<1>2. Inserted(w) \subseteq [id : Nat, seq : Nat, kind : Kinds]
  <2>1. \A k \in DOMAIN buffer[w] : buffer[w][k].id \in Nat /\ buffer[w][k].seq \in Nat
    <3>1. buffer[w] \in Seq(Event)
      BY DEF TypeOK
    <3> QED
      BY <3>1, BufferEntries
  <2>2. kind[w] \in Kinds
    BY DEF TypeOK
  <2>3. \A k \in DOMAIN buffer[w] :
          [id |-> buffer[w][k].id, seq |-> buffer[w][k].seq, kind |-> kind[w]]
          \in [id : Nat, seq : Nat, kind : Kinds]
    BY <2>1, <2>2
  <2> QED
    BY <2>3 DEF Inserted
<1>3. IsFiniteSet(Inserted(w))
  <2>1. DOMAIN buffer[w] = 1..Len(buffer[w]) /\ Len(buffer[w]) \in Nat
    BY DEF TypeOK
  <2>2. IsFiniteSet(DOMAIN buffer[w])
    BY <2>1, FS_Interval
  <2> DEFINE row(k) == [id |-> buffer[w][k].id, seq |-> buffer[w][k].seq, kind |-> kind[w]]
             f == [k \in DOMAIN buffer[w] |-> row(k)]
  <2>3. f \in Surjection(DOMAIN buffer[w], Inserted(w))
    BY DEF Surjection, Inserted
  <2> QED
    BY <2>2, <2>3, FS_Surjection
<1>4. IsFiniteSet(table')
  BY <1>1, <1>3, FS_Union DEF TypeOK
<1>5. /\ tx' \in [Writers -> {"idle", "open", "locked", "numbered", "publish", "mark"}]
      /\ buffer' \in [Writers -> Seq(Event)]
      /\ \A v \in Writers : tx'[v] # "idle" => buffer'[v] # <<>>
      /\ rowLock' \in Writers \cup {NoWriter}
  <2>1. CASE kind[w] \notin Broadcast
    <3>1. <<>> \in Seq(Event)
      OBVIOUS
    <3> QED
      BY <2>1, <3>1 DEF Commit, TypeOK
  <2>2. CASE kind[w] \in Broadcast
    BY <2>2 DEF Commit, TypeOK
  <2> QED
    BY <2>1, <2>2
<1> QED
  BY <1>1, <1>2, <1>4, <1>5 DEF Commit, TypeOK, busVars, clientVars

\* An event leaves its writer's buffer.
LEMMA TypeOfPublished ==
    ASSUME TypeOK, NEW w \in Writers, tx[w] # "idle", Published(w)
    PROVE  /\ tx' \in [Writers -> {"idle", "open", "locked", "numbered", "publish", "mark"}]
           /\ buffer' \in [Writers -> Seq(Event)]
           /\ \A v \in Writers : tx'[v] # "idle" => buffer'[v] # <<>>
<1>1. buffer[w] \in Seq(Event) /\ buffer[w] # <<>>
  BY DEF TypeOK
<1>2. Tail(buffer[w]) \in Seq(Event) /\ Len(Tail(buffer[w])) = Len(buffer[w]) - 1
  BY <1>1, TailPositions
<1>3. Len(buffer[w]) # 1 => Tail(buffer[w]) # <<>>
  BY <1>1, TailPositions
<1> QED
  BY <1>2, <1>3 DEF Published, TypeOK

LEMMA TypeOfPublish ==
    ASSUME TypeOK, NEW w \in Writers, Put(w) \/ PutFull(w) \/ MarkDropped(w)
    PROVE  TypeOK'
<1>1. buffer[w] \in Seq(Event) /\ buffer[w] # <<>> /\ tx[w] # "idle"
  BY DEF TypeOK, Put, PutFull, MarkDropped
<1>2. Head(buffer[w]) \in Event
  BY <1>1, TailPositions
<1>3. CASE Put(w)
  <2>1. feed' \in Seq(Event) /\ Len(feed') <= Capacity
    <3>1. CASE UNCHANGED feed
      BY <3>1 DEF TypeOK
    <3>2. CASE Len(feed) < Capacity /\ feed' = Append(feed, Head(buffer[w]))
      <4>1. feed \in Seq(Event) /\ Capacity \in Nat
        BY StreamAssumption DEF TypeOK
      <4>2. feed' \in Seq(Event) /\ Len(feed') = Len(feed) + 1 /\ Len(feed) \in Nat
        BY <1>2, <3>2, <4>1
      <4> QED
        BY <3>2, <4>1, <4>2
    <3> QED
      BY <1>3, <3>1, <3>2 DEF Put
  <2> QED
    BY <1>1, <1>3, <2>1, TypeOfPublished DEF Put, TypeOK, clientVars
<1>4. CASE PutFull(w)
  BY <1>1, <1>2, <1>4 DEF PutFull, TypeOK, Event, clientVars
<1>5. CASE MarkDropped(w)
  BY <1>1, <1>5, TypeOfPublished DEF MarkDropped, TypeOK, clientVars
<1> QED
  BY <1>3, <1>4, <1>5

LEMMA TypeOfStream ==
    ASSUME TypeOK, Subscribe \/ StreamStep \/ Close
    PROVE  TypeOK'
<1>1. CASE Subscribe \/ Close
  BY <1>1 DEF Subscribe, Close, TypeOK, busVars
<1>2. CASE ReadSnapshot
  <2>1. PICK S \in SUBSET table :
          current' = {e.id : e \in S} /\ replayed' = Cardinality(S)
    BY <1>2 DEF ReadSnapshot
  <2>2. IsFiniteSet(S)
    BY <2>1, FS_Subset DEF TypeOK
  <2>3. current' \subseteq Nat /\ replayed' \in Nat
    BY <2>1, <2>2, FS_CardinalityType DEF TypeOK
  <2> QED
    BY <1>2, <2>3 DEF ReadSnapshot, TypeOK, busVars
<1>3. CASE SendSnapshot
  BY <1>3 DEF SendSnapshot, TypeOK, busVars
<1>4. CASE Receive
  <2>1. /\ Head(feed) \in Event /\ Tail(feed) \in Seq(Event)
        /\ Len(Tail(feed)) = Len(feed) - 1 /\ Len(feed) \in Nat
    BY <1>4, TailPositions DEF Receive, TypeOK
  <2> QED
    BY <1>4, <2>1, StreamAssumption DEF Receive, TypeOK, Event
<1>5. CASE Deliver
  <2>1. told' \subseteq Nat /\ lost' \subseteq Nat /\ dropped' \in BOOLEAN
    <3>1. {e.id : e \in table} \subseteq Nat
      BY DEF TypeOK
    <3> QED
      BY <1>5, <3>1 DEF Deliver, TypeOK
  <2> QED
    BY <1>5, <2>1 DEF Deliver, TypeOK
<1> QED
  BY <1>1, <1>2, <1>3, <1>4, <1>5 DEF StreamStep

\* Every variable keeps its type: a transaction under way has events in its
\* buffer, and the queue never holds more than its capacity.
THEOREM StreamTypeCorrect == Spec => []TypeOK
<1>1. Init => TypeOK
  <2> SUFFICES ASSUME Init PROVE TypeOK
    OBVIOUS
  <2>1. <<>> \in Seq(Event) /\ Len(<<>>) <= Capacity
    BY StreamAssumption
  <2>2. IsFiniteSet(table)
    BY FS_EmptySet DEF Init
  <2> QED
    BY <2>1, <2>2 DEF Init, TypeOK, Kinds
<1>2. TypeOK /\ [Next]_vars => TypeOK'
  <2> SUFFICES ASSUME TypeOK, [Next]_vars PROVE TypeOK'
    OBVIOUS
  <2>1. CASE UNCHANGED vars
    BY <2>1 DEF vars, busVars, clientVars, TypeOK
  <2> QED
    BY <2>1, TypeOfEmit, TypeOfOpen, TypeOfCommit, TypeOfPublish, TypeOfStream
       DEF Next, WriterStep
<1> QED
  BY <1>1, <1>2, PTL DEF Spec

----------------------------------------------------------------------------
(* Events on their way to the client. *)

\* What is still in a writer's hands after its commit is in the table, and an
\* event that met a full queue is lost, or covered by a gap, before its mark.
WriterInv ==
    /\ \A w \in Writers : tx[w] \in {"publish", "mark"} =>
          \A k \in DOMAIN buffer[w] : \E e \in table : e.id = buffer[w][k].id
    /\ \A w \in Writers : tx[w] = "mark" =>
          /\ stream # "off"
          /\ Head(buffer[w]).id \in lost \cup told
    /\ stream = "off" => lost = {}
    /\ stream = "live" => current = {}

\* The invariant that carries both properties.
FlowInv == WriterInv /\ DropIsMarked /\ NothingMissed

\* A transaction that has not committed has nothing to publish.
LEMMA FlowOfOpen ==
    ASSUME TypeOK, FlowInv, NEW w \in Writers,
           Emit(w) \/ LockRun(w) \/ Abandon(w) \/ Number(w)
    PROVE  FlowInv'
<1>1. /\ UNCHANGED <<table, busVars, clientVars>>
      /\ tx[w] \notin {"publish", "mark"} /\ tx'[w] \notin {"publish", "mark"}
      /\ \A v \in Writers \ {w} : tx'[v] = tx[v] /\ buffer'[v] = buffer[v]
  BY DEF Emit, LockRun, Abandon, Number, Renumber, TypeOK
<1>2. WriterInv'
  BY <1>1 DEF FlowInv, WriterInv, busVars, clientVars
<1>3. DropIsMarked'
  BY <1>1 DEF FlowInv, DropIsMarked, Subscribed, busVars, clientVars
<1>4. Unpublished \subseteq Unpublished'
  BY <1>1 DEF Unpublished
<1>5. NothingMissed'
  BY <1>1, <1>4 DEF FlowInv, NothingMissed, InFeed, busVars, clientVars
<1> QED
  BY <1>2, <1>3, <1>5 DEF FlowInv

\* What is committed is published, unless its transaction does not broadcast.
LEMMA FlowOfCommit ==
    ASSUME TypeOK, FlowInv, NEW w \in Writers, Commit(w)
    PROVE  FlowInv'
<1>1. /\ UNCHANGED <<busVars, clientVars>>
      /\ table' = table \cup Inserted(w)
      /\ tx[w] = "numbered"
      /\ \A v \in Writers \ {w} : tx'[v] = tx[v] /\ buffer'[v] = buffer[v]
      /\ kind[w] \notin Broadcast => tx'[w] = "idle"
      /\ kind[w] \in Broadcast => tx'[w] = "publish" /\ buffer'[w] = buffer[w]
  BY DEF Commit, Inserted, TypeOK
<1>2. /\ \A k \in DOMAIN buffer[w] : \E e \in Inserted(w) : e.id = buffer[w][k].id
      /\ \A e \in Inserted(w) :
            (e.kind \in Broadcast => kind[w] \in Broadcast) /\ \E k \in DOMAIN buffer[w] : e.id = buffer[w][k].id
  <2>1. ASSUME NEW e \in Inserted(w)
        PROVE  (e.kind \in Broadcast => kind[w] \in Broadcast) /\ \E k \in DOMAIN buffer[w] : e.id = buffer[w][k].id
    <3>1. PICK k \in DOMAIN buffer[w] :
            e = [id |-> buffer[w][k].id, seq |-> buffer[w][k].seq, kind |-> kind[w]]
      BY DEF Inserted
    <3>2. e.kind = kind[w] /\ e.id = buffer[w][k].id
      BY <3>1
    <3> QED
      BY <3>2
  <2>2. ASSUME NEW k \in DOMAIN buffer[w]
        PROVE  \E e \in Inserted(w) : e.id = buffer[w][k].id
    <3> DEFINE row == [id |-> buffer[w][k].id, seq |-> buffer[w][k].seq, kind |-> kind[w]]
    <3>1. row.id = buffer[w][k].id
      OBVIOUS
    <3>2. row \in Inserted(w)
      BY DEF Inserted
    <3> QED
      BY <3>1, <3>2
  <2> QED
    BY <2>1, <2>2
<1>3. WriterInv'
  <2>1. ASSUME NEW v \in Writers, tx'[v] \in {"publish", "mark"}
        PROVE  \A k \in DOMAIN buffer'[v] : \E e \in table' : e.id = buffer'[v][k].id
    BY <1>1, <1>2, <2>1 DEF FlowInv, WriterInv
  <2>2. \A v \in Writers : tx'[v] = "mark" => v # w
    BY <1>1
  <2> QED
    BY <1>1, <2>1, <2>2 DEF FlowInv, WriterInv, busVars, clientVars
<1>4. DropIsMarked'
  BY <1>1 DEF FlowInv, DropIsMarked, Subscribed, busVars, clientVars
<1>5. ASSUME NEW i \in Unpublished PROVE i \in Unpublished'
  <2>1. PICK v \in Writers : /\ tx[v] \in {"publish", "mark"}
                              /\ \E k \in DOMAIN buffer[v] : i = buffer[v][k].id
    BY DEF Unpublished
  <2>2. v # w /\ tx'[v] = tx[v] /\ buffer'[v] = buffer[v]
    BY <1>1, <2>1
  <2> QED
    BY <2>1, <2>2 DEF Unpublished
<1>6. \A e \in Inserted(w) : e.kind \in Broadcast => e.id \in Unpublished'
  BY <1>1, <1>2 DEF Unpublished
<1>7. NothingMissed'
  BY <1>1, <1>5, <1>6 DEF FlowInv, NothingMissed, InFeed, busVars, clientVars
<1> QED
  BY <1>3, <1>4, <1>7 DEF FlowInv

\* Once its first event is dealt with, a writer holds the others.
LEMMA PublishedShape ==
    ASSUME TypeOK, NEW w \in Writers, tx[w] \in {"publish", "mark"}, Published(w)
    PROVE  /\ \A v \in Writers \ {w} : tx'[v] = tx[v] /\ buffer'[v] = buffer[v]
           /\ tx'[w] \in {"idle", "publish"}
           /\ \A k \in DOMAIN buffer'[w] :
                 \E m \in DOMAIN buffer[w] : buffer'[w][k] = buffer[w][m]
           /\ Unpublished \subseteq Unpublished' \cup {Head(buffer[w]).id}
<1>1. /\ buffer[w] \in Seq(Event) /\ buffer[w] # <<>>
      /\ buffer'[w] = Tail(buffer[w])
      /\ tx'[w] = IF Len(buffer[w]) = 1 THEN "idle" ELSE "publish"
      /\ \A v \in Writers \ {w} : tx'[v] = tx[v] /\ buffer'[v] = buffer[v]
  BY DEF TypeOK, Published
<1>2. \A k \in DOMAIN buffer'[w] :
        \E m \in DOMAIN buffer[w] : buffer'[w][k] = buffer[w][m]
  BY <1>1, TailPositions
<1>3. ASSUME NEW k \in DOMAIN buffer[w], k # 1
      PROVE  buffer[w][k].id \in Unpublished'
  <2>1. Len(buffer[w]) # 1
    BY <1>1, <1>3
  <2>2. k - 1 \in DOMAIN buffer'[w] /\ buffer[w][k] = buffer'[w][k - 1]
    BY <1>1, <1>3, TailPositions
  <2>3. tx'[w] = "publish"
    BY <1>1, <2>1
  <2> QED
    BY <2>2, <2>3 DEF Unpublished
<1>4. Head(buffer[w]) = buffer[w][1]
  BY <1>1, TailPositions
<1>5. ASSUME NEW i \in Unpublished PROVE i \in Unpublished' \cup {Head(buffer[w]).id}
  <2>1. PICK v \in Writers : /\ tx[v] \in {"publish", "mark"}
                              /\ \E k \in DOMAIN buffer[v] : i = buffer[v][k].id
    BY DEF Unpublished
  <2>2. CASE v # w
    BY <1>1, <2>1, <2>2 DEF Unpublished
  <2>3. CASE v = w
    BY <1>3, <1>4, <2>1, <2>3
  <2> QED
    BY <2>2, <2>3
<1> QED
  BY <1>1, <1>2, <1>5

\* An event is put, or finds the queue full, or its drop is marked.
LEMMA FlowOfPublish ==
    ASSUME TypeOK, FlowInv, NEW w \in Writers, Put(w) \/ PutFull(w) \/ MarkDropped(w)
    PROVE  FlowInv'
<1>0. UNCHANGED <<table, clientVars>> /\ tx[w] \in {"publish", "mark"}
  BY DEF Put, PutFull, MarkDropped
<1>1. CASE Put(w)
  <2>1. Published(w) /\ UNCHANGED <<dropped, lost>>
    BY <1>1 DEF Put
  <2>2. WriterInv' /\ DropIsMarked'
    BY <1>0, <1>1, <2>1, PublishedShape
       DEF Put, FlowInv, WriterInv, DropIsMarked, Subscribed, clientVars
  <2>3. InFeed \subseteq InFeed' /\ (Subscribed => Head(buffer[w]).id \in InFeed')
    <3>1. CASE UNCHANGED feed /\ ~Subscribed
      BY <3>1 DEF InFeed
    <3>2. CASE feed' = Append(feed, Head(buffer[w]))
      <4>1. feed \in Seq(Event)
        BY DEF TypeOK
      <4>2. /\ DOMAIN feed \subseteq DOMAIN feed' /\ \A k \in DOMAIN feed : feed'[k] = feed[k]
            /\ Len(feed) + 1 \in DOMAIN feed' /\ feed'[Len(feed) + 1] = Head(buffer[w])
        BY <3>2, <4>1
      <4> QED
        BY <4>2 DEF InFeed
    <3> QED
      BY <1>1, <3>1, <3>2 DEF Put
  <2>4. NothingMissed'
    BY <1>0, <2>1, <2>3, PublishedShape DEF FlowInv, NothingMissed, Subscribed, clientVars
  <2> QED
    BY <2>2, <2>4 DEF FlowInv
<1>2. CASE PutFull(w)
  <2>1. /\ lost' = lost \cup {Head(buffer[w]).id} /\ stream # "off"
        /\ tx' = [tx EXCEPT ![w] = "mark"] /\ UNCHANGED <<buffer, feed, dropped>>
    BY <1>2 DEF PutFull, Subscribed
  <2>2. tx'[w] = "mark" /\ \A v \in Writers \ {w} : tx'[v] = tx[v]
    BY <2>1 DEF TypeOK
  <2>3. WriterInv'
    BY <1>0, <2>1, <2>2 DEF FlowInv, WriterInv, clientVars
  <2>4. DropIsMarked'
    BY <2>2 DEF DropIsMarked
  <2>5. Unpublished \subseteq Unpublished'
    BY <2>1, <2>2 DEF Unpublished
  <2>6. NothingMissed'
    BY <1>0, <2>1, <2>5 DEF FlowInv, NothingMissed, InFeed, clientVars
  <2> QED
    BY <2>3, <2>4, <2>6 DEF FlowInv
<1>3. CASE MarkDropped(w)
  <2>1. /\ Published(w) /\ dropped' = TRUE /\ UNCHANGED <<feed, lost>>
        /\ Head(buffer[w]).id \in lost \cup told
    BY <1>3 DEF MarkDropped, FlowInv, WriterInv
  <2>2. WriterInv' /\ DropIsMarked'
    BY <1>0, <2>1, PublishedShape DEF FlowInv, WriterInv, DropIsMarked, clientVars
  <2>3. NothingMissed'
    BY <1>0, <2>1, PublishedShape DEF FlowInv, NothingMissed, InFeed, clientVars
  <2> QED
    BY <2>2, <2>3 DEF FlowInv
<1> QED
  BY <1>1, <1>2, <1>3

\* The handler replays, receives and sends.
LEMMA FlowOfStream ==
    ASSUME TypeOK, FlowInv, Subscribe \/ StreamStep \/ Close
    PROVE  FlowInv'
<1>1. UNCHANGED <<table, tx, buffer>>
  BY DEF Subscribe, StreamStep, Close, ReadSnapshot, SendSnapshot, Receive, Deliver
<1>2. Unpublished' = Unpublished
  BY <1>1 DEF Unpublished
<1>3. CASE Subscribe
  BY <1>1, <1>3 DEF Subscribe, FlowInv, WriterInv, DropIsMarked, NothingMissed, Subscribed, busVars
<1>4. CASE Close
  BY <1>1, <1>4 DEF Close, FlowInv, WriterInv, DropIsMarked, NothingMissed, Subscribed, busVars
<1>5. CASE ReadSnapshot
  <2>1. stream = "subscribed" /\ stream' = "replay" /\ UNCHANGED <<busVars, got, told>>
    BY <1>5 DEF ReadSnapshot
  <2>2. replayed' < SnapshotLimit => current' = {e.id : e \in table}
    BY <1>5 DEF ReadSnapshot, Snapshot
  <2> QED
    BY <1>1, <2>1, <2>2 DEF FlowInv, WriterInv, DropIsMarked, NothingMissed, Subscribed, busVars
<1>6. CASE SendSnapshot
  BY <1>1, <1>2, <1>6
     DEF SendSnapshot, FlowInv, WriterInv, DropIsMarked, NothingMissed, Subscribed, InFeed, busVars
<1>7. CASE Receive
  <2>1. /\ stream = "live" /\ stream' = "deliver" /\ feed # <<>>
        /\ current' = {Head(feed).id} /\ feed' = Tail(feed)
        /\ UNCHANGED <<dropped, lost, replayed, got, told>>
    BY <1>7 DEF Receive
  <2>2. InFeed \subseteq InFeed' \cup current'
    <3>1. feed \in Seq(Event)
      BY DEF TypeOK
    <3>2. ASSUME NEW k \in DOMAIN feed PROVE feed[k].id \in InFeed' \cup current'
      <4>1. CASE k = 1
        BY <2>1, <3>1, <4>1, TailPositions
      <4>2. CASE k # 1
        <5>1. k - 1 \in DOMAIN feed' /\ feed[k] = feed'[k - 1]
          BY <2>1, <3>1, <4>2, TailPositions
        <5> QED
          BY <5>1 DEF InFeed
      <4> QED
        BY <4>1, <4>2
    <3> QED
      BY <3>2 DEF InFeed
  <2>3. WriterInv' /\ DropIsMarked'
    BY <1>1, <2>1 DEF FlowInv, WriterInv, DropIsMarked, Subscribed
  <2>4. current = {}
    BY <2>1 DEF FlowInv, WriterInv
  <2> QED
    BY <1>1, <1>2, <2>1, <2>2, <2>3, <2>4 DEF FlowInv, NothingMissed
<1>8. CASE Deliver
  <2>1. /\ stream = "deliver" /\ stream' = "live" /\ got' = got \cup current
        /\ current' = {} /\ UNCHANGED <<feed, replayed>>
    BY <1>8 DEF Deliver
  <2>2. CASE dropped
    <3>1. told' = {e.id : e \in table} /\ lost' = {}
      BY <1>8, <2>2 DEF Deliver
    <3>2. ASSUME NEW w \in Writers, tx[w] = "mark"
          PROVE  Head(buffer[w]).id \in told'
      <4>1. buffer[w] \in Seq(Event) /\ buffer[w] # <<>>
        BY <3>2 DEF TypeOK
      <4>2. Head(buffer[w]) = buffer[w][1] /\ 1 \in DOMAIN buffer[w]
        BY <4>1, TailPositions
      <4>3. \E e \in table : e.id = buffer[w][1].id
        BY <3>2, <4>2 DEF FlowInv, WriterInv
      <4> QED
        BY <3>1, <4>2, <4>3
    <3> QED
      BY <1>1, <2>1, <3>1, <3>2 DEF FlowInv, WriterInv, DropIsMarked, NothingMissed
  <2>3. CASE ~dropped
    <3>1. UNCHANGED <<dropped, told, lost>>
      BY <1>8, <2>3 DEF Deliver
    <3> QED
      BY <1>1, <1>2, <2>1, <3>1
         DEF FlowInv, WriterInv, DropIsMarked, NothingMissed, Subscribed, InFeed
  <2> QED
    BY <2>2, <2>3
<1> QED
  BY <1>3, <1>4, <1>5, <1>6, <1>7, <1>8 DEF StreamStep

LEMMA FlowInvariant == Spec => []FlowInv
<1>1. Init => FlowInv
  BY DEF Init, FlowInv, WriterInv, DropIsMarked, NothingMissed, Subscribed
<1>2. TypeOK /\ FlowInv /\ [Next]_vars => FlowInv'
  <2> SUFFICES ASSUME TypeOK, FlowInv, [Next]_vars PROVE FlowInv'
    OBVIOUS
  <2>1. CASE UNCHANGED vars
    BY <2>1 DEF vars, busVars, clientVars, FlowInv, WriterInv, DropIsMarked, NothingMissed,
                Subscribed, InFeed, Unpublished
  <2> QED
    BY <2>1, FlowOfOpen, FlowOfCommit, FlowOfPublish, FlowOfStream DEF Next, WriterStep
<1> QED
  BY <1>1, <1>2, StreamTypeCorrect, PTL DEF Spec

\* A dropped event leaves a mark on the subscription, or its writer is about to
\* set it, until a gap message covers it.
THEOREM DropsAreMarked == Spec => []DropIsMarked
<1>1. FlowInv => DropIsMarked
  BY DEF FlowInv
<1> QED
  BY <1>1, FlowInvariant, PTL

\* A client whose replay was not cut off misses no broadcast event: subscribing
\* before the replay is read, and publishing after the commit, leave no gap
\* between what the replay shows and what the queue receives.
THEOREM NoEventMissed == Spec => []NothingMissed
<1>1. FlowInv => NothingMissed
  BY DEF FlowInv
<1> QED
  BY <1>1, FlowInvariant, PTL

----------------------------------------------------------------------------
(* Sequence numbers. *)

\* From the UPDATE to the commit a claim owns the run's row, and once its events
\* are numbered they are above those of every earlier claim.
LockInv ==
    \A w \in Writers :
        /\ tx[w] = "locked" => kind[w] \in Claims
        /\ tx[w] = "locked" \/ (tx[w] = "numbered" /\ kind[w] \in Claims) => rowLock = w
        /\ tx[w] = "numbered" /\ kind[w] \in Claims =>
              \A k \in DOMAIN buffer[w], f \in table : f.kind \in Claims => f.seq < buffer[w][k].seq

LEMMA LockOfNumber ==
    ASSUME TypeOK, LockInv, NEW w \in Writers, Number(w)
    PROVE  LockInv'
<1>1. Renumber(w) /\ tx[w] = (IF kind[w] \in Claims THEN "locked" ELSE "open")
  BY DEF Number
<1>2. /\ tx'[w] = "numbered" /\ UNCHANGED <<table, rowLock, kind>>
      /\ \A v \in Writers \ {w} : tx'[v] = tx[v]
  BY <1>1 DEF Renumber, TypeOK
<1>3. PICK m \in Nat :
        /\ MaxSeq(m)
        /\ \A v \in Writers \ {w} : buffer'[v] = buffer[v]
        /\ DOMAIN buffer'[w] = DOMAIN buffer[w]
        /\ \A k \in DOMAIN buffer[w] : buffer'[w][k].seq = m + k
  BY <1>1, RenumberShape
<1>4. ASSUME NEW k \in DOMAIN buffer[w], NEW f \in table
      PROVE  f.seq < m + k
  <2>1. buffer[w] \in Seq(Event)
    BY DEF TypeOK
  <2>2. k \in Nat \ {0}
    BY <2>1
  <2>3. f.seq \in Nat /\ f.seq <= m
    BY <1>3 DEF TypeOK, MaxSeq
  <2> QED
    BY <2>2, <2>3
<1>5. \A k \in DOMAIN buffer'[w], f \in table' : f.seq < buffer'[w][k].seq
  BY <1>2, <1>3, <1>4
<1>6. kind[w] \in Claims => rowLock = w
  BY <1>1 DEF LockInv
<1> QED
  BY <1>2, <1>3, <1>5, <1>6 DEF LockInv

LEMMA LockOfCommit ==
    ASSUME TypeOK, LockInv, NEW w \in Writers, Commit(w)
    PROVE  LockInv'
<1>1. /\ table' = table \cup Inserted(w) /\ tx[w] = "numbered" /\ UNCHANGED kind
      /\ rowLock' = IF rowLock = w THEN NoWriter ELSE rowLock
      /\ tx'[w] \in {"idle", "publish"}
      /\ \A v \in Writers \ {w} : tx'[v] = tx[v] /\ buffer'[v] = buffer[v]
  BY DEF Commit, Inserted, TypeOK
<1>2. \A e \in Inserted(w) : e.kind = kind[w]
  BY DEF Inserted
<1>3. ASSUME NEW v \in Writers,
             tx'[v] = "locked" \/ (tx'[v] = "numbered" /\ kind'[v] \in Claims)
      PROVE  /\ v # w /\ rowLock' = v
             /\ kind[w] \notin Claims
  <2>1. v # w /\ tx[v] = tx'[v] /\ rowLock = v
    BY <1>1, <1>3 DEF LockInv
  <2>2. kind[w] \notin Claims
    BY <1>1, <2>1 DEF LockInv
  <2> QED
    BY <1>1, <2>1, <2>2
<1>4. ASSUME NEW v \in Writers, tx'[v] = "numbered", kind'[v] \in Claims,
             NEW k \in DOMAIN buffer'[v], NEW f \in table', f.kind \in Claims
      PROVE  f.seq < buffer'[v][k].seq
  <2>1. v # w /\ kind[w] \notin Claims
    BY <1>3, <1>4
  <2>2. f \in table
    BY <1>1, <1>2, <1>4, <2>1
  <2> QED
    BY <1>1, <1>4, <2>1, <2>2 DEF LockInv
<1>5. \A v \in Writers : tx'[v] = "locked" => kind'[v] \in Claims
  BY <1>1 DEF LockInv
<1> QED
  BY <1>3, <1>4, <1>5 DEF LockInv

LEMMA LockOfNext ==
    ASSUME TypeOK, LockInv, [Next]_vars
    PROVE  LockInv'
<1>1. ASSUME NEW w \in Writers, Emit(w) \/ LockRun(w) \/ Abandon(w)
      PROVE  LockInv'
  <2>1. /\ UNCHANGED table
        /\ \A v \in Writers \ {w} : /\ tx'[v] = tx[v] /\ buffer'[v] = buffer[v]
                                   /\ kind'[v] = kind[v]
    BY <1>1 DEF Emit, LockRun, Abandon, TypeOK
  <2>2. CASE Emit(w) \/ Abandon(w)
    <3>1. tx'[w] \in {"idle", "open"} /\ UNCHANGED rowLock
      BY <2>2 DEF Emit, Abandon, TypeOK
    <3> QED
      BY <2>1, <3>1 DEF LockInv
  <2>3. CASE LockRun(w)
    <3>1. /\ tx'[w] = "locked" /\ kind'[w] \in Claims /\ rowLock = NoWriter /\ rowLock' = w
          /\ NoWriter \notin Writers
      BY <2>3, StreamAssumption DEF LockRun, TypeOK, Writers
    <3> QED
      BY <2>1, <3>1 DEF LockInv
  <2> QED
    BY <1>1, <2>2, <2>3
<1>2. ASSUME NEW w \in Writers, Put(w) \/ PutFull(w) \/ MarkDropped(w)
      PROVE  LockInv'
  <2>1. /\ UNCHANGED <<table, rowLock, kind>> /\ tx'[w] \in {"idle", "publish", "mark"}
        /\ \A v \in Writers \ {w} : tx'[v] = tx[v] /\ buffer'[v] = buffer[v]
    BY <1>2 DEF Put, PutFull, MarkDropped, Published, TypeOK
  <2> QED
    BY <2>1 DEF LockInv
<1>3. CASE Subscribe \/ StreamStep \/ Close \/ UNCHANGED vars
  BY <1>3 DEF Subscribe, StreamStep, Close, ReadSnapshot, SendSnapshot, Receive, Deliver,
              vars, LockInv
<1> QED
  BY <1>1, <1>2, <1>3, LockOfNumber, LockOfCommit DEF Next, WriterStep

\* Only a commit adds rows, and a claim's rows are above those of claims before.
LEMMA ClaimStep ==
    ASSUME TypeOK, LockInv, [Next]_vars
    PROVE  \A e \in table' \ table, f \in table : e.kind \in Claims /\ f.kind \in Claims => f.seq < e.seq
<1>1. CASE UNCHANGED table
  BY <1>1
<1>2. ASSUME NEW w \in Writers, Commit(w),
             NEW e \in table' \ table, NEW f \in table, e.kind \in Claims, f.kind \in Claims
      PROVE  f.seq < e.seq
  <2>1. e \in Inserted(w) /\ tx[w] = "numbered"
    BY <1>2 DEF Commit, Inserted
  <2>2. PICK k \in DOMAIN buffer[w] :
          e = [id |-> buffer[w][k].id, seq |-> buffer[w][k].seq, kind |-> kind[w]]
    BY <2>1 DEF Inserted
  <2>3. e.seq = buffer[w][k].seq /\ e.kind = kind[w]
    BY <2>2
  <2> QED
    BY <1>2, <2>1, <2>3 DEF LockInv
<1>3. UNCHANGED table \/ \E w \in Writers : Commit(w)
  BY DEF Next, WriterStep, Emit, LockRun, Abandon, Number, Renumber, Put, PutFull, MarkDropped,
         Subscribe, StreamStep, Close, ReadSnapshot, SendSnapshot, Receive, Deliver, vars
<1> QED
  BY <1>1, <1>2, <1>3

\* Transactions that claim the run by a guarded UPDATE (resume, rejection,
\* callback, timeout) give their events growing sequence numbers, whatever the
\* other transactions commit in between.
THEOREM ClaimSeqGrows == Spec => ClaimSeqMonotonic
<1>1. Init => LockInv
  BY DEF Init, LockInv
<1>2. TypeOK /\ LockInv /\ [Next]_vars => LockInv'
  BY LockOfNext
<1>3. TypeOK /\ LockInv /\ [Next]_vars =>
        [\A e \in table' \ table, f \in table : e.kind \in Claims /\ f.kind \in Claims => f.seq < e.seq]_vars
  BY ClaimStep
<1> QED
  BY <1>1, <1>2, <1>3, StreamTypeCorrect, PTL DEF Spec, ClaimSeqMonotonic
=============================================================================
