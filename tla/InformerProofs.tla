--------------------------- MODULE InformerProofs ---------------------------
(***************************************************************************)
(* NothingForgotten and QueueSound of Informer, for every set of keys and  *)
(* every bound.                                                            *)
(***************************************************************************)
EXTENDS Informer, TLAPS

\* A leaf that names no prover goes to Zenon, which is quick where a leaf only
\* puts facts together, and then to the SMT solver: no proof hangs on the speed
\* of one machine.  Leaves that need arithmetic or sequences name the latter.
USE ZenonT(10), SMTT(30), SMTT(60)

\* What the worker's local state says: only a missing object is looked up or
\* deleted, the deletion has been handled by then, and only Handle fails, for
\* an object that was there.
WorkerSound ==
    /\ worker.pc = "lookup" => worker.obj = 0
    /\ worker.pc = "delete" => worker.obj = 0 /\ handled[worker.key] = 0
    /\ worker.err # "nil" => worker.obj # 0 /\ worker.pc \in {"handleErr", "done"}

\* The last notification of a key tells what the store holds of it.
EventsSound ==
    \A k \in Keys : store[k] = 0 /\ events[k] # << >> => events[k][Len(events[k])] # "put"

\* The handler was told, or is being told, that the object exists.
Known(k) == handled[k] # 0 \/ (worker.key = k /\ worker.pc = "handle" /\ worker.obj # 0)

\* A deletion the handler has to be told of is notified or saved.
DeletionKnown ==
    \A k \in Keys : store[k] = 0 /\ events[k] = << >> /\ Known(k) => k \in deletedObjects

\* Pending, except that a failed key counts while the object it failed for is
\* the one in the store.
Due(k) ==
    \/ events[k] # << >> \/ k \in dirty \/ k \in waiting
    \/ /\ worker.key = k
       /\ \/ worker.pc = "sync"
          \/ worker.pc \in {"lookup", "handle"} /\ worker.obj = store[k]
          \/ worker.pc = "handleErr" /\ worker.err # "nil" /\ worker.obj = store[k]

Accounted ==
    \A k \in Keys : handled[k] = store[k] \/ Due(k) \/ (k \in dropped /\ store[k] # 0)

\* A process that has ended left nothing but the objects of the API server.
EndedClean == ~alive => worker.pc = "idle" /\ handled = [k \in Keys |-> 0]

\* A worker whose object is no longer the one in the store has another turn.
InHand ==
    worker.pc \in {"lookup", "handle"} /\ worker.obj # store[worker.key]
        => events[worker.key] # << >> \/ worker.key \in dirty

InformerInv ==
    /\ TypeOK /\ QueueSound /\ WorkerSound /\ EventsSound /\ DeletionKnown /\ EndedClean
    /\ InHand
    /\ alive => Accounted

-----------------------------------------------------------------------------
(* Sequences. *)

LEMMA ElemsAppend ==
    ASSUME NEW S, NEW s \in Seq(S), NEW e \in S
    PROVE  Elems(Append(s, e)) = Elems(s) \cup {e}
<1>1. Len(Append(s, e)) = Len(s) + 1 /\ Len(s) \in Nat
    OBVIOUS
<1>2. \A i \in 1 .. Len(s) : Append(s, e)[i] = s[i]
    OBVIOUS
<1>3. Append(s, e)[Len(s) + 1] = e
    OBVIOUS
<1>4. 1 .. Len(s) + 1 = (1 .. Len(s)) \cup {Len(s) + 1}
    BY <1>1
<1> QED
    BY <1>1, <1>2, <1>3, <1>4 DEF Elems

\* Taking the head off a sequence without duplicates takes one element away.
LEMMA ElemsTail ==
    ASSUME NEW S, NEW s \in Seq(S), s # << >>,
           \A i, j \in 1 .. Len(s) : s[i] = s[j] => i = j
    PROVE  /\ Head(s) \in Elems(s)
           /\ Elems(Tail(s)) = Elems(s) \ {Head(s)}
           /\ \A i, j \in 1 .. Len(Tail(s)) : Tail(s)[i] = Tail(s)[j] => i = j
<1>1. Len(s) \in Nat /\ Len(s) >= 1 /\ Len(Tail(s)) = Len(s) - 1 /\ Head(s) = s[1]
    BY SMTT(30)
<1>2. \A i \in 1 .. Len(s) - 1 : Tail(s)[i] = s[i + 1]
    BY SMTT(30)
<1>3. \A i \in 1 .. Len(s) - 1 : i + 1 \in 1 .. Len(s) /\ s[i + 1] # s[1]
    BY <1>1, SMTT(30)
<1>4. \A i \in 2 .. Len(s) : i - 1 \in 1 .. Len(s) - 1 /\ Tail(s)[i - 1] = s[i]
    BY <1>1, <1>2, SMTT(30)
<1>5. Elems(Tail(s)) \subseteq Elems(s) \ {Head(s)}
    BY <1>1, <1>2, <1>3, SMTT(30) DEF Elems
<1>6. Elems(s) \ {Head(s)} \subseteq Elems(Tail(s))
    <2>1. SUFFICES ASSUME NEW i \in 1 .. Len(s), s[i] # s[1]
                   PROVE  s[i] \in Elems(Tail(s))
        BY <1>1 DEF Elems
    <2>2. i \in 2 .. Len(s)
        BY <1>1, <2>1, SMTT(30)
    <2> QED
        BY <2>2, <1>1, <1>4 DEF Elems
<1>7. \A i, j \in 1 .. Len(Tail(s)) : Tail(s)[i] = Tail(s)[j] => i = j
    BY <1>1, <1>2, <1>3, SMTT(30)
<1> QED
    BY <1>1, <1>5, <1>6, <1>7, SMTT(30) DEF Elems

-----------------------------------------------------------------------------
(* Types. *)

Working == [pc : {"sync", "lookup", "handle", "delete", "handleErr", "done"},
            key : Keys, obj : Nat, err : {"nil", "error"}]

\* A worker past processNextItem has a key.
LEMMA WorkerBusy ==
    ASSUME TypeOK, worker.pc # "idle"
    PROVE  worker \in Working
BY SMTT(30) DEF TypeOK, Idle, Working

LEMMA QueueTypes ==
    ASSUME TypeOK, NEW k \in Keys, Add(k) \/ Get \/ Done(k) \/ UNCHANGED queueVars
    PROVE  queue' \in Seq(Keys) /\ dirty' \subseteq Keys /\ processing' \subseteq Keys
<1>1. CASE Add(k)
    BY <1>1, SMTT(30) DEF TypeOK, Add
<1>2. CASE Get
    <2>1. Head(queue) \in Keys /\ Tail(queue) \in Seq(Keys)
        BY <1>2, SMTT(30) DEF TypeOK, Get
    <2> QED
        BY <1>2, <2>1 DEF TypeOK, Get
<1>3. CASE Done(k)
    BY <1>3, SMTT(30) DEF TypeOK, Done
<1>4. CASE UNCHANGED queueVars
    BY <1>4 DEF TypeOK, queueVars
<1> QED
    BY <1>1, <1>2, <1>3, <1>4

LEMMA TypeStep ==
    ASSUME TypeOK, [Next]_vars
    PROVE  TypeOK'
<1> USE InformerAssumption
<1>1. ASSUME NEW k \in Keys, NEW obj \in Nat, NEW n \in Notification,
             HandleDeltas(k, obj, n), version' \in Nat
      PROVE  TypeOK'
    <2>1. events' \in [Keys -> Seq(Notification)]
        BY <1>1, SMTT(30) DEF TypeOK, HandleDeltas
    <2>2. store' \in [Keys -> Nat]
        BY <1>1 DEF TypeOK, HandleDeltas
    <2> QED
        BY <1>1, <2>1, <2>2 DEF TypeOK, HandleDeltas, queueVars
<1>2. ASSUME NEW k \in Keys, Change(k) \/ Resync(k)
      PROVE  TypeOK'
    <2>1. CASE watchPut(k)
        <3>1. version + 1 \in Nat /\ version' = version + 1 /\ "put" \in Notification
            BY <2>1, SMTT(30) DEF watchPut, TypeOK, Notification
        <3>2. HandleDeltas(k, version + 1, "put")
            BY <2>1 DEF watchPut
        <3> QED
            BY <1>1, <3>1, <3>2
    <2>2. CASE watchDelete(k)
        BY <1>1, <2>2, Zenon DEF watchDelete, TypeOK, Notification
    <2>3. CASE relistDelete(k)
        BY <1>1, <2>3, Zenon DEF relistDelete, TypeOK, Notification
    <2>4. CASE Resync(k)
        <3>1. store[k] \in Nat
            BY DEF TypeOK
        <3> QED
            BY <1>1, <2>4, <3>1, Zenon DEF Resync, TypeOK, Notification
    <2> QED
        BY <1>2, <2>1, <2>2, <2>3, <2>4 DEF Change
<1>3. ASSUME dies
      PROVE  TypeOK'
    <2>1. << >> \in Seq(Notification) /\ << >> \in Seq(Keys) /\ 0 \in 0 .. MaxRetries
        OBVIOUS
    <2>2. events' \in [Keys -> Seq(Notification)]
        BY <1>3, <2>1 DEF dies
    <2> QED
        BY <1>3, <2>1, <2>2, Zenon DEF TypeOK, dies
<1>4. ASSUME NEW k \in Keys, EventHandler(k)
      PROVE  TypeOK'
    <2>1. ASSUME NEW n, Delivered(k, n)
          PROVE  events' \in [Keys -> Seq(Notification)]
        <3>1. events[k] \in Seq(Notification) /\ events[k] # << >>
            BY <2>1 DEF TypeOK, Delivered
        <3>2. Tail(events[k]) \in Seq(Notification)
            BY <3>1
        <3> QED
            BY <2>1, <3>2 DEF TypeOK, Delivered
    <2>2. CASE handlePutResourceEvent(k)
        BY <2>1, <2>2, QueueTypes DEF handlePutResourceEvent, Delivered, TypeOK
    <2>3. CASE handleDeleteResourceEvent(k)
        BY <2>1, <2>3, QueueTypes DEF handleDeleteResourceEvent, Delivered, TypeOK
    <2>4. CASE handleTombstonePanics(k)
        BY <1>3, <2>4 DEF handleTombstonePanics
    <2> QED
        BY <1>4, <2>2, <2>3, <2>4 DEF EventHandler
<1>5. ASSUME NEW k \in Keys, waitingLoop(k)
      PROVE  TypeOK'
    BY <1>5, QueueTypes DEF waitingLoop, TypeOK
<1>6. CASE Worker
    <2>1. CASE processNextItem
        <3>1. Head(queue) \in Keys
            BY <2>1, SMTT(30) DEF processNextItem, Get, TypeOK
        <3>2. worker' \in Working
            BY <2>1, <3>1 DEF processNextItem, Working
        <3>3. queue' \in Seq(Keys) /\ dirty' \subseteq Keys /\ processing' \subseteq Keys
            BY <2>1, <3>1, QueueTypes DEF processNextItem
        <3> QED
            BY <2>1, <3>2, <3>3 DEF processNextItem, TypeOK, Working
    <2>2. CASE sync
        <3>1. worker \in Working /\ store[worker.key] \in Nat
            BY <2>2, WorkerBusy DEF sync, At, Working, TypeOK
        <3>2. worker' \in Working
            BY <2>2, <3>1, Zenon DEF sync, Working
        <3> QED
            BY <2>2, <3>2 DEF sync, TypeOK, Working, queueVars
    <2>3. CASE lookup
        <3>1. worker \in Working
            BY <2>3, WorkerBusy DEF lookup, At
        <3>2. worker' \in Working
            BY <2>3, <3>1 DEF lookup, Then, Working
        <3> QED
            BY <2>3, <3>2 DEF lookup, TypeOK, Working, queueVars
    <2>4. CASE HandleOk
        <3>1. worker \in Working
            BY <2>4, WorkerBusy DEF HandleOk, At
        <3>2. worker' \in Working
            BY <2>4, <3>1 DEF HandleOk, Then, Working
        <3>3. handled' \in [Keys -> Nat]
            BY <2>4, <3>1 DEF HandleOk, Working, TypeOK
        <3> QED
            BY <2>4, <3>2, <3>3 DEF HandleOk, TypeOK, Working, queueVars
    <2>5. CASE HandleErr
        <3>1. worker \in Working
            BY <2>5, WorkerBusy DEF HandleErr, At
        <3>2. worker' \in Working
            BY <2>5, <3>1, Zenon DEF HandleErr, Working
        <3> QED
            BY <2>5, <3>2 DEF HandleErr, TypeOK, Working, queueVars
    <2>6. CASE deleteEntry
        <3>1. worker \in Working
            BY <2>6, WorkerBusy DEF deleteEntry, At
        <3>2. worker' \in Working
            BY <2>6, <3>1 DEF deleteEntry, Then, Working
        <3> QED
            BY <2>6, <3>2 DEF deleteEntry, TypeOK, Working, queueVars
    <2>7. CASE handleErr
        <3>1. worker \in Working
            BY <2>7, WorkerBusy DEF handleErr, At
        <3>2. worker' \in Working
            BY <2>7, <3>1 DEF handleErr, Then, Working
        <3>3. /\ failures' \in [Keys -> 0 .. MaxRetries]
              /\ waiting' \subseteq Keys /\ dropped' \subseteq Keys
            BY <2>7, <3>1, SMTT(30) DEF handleErr, Working, TypeOK
        <3> QED
            BY <2>7, <3>2, <3>3 DEF handleErr, TypeOK, Working, queueVars
    <2>8. CASE processNextItemDone
        <3>1. worker \in Working
            BY <2>8, WorkerBusy DEF processNextItemDone, At
        <3>2. queue' \in Seq(Keys) /\ dirty' \subseteq Keys /\ processing' \subseteq Keys
            BY <2>8, <3>1, QueueTypes DEF processNextItemDone, Working
        <3> QED
            BY <2>8, <3>2 DEF processNextItemDone, TypeOK
    <2> QED
        BY <1>6, <2>1, <2>2, <2>3, <2>4, <2>5, <2>6, <2>7, <2>8 DEF Worker
<1>7. CASE restart
    <2>1. store' \in [Keys -> Nat]
        BY <1>7, SMTT(30) DEF restart, TypeOK
    <2>2. events' \in [Keys -> Seq(Notification)]
        <3>1. <<"put">> \in Seq(Notification) /\ << >> \in Seq(Notification)
            BY DEF Notification
        <3> QED
            BY <1>7, <3>1 DEF restart, Listed
    <2> QED
        BY <1>7, <2>1, <2>2 DEF restart, TypeOK, queueVars
<1>8. CASE UNCHANGED vars
    BY <1>8 DEF TypeOK, vars, queueVars
<1> QED
    BY <1>2, <1>3, <1>4, <1>5, <1>6, <1>7, <1>8 DEF Next, mapRace, crash

-----------------------------------------------------------------------------
(* The queue. *)

\* Add and Done append the key only where it is not queued.
LEMMA AppendSound ==
    ASSUME NEW S, NEW s \in Seq(S), NEW e \in S, e \notin Elems(s),
           \A i, j \in 1 .. Len(s) : s[i] = s[j] => i = j
    PROVE  \A i, j \in 1 .. Len(Append(s, e)) : Append(s, e)[i] = Append(s, e)[j] => i = j
<1>1. Len(Append(s, e)) = Len(s) + 1 /\ Len(s) \in Nat
    BY SMTT(30)
<1>2. \A i \in 1 .. Len(s) : Append(s, e)[i] = s[i] /\ s[i] # e
    BY SMTT(30) DEF Elems
<1>3. Append(s, e)[Len(s) + 1] = e
    BY SMTT(30)
<1> QED
    BY <1>1, <1>2, <1>3, SMTT(30)

LEMMA QueueStep ==
    ASSUME TypeOK, [Next]_vars, QueueSound
    PROVE  QueueSound'
<1>0. ASSUME dies
      PROVE  QueueSound'
    <2>1. queue' = << >> /\ dirty' = {} /\ processing' = {} /\ worker'.pc = "idle"
        BY <1>0 DEF dies, Idle
    <2>2. Len(queue') = 0
        BY <2>1
    <2> QED
        BY <2>1, <2>2, SMTT(30) DEF QueueSound, Elems
<1>1. ASSUME NEW k \in Keys, Add(k), worker' = worker
      PROVE  QueueSound'
    <2>1. CASE k \in dirty \cup processing
        <3>1. queue' = queue /\ dirty' \ processing' = dirty \ processing /\ processing' = processing
            BY <1>1, <2>1 DEF Add
        <3> QED
            BY <1>1, <3>1 DEF QueueSound
    <2>2. CASE k \notin dirty \cup processing
        <3>1. queue' = Append(queue, k) /\ queue \in Seq(Keys) /\ k \notin Elems(queue)
            BY <1>1, <2>2 DEF Add, QueueSound, TypeOK
        <3>2. Elems(queue') = Elems(queue) \cup {k}
            BY <3>1, ElemsAppend, SMTT(30)
        <3>3. \A i, j \in 1 .. Len(queue') : queue'[i] = queue'[j] => i = j
            BY <1>1, <3>1, AppendSound, SMTT(30) DEF QueueSound
        <3>4. dirty' \ processing' = (dirty \ processing) \cup {k} /\ processing' = processing
            BY <1>1, <2>2 DEF Add
        <3> QED
            BY <1>1, <3>2, <3>3, <3>4 DEF QueueSound
    <2> QED
        BY <2>1, <2>2
<1>2. CASE processNextItem
    <2> DEFINE k == Head(queue)
    <2>1. queue # << >> /\ queue \in Seq(Keys) /\ processing = {}
        BY <1>2 DEF processNextItem, Get, At, QueueSound, TypeOK
    <2>2. /\ k \in Elems(queue)
          /\ Elems(Tail(queue)) = Elems(queue) \ {k}
          /\ \A i, j \in 1 .. Len(Tail(queue)) : Tail(queue)[i] = Tail(queue)[j] => i = j
        BY <2>1, ElemsTail DEF QueueSound
    <2>3. /\ queue' = Tail(queue) /\ dirty' = dirty \ {k} /\ processing' = {k}
          /\ worker'.pc = "sync" /\ worker'.key = k
        BY <1>2, <2>1 DEF processNextItem, Get
    <2> HIDE DEF k
    <2> QED
        BY <2>1, <2>2, <2>3, Zenon DEF QueueSound
<1>3. CASE processNextItemDone
    <2> DEFINE k == worker.key
    <2>1. /\ k \in Keys /\ queue \in Seq(Keys) /\ processing = {k}
        BY <1>3, WorkerBusy DEF processNextItemDone, At, QueueSound, Working, TypeOK
    <2>2. /\ processing' = {} /\ dirty' = dirty /\ worker'.pc = "idle"
          /\ queue' = IF k \in dirty THEN Append(queue, k) ELSE queue
        BY <1>3, <2>1 DEF processNextItemDone, Done, Idle
    <2>3. k \notin Elems(queue)
        BY <2>1, Zenon DEF QueueSound
    <2> HIDE DEF k
    <2>4. CASE k \in dirty
        <3>1. Elems(queue') = Elems(queue) \cup {k}
            BY <2>1, <2>2, <2>4, ElemsAppend, SMTT(30)
        <3>2. \A i, j \in 1 .. Len(queue') : queue'[i] = queue'[j] => i = j
            BY <2>1, <2>2, <2>3, <2>4, AppendSound, SMTT(30) DEF QueueSound
        <3>3. Elems(queue') = dirty' \ processing'
            BY <2>1, <2>2, <2>4, <3>1, ZenonT(60) DEF QueueSound
        <3> QED
            BY <2>2, <3>2, <3>3 DEF QueueSound
    <2>5. CASE k \notin dirty
        BY <2>1, <2>2, <2>5, ZenonT(60) DEF QueueSound
    <2> QED
        BY <2>4, <2>5
<1>4. ASSUME UNCHANGED queueVars, worker'.key = worker.key,
             worker'.pc = "idle" <=> worker.pc = "idle"
      PROVE  QueueSound'
    BY <1>4, SMTT(30) DEF QueueSound, queueVars, Elems
<1>5. CASE sync \/ lookup \/ HandleOk \/ HandleErr \/ deleteEntry \/ handleErr
    <2>1. worker \in Working
        BY <1>5, WorkerBusy DEF sync, lookup, HandleOk, HandleErr, deleteEntry, handleErr, At
    <2>2. worker'.key = worker.key /\ worker'.pc # "idle" /\ worker.pc # "idle"
        BY <1>5, <2>1, Zenon DEF sync, lookup, HandleOk, HandleErr, deleteEntry, handleErr, Then,
                          Working
    <2>3. UNCHANGED queueVars
        BY <1>5 DEF sync, lookup, HandleOk, HandleErr, deleteEntry, handleErr
    <2> QED
        BY <1>4, <2>2, <2>3
<1>6. ASSUME NEW k \in Keys, Change(k) \/ Resync(k)
      PROVE  QueueSound'
    BY <1>4, <1>6 DEF Change, watchPut, watchDelete, relistDelete, Resync, HandleDeltas
<1>7. ASSUME NEW k \in Keys, EventHandler(k) \/ waitingLoop(k)
      PROVE  QueueSound'
    <2>1. CASE handleTombstonePanics(k)
        BY <1>0, <2>1 DEF handleTombstonePanics
    <2>2. CASE handlePutResourceEvent(k) \/ handleDeleteResourceEvent(k) \/ waitingLoop(k)
        BY <1>1, <2>2 DEF handlePutResourceEvent, handleDeleteResourceEvent, waitingLoop,
                          Delivered
    <2> QED
        BY <1>7, <2>1, <2>2 DEF EventHandler
<1>8. CASE mapRace \/ crash
    BY <1>0, <1>8 DEF mapRace, crash
<1>9. CASE restart \/ UNCHANGED vars
    BY <1>4, <1>9 DEF restart, vars
<1> QED
    BY <1>2, <1>3, <1>5, <1>6, <1>7, <1>8, <1>9 DEF Next, Worker

-----------------------------------------------------------------------------
(* Notifications and deletions. *)

LEMMA WorkerStep ==
    ASSUME TypeOK, [Next]_vars, WorkerSound
    PROVE  WorkerSound'
<1>1. ASSUME UNCHANGED <<worker, handled>>
      PROVE  WorkerSound'
    BY <1>1 DEF WorkerSound
<1>2. CASE dies
    BY <1>2 DEF dies, Idle, WorkerSound
<1>3. CASE Worker
    <2>1. CASE processNextItem
        BY <2>1 DEF processNextItem, WorkerSound
    <2>2. CASE processNextItemDone
        BY <2>2 DEF processNextItemDone, Idle, WorkerSound
    <2>3. ASSUME worker.pc # "idle"
          PROVE  worker \in Working /\ worker.key \in Keys
        BY <2>3, WorkerBusy DEF Working
    <2>4. CASE sync \/ lookup \/ HandleErr \/ deleteEntry \/ handleErr
        <3>1. worker \in Working
            BY <2>3, <2>4 DEF sync, lookup, HandleErr, deleteEntry, handleErr, At
        <3>2. CASE sync
            <4>1. /\ worker'.pc = IF store[worker.key] = 0 THEN "lookup" ELSE "handle"
                  /\ worker'.obj = store[worker.key] /\ worker'.err = worker.err
                BY <3>1, <3>2 DEF sync, Working
            <4>2. worker.err = "nil"
                BY <3>2 DEF sync, At, WorkerSound
            <4> QED
                BY <4>1, <4>2 DEF WorkerSound
        <3>3. CASE lookup \/ HandleErr \/ deleteEntry \/ handleErr
            <4>1. /\ worker'.obj = worker.obj /\ worker'.pc \in {"handle", "handleErr", "done"}
                  /\ \/ worker'.err = worker.err /\ worker.err = "nil"
                     \/ worker.obj # 0 /\ worker'.pc \in {"handleErr", "done"}
                BY <3>1, <3>3, Zenon DEF lookup, HandleErr, deleteEntry, handleErr, Then, Working,
                                  At, WorkerSound
            <4> QED
                BY <4>1 DEF WorkerSound
        <3> QED
            BY <2>4, <3>2, <3>3
    <2>5. CASE HandleOk
        <3>1. worker \in Working /\ worker.key \in Keys
            BY <2>3, <2>5 DEF HandleOk, At
        <3>2. /\ worker'.pc = IF worker.obj = 0 THEN "delete" ELSE "handleErr"
              /\ worker'.obj = worker.obj /\ worker'.err = worker.err
              /\ worker'.key = worker.key /\ handled'[worker.key] = worker.obj
            BY <2>5, <3>1 DEF HandleOk, Then, Working, TypeOK
        <3>3. worker.err = "nil"
            BY <2>5 DEF HandleOk, At, WorkerSound
        <3> QED
            BY <3>2, <3>3 DEF WorkerSound
    <2> QED
        BY <1>3, <2>1, <2>2, <2>4, <2>5 DEF Worker
<1>4. ASSUME NEW k \in Keys, Change(k) \/ Resync(k) \/ EventHandler(k) \/ waitingLoop(k)
      PROVE  WorkerSound'
    BY <1>1, <1>2, <1>4
       DEF Change, watchPut, watchDelete, relistDelete, Resync, HandleDeltas, EventHandler,
           handlePutResourceEvent, handleDeleteResourceEvent, handleTombstonePanics,
           Delivered, waitingLoop
<1> QED
    BY <1>1, <1>2, <1>3, <1>4 DEF Next, mapRace, crash, restart, vars

\* The last element of a sequence, after a step of the event queue.
LEMMA LastElement ==
    ASSUME NEW S, NEW s \in Seq(S), NEW e \in S
    PROVE  /\ Append(s, e) # << >> /\ Append(s, e)[Len(Append(s, e))] = e
           /\ s # << >> /\ Tail(s) # << >> => Tail(s)[Len(Tail(s))] = s[Len(s)]
           /\ s # << >> /\ Tail(s) = << >> => Head(s) = s[Len(s)]
OBVIOUS

LEMMA EventsStep ==
    ASSUME TypeOK, [Next]_vars, EventsSound
    PROVE  EventsSound'
<1>1. ASSUME UNCHANGED <<store, events>>
      PROVE  EventsSound'
    BY <1>1 DEF EventsSound
<1>2. CASE dies
    BY <1>2 DEF dies, EventsSound
<1>3. ASSUME NEW k \in Keys, NEW obj, NEW n \in Notification, HandleDeltas(k, obj, n),
             obj = 0 => n # "put"
      PROVE  EventsSound'
    <2>1. events[k] \in Seq(Notification)
        BY DEF TypeOK
    <2>2. events'[k][Len(events'[k])] = n
        BY <1>3, <2>1, LastElement, SMTT(30) DEF HandleDeltas, TypeOK
    <2>3. store'[k] = obj
        BY <1>3 DEF HandleDeltas, TypeOK
    <2>4. \A j \in Keys \ {k} : store'[j] = store[j] /\ events'[j] = events[j]
        BY <1>3 DEF HandleDeltas, TypeOK
    <2> QED
        BY <1>3, <2>2, <2>3, <2>4 DEF EventsSound
<1>4. ASSUME NEW k \in Keys, Change(k) \/ Resync(k)
      PROVE  EventsSound'
    <2>1. CASE watchPut(k)
        <3>1. HandleDeltas(k, version + 1, "put") /\ version + 1 # 0
            BY <2>1, SMTT(30) DEF watchPut, TypeOK
        <3> QED
            BY <1>3, <3>1 DEF Notification
    <2>2. CASE watchDelete(k) \/ relistDelete(k) \/ Resync(k)
        BY <1>3, <2>2 DEF watchDelete, relistDelete, Resync, Notification
    <2> QED
        BY <1>4, <2>1, <2>2 DEF Change
<1>5. ASSUME NEW k \in Keys, NEW n, Delivered(k, n)
      PROVE  EventsSound'
    <2>1. events[k] \in Seq(Notification) /\ events[k] # << >>
        BY <1>5 DEF Delivered, TypeOK
    <2>2. events'[k] # << >> => events'[k][Len(events'[k])] = events[k][Len(events[k])]
        BY <1>5, <2>1, LastElement, SMTT(30) DEF Delivered, TypeOK
    <2>3. \A j \in Keys \ {k} : events'[j] = events[j]
        BY <1>5 DEF Delivered, TypeOK
    <2> QED
        BY <1>5, <2>1, <2>2, <2>3 DEF EventsSound, Delivered
<1>6. CASE restart
    <2>1. \A k \in Keys : store'[k] = 0 => events'[k] = << >>
        BY <1>6 DEF restart, Listed
    <2> QED
        BY <2>1 DEF EventsSound
<1>7. ASSUME NEW k \in Keys, EventHandler(k)
      PROVE  EventsSound'
    BY <1>2, <1>5, <1>7 DEF EventHandler, handlePutResourceEvent,
                            handleDeleteResourceEvent, handleTombstonePanics
<1>8. CASE Worker
    BY <1>1, <1>8 DEF Worker, processNextItem, sync, lookup, HandleOk, HandleErr,
                      deleteEntry, handleErr, processNextItemDone
<1> QED
    BY <1>1, <1>2, <1>4, <1>6, <1>7, <1>8 DEF Next, waitingLoop, mapRace, crash, vars

LEMMA DeletionStep ==
    ASSUME TypeOK, [Next]_vars, WorkerSound, EventsSound, DeletionKnown, EndedClean
    PROVE  DeletionKnown'
<1>1. ASSUME UNCHANGED <<store, events, deletedObjects>>, \A k \in Keys : Known(k)' => Known(k)
      PROVE  DeletionKnown'
    BY <1>1 DEF DeletionKnown
<1>2. CASE dies
    BY <1>2 DEF dies, DeletionKnown, Known, Idle
<1>3. ASSUME NEW k \in Keys, NEW obj, NEW n \in Notification, HandleDeltas(k, obj, n)
      PROVE  DeletionKnown'
    <2>1. events'[k] # << >>
        <3>1. events[k] \in Seq(Notification) /\ events'[k] = Append(events[k], n)
            BY <1>3 DEF HandleDeltas, TypeOK
        <3> QED
            BY <3>1, LastElement, SMTT(30)
    <2>2. \A j \in Keys \ {k} : store'[j] = store[j] /\ events'[j] = events[j]
        BY <1>3 DEF HandleDeltas, TypeOK
    <2> QED
        BY <1>3, <2>1, <2>2 DEF DeletionKnown, HandleDeltas, Known
<1>4. ASSUME NEW k \in Keys, Change(k) \/ Resync(k)
      PROVE  DeletionKnown'
    BY <1>3, <1>4 DEF Change, watchPut, watchDelete, relistDelete, Resync, Notification
<1>5. ASSUME NEW k \in Keys, EventHandler(k)
      PROVE  DeletionKnown'
    <2>1. CASE handleTombstonePanics(k)
        BY <1>2, <2>1 DEF handleTombstonePanics
    <2>2. ASSUME NEW n, Delivered(k, n)
          PROVE  /\ \A j \in Keys \ {k} : events'[j] = events[j]
                 /\ store[k] = 0 /\ events'[k] = << >> => n # "put"
        <3>1. events[k] \in Seq(Notification) /\ events[k] # << >> /\ Head(events[k]) = n
            BY <2>2 DEF Delivered, TypeOK
        <3>2. events'[k] = Tail(events[k])
            BY <2>2 DEF Delivered, TypeOK
        <3>4. Tail(events[k]) = << >> => Head(events[k]) = events[k][Len(events[k])]
            BY <3>1, LastElement, SMTT(30)
        <3>3. \A j \in Keys \ {k} : events'[j] = events[j]
            BY <2>2 DEF Delivered, TypeOK
        <3> QED
            BY <3>1, <3>2, <3>3, <3>4 DEF EventsSound
    <2>3. CASE handlePutResourceEvent(k)
        BY <2>2, <2>3 DEF handlePutResourceEvent, Delivered, DeletionKnown, Known
    <2>4. CASE handleDeleteResourceEvent(k)
        BY <2>2, <2>4 DEF handleDeleteResourceEvent, Delivered, DeletionKnown, Known
    <2> QED
        BY <1>5, <2>1, <2>3, <2>4 DEF EventHandler
<1>6. CASE HandleOk
    <2>1. worker \in Working /\ worker.key \in Keys /\ worker.pc = "handle"
        BY <1>6, WorkerBusy DEF HandleOk, At, Working
    <2>2. /\ handled'[worker.key] = worker.obj
          /\ \A j \in Keys \ {worker.key} : handled'[j] = handled[j]
        BY <1>6, <2>1 DEF HandleOk, TypeOK
    <2>3. worker'.pc # "handle"
        BY <1>6, <2>1 DEF HandleOk, Then, Working
    <2>4. \A k \in Keys : Known(k)' => Known(k)
        BY <2>1, <2>2, <2>3 DEF Known
    <2> QED
        BY <1>1, <1>6, <2>4 DEF HandleOk
<1>7. CASE deleteEntry
    <2>1. worker.pc = "delete" /\ handled[worker.key] = 0 /\ worker \in Working
        BY <1>7, WorkerBusy DEF deleteEntry, At, WorkerSound
    <2>2. worker'.pc = "handleErr"
        BY <1>7, <2>1 DEF deleteEntry, Then, Working
    <2> QED
        BY <1>7, <2>1, <2>2 DEF deleteEntry, DeletionKnown, Known
<1>8. CASE sync
    <2>1. worker \in Working /\ worker.key \in Keys
        BY <1>8, WorkerBusy DEF sync, At, Working
    <2>2. worker'.key = worker.key /\ worker'.obj = store[worker.key]
        BY <1>8, <2>1 DEF sync, Working
    <2> QED
        BY <1>8, <2>2 DEF sync, DeletionKnown, Known
<1>9. CASE lookup \/ HandleErr \/ handleErr
    <2>1. worker \in Working
        BY <1>9, WorkerBusy DEF lookup, HandleErr, handleErr, At
    <2>2. worker'.pc = "handle" => worker'.obj = 0
        BY <1>9, <2>1, Zenon DEF lookup, HandleErr, handleErr, Then, At, Working, WorkerSound
    <2> QED
        BY <1>1, <1>9, <2>2 DEF lookup, HandleErr, handleErr, Known
<1>10. CASE processNextItem \/ processNextItemDone
    <2>1. worker'.pc # "handle"
        BY <1>10 DEF processNextItem, processNextItemDone, Idle
    <2> QED
        BY <1>1, <1>10, <2>1 DEF processNextItem, processNextItemDone, Known
<1>11. CASE restart
    <2>1. \A k \in Keys : ~Known(k)'
        BY <1>11 DEF restart, EndedClean, Known
    <2> QED
        BY <2>1 DEF DeletionKnown
<1>12. CASE UNCHANGED vars
    BY <1>1, <1>12 DEF vars, Known
<1>13. ASSUME NEW k \in Keys, waitingLoop(k)
       PROVE  DeletionKnown'
    BY <1>1, <1>13 DEF waitingLoop, Known
<1> QED
    BY <1>2, <1>4, <1>5, <1>6, <1>7, <1>8, <1>9, <1>10, <1>11, <1>12, <1>13
       DEF Next, Worker, mapRace, crash

LEMMA InHandStep ==
    ASSUME TypeOK, [Next]_vars, WorkerSound, EndedClean, InHand
    PROVE  InHand'
<1>1. ASSUME worker'.pc \notin {"lookup", "handle"}
      PROVE  InHand'
    BY <1>1 DEF InHand
<1>2. ASSUME worker.pc \in {"lookup", "handle"}, worker' = worker
      PROVE  worker.key \in Keys /\ worker'.key = worker.key
    BY <1>2, WorkerBusy DEF Working
<1>3. ASSUME NEW k \in Keys, NEW obj, NEW n \in Notification, HandleDeltas(k, obj, n)
      PROVE  InHand'
    <2>1. events[k] \in Seq(Notification) /\ events'[k] = Append(events[k], n)
        BY <1>3 DEF HandleDeltas, TypeOK
    <2>2. events'[k] # << >>
        BY <2>1, LastElement, SMTT(30)
    <2>3. \A j \in Keys \ {k} : store'[j] = store[j] /\ events'[j] = events[j]
        BY <1>3 DEF HandleDeltas, TypeOK
    <2>4. worker' = worker /\ dirty' = dirty
        BY <1>3 DEF HandleDeltas, queueVars
    <2> QED
        BY <1>2, <2>2, <2>3, <2>4 DEF InHand
<1>4. ASSUME NEW k \in Keys, Change(k) \/ Resync(k)
      PROVE  InHand'
    BY <1>3, <1>4 DEF Change, watchPut, watchDelete, relistDelete, Resync, Notification
<1>5. ASSUME NEW k \in Keys, Add(k), UNCHANGED <<worker, store>>,
             \A j \in Keys \ {k} : events'[j] = events[j]
      PROVE  InHand'
    BY <1>2, <1>5 DEF InHand, Add
<1>6. CASE dies
    BY <1>1, <1>6 DEF dies, Idle
<1>7. ASSUME NEW k \in Keys, EventHandler(k) \/ waitingLoop(k)
      PROVE  InHand'
    <2>1. CASE handlePutResourceEvent(k) \/ handleDeleteResourceEvent(k)
        <3>1. \A j \in Keys \ {k} : events'[j] = events[j]
            BY <2>1 DEF handlePutResourceEvent, handleDeleteResourceEvent, Delivered, TypeOK
        <3> QED
            BY <1>5, <2>1, <3>1 DEF handlePutResourceEvent, handleDeleteResourceEvent,
                                    Delivered
    <2>2. CASE handleTombstonePanics(k)
        BY <1>6, <2>2 DEF handleTombstonePanics
    <2>3. CASE waitingLoop(k)
        BY <1>5, <2>3 DEF waitingLoop
    <2> QED
        BY <1>7, <2>1, <2>2, <2>3 DEF EventHandler
<1>8. CASE sync
    <2>1. worker \in Working
        BY <1>8, WorkerBusy DEF sync, At
    <2>2. worker'.obj = store[worker.key] /\ worker'.key = worker.key /\ store' = store
        BY <1>8, <2>1 DEF sync, Working
    <2> QED
        BY <2>2 DEF InHand
<1>9. CASE lookup
    <2>1. worker \in Working /\ worker.pc = "lookup"
        BY <1>9, WorkerBusy DEF lookup, At
    <2>2. worker'.obj = worker.obj /\ worker'.key = worker.key
        BY <1>9, <2>1 DEF lookup, Then, Working
    <2> QED
        BY <1>9, <2>1, <2>2 DEF InHand, lookup, queueVars
<1>10. CASE HandleOk \/ HandleErr \/ deleteEntry \/ handleErr
    <2>1. worker \in Working
        BY <1>10, WorkerBusy DEF HandleOk, HandleErr, deleteEntry, handleErr, At
    <2>2. worker'.pc \in {"delete", "handleErr", "done"}
        BY <1>10, <2>1, Zenon DEF HandleOk, HandleErr, deleteEntry, handleErr, Then, Working
    <2> QED
        BY <1>1, <2>2
<1>11. CASE processNextItem \/ processNextItemDone
    BY <1>1, <1>11 DEF processNextItem, processNextItemDone, Idle
<1>12. CASE UNCHANGED vars
    BY <1>12 DEF vars, queueVars, InHand
<1>13. CASE restart
    BY <1>1, <1>13 DEF restart, EndedClean
<1> QED
    BY <1>4, <1>6, <1>7, <1>8, <1>9, <1>10, <1>11, <1>12, <1>13
       DEF Next, Worker, mapRace, crash

-----------------------------------------------------------------------------
(* Nothing is forgotten. *)

\* A step that leaves the worker and what it handled alone, takes no key out of
\* the queue, and notifies what it changes in the store, keeps Accounted.
LEMMA AccountedKept ==
    ASSUME Accounted, NEW k \in Keys,
           UNCHANGED <<worker, handled>>, events'[k] # << >>,
           \A j \in Keys \ {k} : /\ store'[j] = store[j] /\ events'[j] = events[j]
                                 /\ j \in dirty => j \in dirty'
                                 /\ j \in waiting => j \in waiting'
                                 /\ j \in dropped => j \in dropped'
    PROVE  Accounted'
BY DEF Accounted, Due

\* A step that adds a key to the queue may take the notification, the delay or
\* the note that it was dropped away.
LEMMA AccountedAdd ==
    ASSUME Accounted, NEW k \in Keys, Add(k), UNCHANGED <<worker, handled, store>>,
           \A j \in Keys \ {k} : /\ events'[j] = events[j]
                                 /\ j \in waiting => j \in waiting'
                                 /\ j \in dropped => j \in dropped'
    PROVE  Accounted'
BY DEF Accounted, Due, Add

\* A step of the worker with key w touches no other key, and w is accounted for
\* by what it was before or by the worker's new state.
LEMMA AccountedWorker ==
    ASSUME Accounted, NEW w \in Keys, worker.key = w, worker'.key = w,
           UNCHANGED <<store, events, dirty>>,
           \A j \in Keys \ {w} : handled'[j] = handled[j],
           waiting \subseteq waiting', dropped \subseteq dropped',
           ASSUME ~(events[w] # << >> \/ w \in dirty \/ w \in waiting)
           PROVE  handled'[w] = store[w] \/ Due(w)' \/ (w \in dropped' /\ store[w] # 0)
    PROVE  Accounted'
BY DEF Accounted, Due

LEMMA AccountedStep ==
    ASSUME InformerInv, [Next]_vars, alive'
    PROVE  Accounted'
<1> USE DEF InformerInv
<1>1. CASE restart
    <2>1. \A k \in Keys : handled'[k] = 0 /\ (store'[k] # 0 => events'[k] = <<"put">>)
        BY <1>1 DEF restart, EndedClean, Listed
    <2> QED
        BY <2>1 DEF Accounted, Due
<1>2. ASSUME alive
      PROVE  Accounted
    BY <1>2
<1>3. ASSUME NEW k \in Keys, Change(k) \/ Resync(k)
      PROVE  Accounted'
    <2>1. ASSUME NEW obj, NEW n \in Notification, HandleDeltas(k, obj, n)
          PROVE  Accounted'
        <3>1. events[k] \in Seq(Notification) /\ events'[k] = Append(events[k], n)
            BY <2>1 DEF HandleDeltas, TypeOK
        <3>2. events'[k] # << >>
            BY <3>1, LastElement, SMTT(30)
        <3>3. \A j \in Keys \ {k} : store'[j] = store[j] /\ events'[j] = events[j]
            BY <2>1 DEF HandleDeltas, TypeOK
        <3> QED
            BY <1>2, <2>1, <3>2, <3>3, AccountedKept DEF HandleDeltas, queueVars
    <2> QED
        BY <1>3, <2>1 DEF Change, watchPut, watchDelete, relistDelete, Resync, Notification
<1>4. ASSUME NEW k \in Keys, EventHandler(k) \/ waitingLoop(k)
      PROVE  Accounted'
    <2>1. CASE handleTombstonePanics(k)
        BY <2>1 DEF handleTombstonePanics, dies
    <2>2. CASE handlePutResourceEvent(k) \/ handleDeleteResourceEvent(k)
        <3>1. \A j \in Keys \ {k} : events'[j] = events[j] /\ (j \in dropped => j \in dropped')
            BY <2>2, Zenon DEF handlePutResourceEvent, handleDeleteResourceEvent, Delivered, TypeOK
        <3>2. alive /\ Add(k) /\ UNCHANGED <<worker, handled, store, waiting>>
            BY <2>2, Zenon DEF handlePutResourceEvent, handleDeleteResourceEvent, Delivered
        <3> QED
            BY <1>2, <3>1, <3>2, AccountedAdd
    <2>3. CASE waitingLoop(k)
        BY <1>2, <2>3, AccountedAdd DEF waitingLoop
    <2> QED
        BY <1>4, <2>1, <2>2, <2>3 DEF EventHandler
<1>5. CASE processNextItem
    <2>1. /\ worker.pc = "idle" /\ Accounted
          /\ worker'.pc = "sync" /\ worker'.key = Head(queue)
          /\ dirty' = dirty \ {Head(queue)}
          /\ UNCHANGED <<store, events, waiting, handled, dropped>>
        BY <1>2, <1>5 DEF processNextItem, Get, At
    <2> QED
        BY <2>1 DEF Accounted, Due
<1>6. CASE processNextItemDone
    <2>1. /\ worker.pc = "done" /\ Accounted
          /\ UNCHANGED <<store, events, waiting, handled, dropped, dirty>>
        BY <1>2, <1>6 DEF processNextItemDone, Done, At
    <2> QED
        BY <2>1 DEF Accounted, Due
<1>7. ASSUME alive, worker.pc # "idle"
      PROVE  worker \in Working /\ worker.key \in Keys /\ Accounted
    BY <1>7, WorkerBusy DEF Working
<1>8. CASE sync
    <2>1. worker \in Working /\ worker.key \in Keys /\ Accounted
        BY <1>7, <1>8 DEF sync, At
    <2>2. /\ worker'.key = worker.key /\ worker'.obj = store[worker.key]
          /\ worker'.pc \in {"lookup", "handle"}
          /\ UNCHANGED <<store, events, dirty, waiting, handled, dropped>>
        BY <1>8, <2>1 DEF sync, Working, queueVars
    <2> QED
        BY <2>1, <2>2, AccountedWorker, Zenon DEF Due
<1>9. CASE lookup
    <2> DEFINE w == worker.key
    <2>1. worker \in Working /\ w \in Keys /\ Accounted /\ worker.pc = "lookup"
        BY <1>7, <1>9 DEF lookup, At
    <2>2. /\ worker'.key = w /\ worker'.obj = worker.obj /\ worker.obj = 0
          /\ worker'.pc = IF w \in deletedObjects THEN "handle" ELSE "handleErr"
          /\ UNCHANGED <<store, events, dirty, waiting, handled, dropped>>
        BY <1>9, <2>1 DEF lookup, Then, Working, WorkerSound, queueVars
    <2>3. ASSUME ~(events[w] # << >> \/ w \in dirty \/ w \in waiting)
          PROVE  handled'[w] = store[w] \/ Due(w)' \/ (w \in dropped' /\ store[w] # 0)
        <3>1. CASE store[w] = 0 /\ handled[w] # 0
            BY <2>1, <2>2, <2>3, <3>1 DEF DeletionKnown, Known, Due
        <3>2. CASE store[w] # 0
            BY <2>1, <2>2, <2>3, <3>2 DEF Accounted, Due
        <3> QED
            BY <2>2, <3>1, <3>2
    <2> HIDE DEF w
    <2> QED
        BY <2>1, <2>2, <2>3, AccountedWorker, Zenon DEF w
<1>10. CASE HandleOk
    <2> DEFINE w == worker.key
    <2>1. worker \in Working /\ w \in Keys /\ Accounted /\ worker.pc = "handle"
        BY <1>7, <1>10 DEF HandleOk, At
    <2>2. /\ worker'.key = w /\ handled'[w] = worker.obj
          /\ \A j \in Keys \ {w} : handled'[j] = handled[j]
          /\ UNCHANGED <<store, events, dirty, waiting, dropped>>
        BY <1>10, <2>1 DEF HandleOk, Then, Working, TypeOK, queueVars
    <2>3. ASSUME ~(events[w] # << >> \/ w \in dirty \/ w \in waiting)
          PROVE  handled'[w] = store[w] \/ Due(w)' \/ (w \in dropped' /\ store[w] # 0)
        BY <2>1, <2>2, <2>3 DEF InHand
    <2> QED
        BY <2>1, <2>2, <2>3, AccountedWorker, Zenon
<1>11. CASE HandleErr
    <2> DEFINE w == worker.key
    <2>1. worker \in Working /\ w \in Keys /\ Accounted /\ worker.pc = "handle"
        BY <1>7, <1>11 DEF HandleErr, At
    <2>2. /\ worker'.key = w /\ worker'.obj = worker.obj
          /\ worker'.pc = "handleErr" /\ worker'.err = "error"
          /\ UNCHANGED <<store, events, dirty, waiting, handled, dropped>>
        BY <1>11, <2>1 DEF HandleErr, Working, queueVars
    <2>3. ASSUME ~(events[w] # << >> \/ w \in dirty \/ w \in waiting)
          PROVE  handled'[w] = store[w] \/ Due(w)' \/ (w \in dropped' /\ store[w] # 0)
        BY <2>1, <2>2, <2>3 DEF Accounted, Due
    <2> QED
        BY <2>1, <2>2, <2>3, AccountedWorker, Zenon
<1>15. CASE deleteEntry
    <2>1. /\ worker.pc = "delete" /\ Accounted
          /\ UNCHANGED <<store, events, dirty, waiting, handled, dropped>>
        BY <1>7, <1>15 DEF deleteEntry, At, queueVars
    <2> QED
        BY <2>1 DEF Accounted, Due
<1>12. CASE handleErr
    <2> DEFINE w == worker.key
    <2>1. worker \in Working /\ w \in Keys /\ Accounted /\ worker.pc = "handleErr"
        BY <1>7, <1>12 DEF handleErr, At
    <2>2. worker'.key = w /\ UNCHANGED <<store, events, dirty, handled>>
        BY <1>12, <2>1 DEF handleErr, Then, Working, queueVars
    <2>3. waiting \subseteq waiting' /\ dropped \subseteq dropped'
        BY <1>12 DEF handleErr
    <2>4. worker.err # "nil" => w \in waiting' \/ w \in dropped'
        BY <1>12 DEF handleErr
    <2>5. ASSUME ~(events[w] # << >> \/ w \in dirty \/ w \in waiting)
          PROVE  handled'[w] = store[w] \/ Due(w)' \/ (w \in dropped' /\ store[w] # 0)
        BY <2>1, <2>2, <2>3, <2>4, <2>5 DEF Accounted, Due, WorkerSound
    <2> QED
        BY <2>1, <2>2, <2>3, <2>5, AccountedWorker, Zenon
<1>13. CASE UNCHANGED vars
    BY <1>2, <1>13 DEF vars, queueVars, Accounted, Due
<1>14. CASE mapRace \/ crash
    BY <1>14 DEF mapRace, crash, dies
<1> QED
    BY <1>1, <1>3, <1>4, <1>5, <1>6, <1>8, <1>9, <1>10, <1>11, <1>12, <1>13, <1>14,
       <1>15 DEF Next, Worker

-----------------------------------------------------------------------------
(* The theorems. *)

LEMMA InformerInit == Init => InformerInv
<1> SUFFICES ASSUME Init PROVE InformerInv
    OBVIOUS
<1> USE DEF Init
<1>1. \A k \in Keys : store[k] = 0 /\ handled[k] = 0 /\ events[k] = << >>
    BY Zenon DEF Listed
<1>2. << >> \in Seq(Notification) /\ << >> \in Seq(Keys) /\ Len(<< >>) = 0
    OBVIOUS
<1>3. events \in [Keys -> Seq(Notification)]
    BY <1>1, <1>2 DEF Listed
<1>4. TypeOK
    <2>1. 0 \in 0 .. MaxRetries
        BY InformerAssumption
    <2>2. failures \in [Keys -> 0 .. MaxRetries]
        BY <2>1
    <2> QED
        BY <1>2, <1>3, <2>2 DEF TypeOK
<1>5. QueueSound
    BY <1>2 DEF QueueSound, Elems, Idle
<1>6. WorkerSound /\ EventsSound /\ DeletionKnown /\ EndedClean /\ Accounted
    BY <1>1 DEF WorkerSound, EventsSound, DeletionKnown, Known, EndedClean, Accounted, Idle
<1>7. InHand
    BY DEF InHand, Idle
<1> QED
    BY <1>4, <1>5, <1>6, <1>7 DEF InformerInv

LEMMA EndedStep ==
    ASSUME TypeOK, [Next]_vars, EndedClean
    PROVE  EndedClean'
<1>1. CASE dies
    BY <1>1 DEF dies, EndedClean, Idle
<1>2. CASE UNCHANGED vars
    BY <1>2 DEF vars, EndedClean
<1>3. CASE alive'
    BY <1>3 DEF EndedClean
<1>4. dies \/ alive' \/ UNCHANGED vars
    BY DEF Next, Change, watchPut, watchDelete, relistDelete, Resync, HandleDeltas,
           EventHandler, handlePutResourceEvent, handleDeleteResourceEvent,
           handleTombstonePanics, Delivered, waitingLoop, Worker, processNextItem, sync,
           lookup, HandleOk, HandleErr, deleteEntry, handleErr, processNextItemDone, At,
           mapRace, crash, restart
<1> QED
    BY <1>1, <1>2, <1>3, <1>4

LEMMA InformerStep == InformerInv /\ [Next]_vars => InformerInv'
<1> SUFFICES ASSUME InformerInv, [Next]_vars PROVE InformerInv'
    OBVIOUS
<1>1. TypeOK' /\ QueueSound' /\ WorkerSound'
    BY TypeStep, QueueStep, WorkerStep DEF InformerInv
<1>2. EventsSound' /\ DeletionKnown' /\ EndedClean' /\ InHand'
    BY EventsStep, DeletionStep, EndedStep, InHandStep DEF InformerInv
<1>3. alive' => Accounted'
    BY AccountedStep
<1> QED
    BY <1>1, <1>2, <1>3 DEF InformerInv

LEMMA InformerHolds == Spec => []InformerInv
BY InformerInit, InformerStep, PTL DEF Spec

\* The queue, the worker and the notifications keep their types, and no key is
\* retried more than maxRetries times in a row, for any number of jobs.
THEOREM TypeCorrect == Spec => []TypeOK
<1>1. InformerInv => TypeOK
    BY DEF InformerInv
<1> QED
    BY <1>1, InformerHolds, PTL

\* A job is queued at most once and never handled twice at a time, for any
\* number of jobs: Add, Get and Done keep queue, dirty and processing in step.
THEOREM QueueIsSound == Spec => []QueueSound
<1>1. InformerInv => QueueSound
    BY DEF InformerInv
<1> QED
    BY <1>1, InformerHolds, PTL

\* No change of a job is lost between the watch and the handler.
THEOREM NothingIsForgotten == Spec => []NothingForgotten
<1>1. InformerInv => NothingForgotten
    <2> SUFFICES ASSUME InformerInv, alive, NEW k \in Keys
                 PROVE  \/ handled[k] = store[k]
                        \/ Pending(k)
                        \/ k \in dropped /\ store[k] # 0
        BY Zenon DEF NothingForgotten
    <2> QED
        BY DEF InformerInv, Accounted, Due, Pending
<1> QED
    BY <1>1, InformerHolds, PTL
=============================================================================
