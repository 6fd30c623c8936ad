------------------------ MODULE CameraControl_proofs ------------------------
(***************************************************************************)
(* Cameras, from the registry of readers to the dashboards, for any        *)
(* cameras, requests, dashboards and bounds.                               *)
(*                                                                         *)
(* Fed says what each consumer's queue can hold; Registry relates readers, *)
(* the registry's table and the life of the ingestion service; Heard       *)
(* relates the rows, the monitor's memory and what it is doing; Shown      *)
(* relates the dashboards, the pool and the broadcasts under way.          *)
(***************************************************************************)
EXTENDS CameraControl, TLAPS

-----------------------------------------------------------------------------
(* The bus. *)

\* What is published on the channel of a consumer.
Feed == [listener |-> {"START", "STOP"} \X Cameras,
         monitor  |-> Cameras \X Statuses,
         reporter |-> Levels]

FedOne(c) ==
    /\ queue[c] \in Seq(Feed[c])
    /\ Len(queue[c]) <= MaxQueue
    /\ handling[c] \in {<<>>} \cup {<<m>> : m \in Feed[c]}

Fed ==
    /\ subscribed \subseteq Consumers
    /\ queue = [c \in Consumers |-> queue[c]]
    /\ handling = [c \in Consumers |-> handling[c]]
    /\ \A c \in Consumers : FedOne(c)

LEMMA ConsumerNames == Consumers = {"listener", "monitor", "reporter"}
BY DEF Consumers, ChannelOf

LEMMA FeedsAreMessages == \A c \in Consumers : Feed[c] \subseteq Messages
BY ConsumerNames DEF Feed, Messages

LEMMA SeqOfSubset ==
    ASSUME NEW S, NEW T, S \subseteq T, NEW s \in Seq(S) PROVE s \in Seq(T)
<1>1. Len(s) \in Nat /\ s = [n \in 1..Len(s) |-> s[n]] /\ \A n \in 1..Len(s) : s[n] \in S
  OBVIOUS
<1> QED BY <1>1

LEMMA FedTypes == Fed => Bus!BusTypeOK
<1> SUFFICES ASSUME Fed PROVE Bus!BusTypeOK
  OBVIOUS
<1>1. ASSUME NEW c \in Consumers
      PROVE  /\ queue[c] \in Seq(Messages) /\ Len(queue[c]) <= MaxQueue
             /\ handling[c] \in {<<>>} \cup {<<m>> : m \in Messages}
  <2>1. FedOne(c) /\ Feed[c] \subseteq Messages
    BY FeedsAreMessages DEF Fed
  <2>2. queue[c] \in Seq(Messages)
    BY <2>1, SeqOfSubset DEF FedOne
  <2> QED BY <2>1, <2>2 DEF FedOne
<1>2. queue \in [Consumers -> Seq(Messages)]
  BY <1>1 DEF Fed
<1>3. handling \in [Consumers -> {<<>>} \cup {<<m>> : m \in Messages}]
  BY <1>1 DEF Fed
<1> QED BY <1>1, <1>2, <1>3 DEF Bus!BusTypeOK, Fed

LEMMA AppendFed ==
    ASSUME NEW S, NEW s \in Seq(S), NEW m \in S, Len(s) <= MaxQueue, ~(Len(s) >= MaxQueue)
    PROVE  Append(s, m) \in Seq(S) /\ Len(Append(s, m)) <= MaxQueue
BY ReadersAssumption

LEMMA TailFed ==
    ASSUME NEW S, NEW s \in Seq(S), s # <<>>, Len(s) <= MaxQueue
    PROVE  Tail(s) \in Seq(S) /\ Len(Tail(s)) <= MaxQueue /\ Head(s) \in S
BY ReadersAssumption

LEMMA EmptyFed == \A S : <<>> \in Seq(S) /\ Len(<<>>) <= MaxQueue
BY ReadersAssumption

\* What PublishAll leaves in a queue.
LEMMA JoinFed ==
    ASSUME NEW S, NEW s \in Seq(S), NEW ms \in Seq(S), NEW new,
           new = LET all == s \o ms IN
                 IF Len(all) <= MaxQueue THEN all ELSE SubSeq(all, 1, MaxQueue)
    PROVE  new \in Seq(S) /\ Len(new) <= MaxQueue
<1> DEFINE all == s \o ms
<1>1. all \in Seq(S) /\ Len(all) \in Nat /\ MaxQueue \in Nat
  BY ReadersAssumption
<1>2. CASE Len(all) <= MaxQueue
  BY <1>1, <1>2
<1>3. CASE ~(Len(all) <= MaxQueue)
  <2> HIDE DEF all
  <2>1. MaxQueue \in 0..Len(all) /\ \A n \in 1..MaxQueue : n \in 1..Len(all)
    BY <1>1, <1>3
  <2>2. SubSeq(all, 1, MaxQueue) \in Seq(S) /\ Len(SubSeq(all, 1, MaxQueue)) = MaxQueue
    BY <1>1, <2>1
  <2> QED BY <1>1, <1>3, <2>2 DEF all
<1> QED BY <1>2, <1>3

LEMMA PublishFed ==
    ASSUME Fed, NEW ch, NEW m, Bus!Publish(ch, m),
           \A c \in Consumers : ChannelOf[c] = ch => m \in Feed[c]
    PROVE  Fed'
<1>1. /\ queue' = [c \in Consumers |-> IF c \in Bus!Subscribers(ch) /\ ~Bus!Full(c)
                                       THEN Append(queue[c], m) ELSE queue[c]]
      /\ UNCHANGED <<subscribed, handling>>
  BY DEF Bus!Publish, Bus!Enqueued
<1>2. ASSUME NEW c \in Consumers
      PROVE  FedOne(c)'
  <2>1. FedOne(c)
    BY DEF Fed
  <2>2. queue'[c] = IF c \in Bus!Subscribers(ch) /\ ~Bus!Full(c)
                    THEN Append(queue[c], m) ELSE queue[c]
    BY <1>1
  <2>3. CASE c \in Bus!Subscribers(ch) /\ ~Bus!Full(c)
    BY <1>1, <2>1, <2>2, <2>3, AppendFed DEF FedOne, Bus!Subscribers, Bus!Full
  <2>4. CASE ~(c \in Bus!Subscribers(ch) /\ ~Bus!Full(c))
    BY <1>1, <2>1, <2>2, <2>4 DEF FedOne
  <2> QED BY <2>3, <2>4
<1> QED BY <1>1, <1>2 DEF Fed

LEMMA PublishAllFed ==
    ASSUME Fed, NEW ch, NEW ms, Bus!PublishAll(ch, ms),
           \A c \in Consumers : ChannelOf[c] = ch => ms \in Seq(Feed[c])
    PROVE  Fed'
<1>1. /\ queue' = [c \in Consumers |->
                     LET all == queue[c] \o ms IN
                     IF c \notin Bus!Subscribers(ch) THEN queue[c]
                     ELSE IF Len(all) <= MaxQueue THEN all ELSE SubSeq(all, 1, MaxQueue)]
      /\ UNCHANGED <<subscribed, handling>>
  BY DEF Bus!PublishAll
<1>2. ASSUME NEW c \in Consumers
      PROVE  FedOne(c)'
  <2>1. FedOne(c)
    BY DEF Fed
  <2>2. CASE c \in Bus!Subscribers(ch)
    <3>1. ms \in Seq(Feed[c])
      BY <2>2 DEF Bus!Subscribers
    <3>2. queue'[c] = LET all == queue[c] \o ms IN
                      IF Len(all) <= MaxQueue THEN all ELSE SubSeq(all, 1, MaxQueue)
      BY <1>1, <2>2
    <3>3. queue'[c] \in Seq(Feed[c]) /\ Len(queue'[c]) <= MaxQueue
      BY <2>1, <3>1, <3>2, JoinFed DEF FedOne
    <3> QED BY <1>1, <2>1, <3>3 DEF FedOne
  <2>3. CASE c \notin Bus!Subscribers(ch)
    BY <1>1, <2>1, <2>3 DEF FedOne
  <2> QED BY <2>2, <2>3
<1> QED BY <1>1, <1>2 DEF Fed

\* What one consumer does leaves the others alone.
BusRests(c) == queue'[c] = queue[c] /\ handling'[c] = handling[c]

LEMMA FedConsumer ==
    ASSUME Fed, NEW d \in Consumers,
           Bus!Start(d) \/ Bus!Take(d) \/ Bus!Serve(d) \/ Bus!Return(d) \/ Bus!Cancel(d)
    PROVE  Fed' /\ \A c \in Consumers \ {d} : BusRests(c)
<1>1. FedOne(d)
  BY DEF Fed
<1>2. \A c \in Consumers \ {d} : BusRests(c)
  BY DEF Fed, BusRests, Bus!Start, Bus!Take, Bus!Serve, Bus!Return, Bus!Cancel
<1>3. FedOne(d)'
  <2>1. CASE Bus!Start(d)
    BY <1>1, <2>1, EmptyFed DEF Fed, FedOne, Bus!Start
  <2>2. CASE Bus!Take(d)
    BY <1>1, <2>2, TailFed DEF Fed, FedOne, Bus!Take
  <2>3. CASE Bus!Serve(d)
    BY <1>1, <2>3, TailFed DEF Fed, FedOne, Bus!Serve
  <2>4. CASE Bus!Return(d)
    BY <1>1, <2>4 DEF Fed, FedOne, Bus!Return
  <2>5. CASE Bus!Cancel(d)
    BY <1>1, <2>5, EmptyFed DEF Fed, FedOne, Bus!Cancel
  <2> QED BY <2>1, <2>2, <2>3, <2>4, <2>5
<1>4. \A c \in Consumers : FedOne(c)'
  BY <1>2, <1>3 DEF Fed, FedOne, BusRests
<1>5. subscribed' \subseteq Consumers
  BY DEF Fed, Bus!Start, Bus!Take, Bus!Serve, Bus!Return, Bus!Cancel
<1>6. /\ queue' = [c \in Consumers |-> queue'[c]]
      /\ handling' = [c \in Consumers |-> handling'[c]]
  BY DEF Fed, Bus!Start, Bus!Take, Bus!Serve, Bus!Return, Bus!Cancel
<1> QED BY <1>2, <1>4, <1>5, <1>6 DEF Fed

LEMMA FedSame == ASSUME Fed, UNCHANGED bus PROVE Fed'
BY DEF Fed, FedOne, bus

-----------------------------------------------------------------------------
(* Readers, the registry's table and the ingestion service.                    *)

Reader == [camera : Cameras \cup {None}, pc : {"done", "opening", "reading", "cancelling"},
           attempts : 0..MaxAttempts]

ReaderTypes ==
    /\ table \in [Cameras -> Tasks \cup {None}]
    /\ task \in [Tasks -> Reader]
    /\ awaited \in [{"listener", "main"} -> Tasks \cup {None}]
    /\ ingestion \in {"down", "loading", "up", "stopping", "stopped"}
    /\ loaded \subseteq Cameras

\* A reader that runs is under its camera; before the service is up nothing runs
\* and nothing listens for commands.
Registry ==
    /\ \A t \in Tasks :
         /\ Live(t) => task[t].camera \in Cameras
         /\ task[t].pc \in {"opening", "reading"} => table[task[t].camera] = t
    /\ ingestion \in {"down", "loading"} =>
         /\ "listener" \notin subscribed
         /\ \A c \in Cameras : table[c] = None
         /\ \A t \in Tasks : ~Live(t)

LEMMA CreatedReader ==
    ASSUME NEW c \in Cameras
    PROVE  Created(c) \in Reader /\ Created(c).camera = c
<1>1. 0 \in 0..MaxAttempts
  BY ReadersAssumption
<1> QED BY <1>1 DEF Created, Reader

LEMMA RetryingReader ==
    ASSUME NEW c \in Cameras, NEW n \in 0..MaxAttempts
    PROVE  [Created(c) EXCEPT !.attempts = n] \in Reader
BY CreatedReader DEF Reader

LEMMA ReaderMoves ==
    ASSUME NEW r \in Reader
    PROVE  /\ [r EXCEPT !.pc = "cancelling"] \in Reader
           /\ [r EXCEPT !.pc = "reading", !.attempts = 0] \in Reader
<1>1. 0 \in 0..MaxAttempts
  BY ReadersAssumption
<1> QED BY <1>1 DEF Reader

LEMMA FinishedReader == Finished \in Reader
BY ReadersAssumption DEF Finished, Reader

\* _handle_reconnect: the task ends, or tries again for the same camera.
LEMMA ReconnectStep ==
    ASSUME ReaderTypes, Registry, Fed, NEW t \in Tasks, NEW n \in Nat, NEW before,
           before \in Seq(Cameras \X Statuses), Live(t), Reconnect(t, n, before)
    PROVE  /\ task' \in [Tasks -> Reader] /\ Fed'
           /\ task'[t] = Finished
              \/ (task'[t].camera = task[t].camera /\ task'[t].pc = "opening")
           /\ \A u \in Tasks \ {t} : task'[u] = task[u]
           /\ UNCHANGED <<table, awaited, ingestion, loaded, subscribed>>
<1> DEFINE c == task[t].camera
           more == IF n > MaxAttempts THEN << <<c, "OFFLINE">> >> ELSE <<>>
<1>1. c \in Cameras
  BY DEF Registry
<1>2. /\ task' = [task EXCEPT ![t] = IF n > MaxAttempts THEN Finished
                                     ELSE [Created(c) EXCEPT !.attempts = n]]
      /\ Bus!PublishAll("camera_health", before \o << <<c, "RECONNECTING">> >> \o more)
      /\ UNCHANGED <<table, awaited, ingestion, loaded>>
  BY DEF Reconnect
<1>3. n > MaxAttempts \/ n \in 0..MaxAttempts
  BY ReadersAssumption
<1>4. [Created(c) EXCEPT !.attempts = n].camera = c
      /\ [Created(c) EXCEPT !.attempts = n].pc = "opening"
  BY DEF Created
<1>5. task' \in [Tasks -> Reader]
  <2>1. n \in 0..MaxAttempts => [Created(c) EXCEPT !.attempts = n] \in Reader
    BY <1>1, RetryingReader, FinishedReader
  <2>2. (IF n > MaxAttempts THEN Finished ELSE [Created(c) EXCEPT !.attempts = n]) \in Reader
    BY <1>3, <2>1, FinishedReader
  <2> QED BY <1>2, <2>2 DEF ReaderTypes
<1>6. before \o << <<c, "RECONNECTING">> >> \o more \in Seq(Cameras \X Statuses)
  <2>1. <<c, "RECONNECTING">> \in Cameras \X Statuses /\ <<c, "OFFLINE">> \in Cameras \X Statuses
    BY <1>1 DEF Statuses
  <2>2. more \in Seq(Cameras \X Statuses)
    <3>1. << <<c, "OFFLINE">> >> \in Seq(Cameras \X Statuses)
          /\ <<>> \in Seq(Cameras \X Statuses)
      BY <2>1
    <3> QED BY <3>1
  <2>3. before \o << <<c, "RECONNECTING">> >> \in Seq(Cameras \X Statuses)
    BY <2>1
  <2> HIDE DEF more
  <2> QED BY <2>2, <2>3
<1>7. Fed'
  <2>1. \A k \in Consumers : ChannelOf[k] = "camera_health" => Feed[k] = Cameras \X Statuses
    BY ConsumerNames DEF ChannelOf, Feed
  <2> HIDE DEF more
  <2> QED BY <1>2, <1>6, <2>1, PublishAllFed
<1>8. UNCHANGED subscribed
  BY <1>2 DEF Bus!PublishAll
<1> QED BY <1>2, <1>4, <1>5, <1>7, <1>8 DEF ReaderTypes

RegInv == ReaderTypes /\ Registry /\ Fed

\* A reader that ends or goes on for its camera leaves the registry in order.
LEMMA ReaderGoesOn ==
    ASSUME RegInv, NEW t \in Tasks, Live(t), UNCHANGED <<table, ingestion>>,
           \A u \in Tasks \ {t} : task'[u] = task[u],
           \/ task'[t].pc = "done"
           \/ /\ task'[t].camera = task[t].camera
              /\ task[t].pc \in {"opening", "reading"} \/ task'[t].pc = "cancelling"
    PROVE  Registry'
BY DEF RegInv, Registry, Live

LEMMA RegistryReader ==
    ASSUME RegInv, NEW t \in Tasks, ReaderStep(t)
    PROVE  RegInv' /\ UNCHANGED <<loaded, table, awaited, ingestion, subscribed>>
<1> USE DEF RegInv
<1>1. task[t] \in Reader
  BY DEF ReaderTypes
<1>2. ASSUME NEW n \in Nat, NEW before \in Seq(Cameras \X Statuses),
             task[t].pc \in {"opening", "reading"}, Reconnect(t, n, before)
      PROVE  RegInv' /\ UNCHANGED <<loaded, table, awaited, ingestion, subscribed>>
  <2>1. Live(t)
    BY <1>2 DEF Live
  <2>2. /\ task' \in [Tasks -> Reader] /\ Fed'
        /\ task'[t] = Finished
           \/ (task'[t].camera = task[t].camera /\ task'[t].pc = "opening")
        /\ \A u \in Tasks \ {t} : task'[u] = task[u]
        /\ UNCHANGED <<table, awaited, ingestion, loaded, subscribed>>
    BY <1>2, <2>1, ReconnectStep
  <2>3. Registry'
    BY <1>2, <2>1, <2>2, ReaderGoesOn DEF Finished
  <2> QED BY <2>2, <2>3 DEF ReaderTypes
<1>3. <<>> \in Seq(Cameras \X Statuses)
  OBVIOUS
<1>4. CASE OpenFails(t)
  <2>1. task[t].attempts + 1 \in Nat
    BY <1>1, ReadersAssumption DEF Reader
  <2> QED BY <1>2, <1>3, <1>4, <2>1 DEF OpenFails
<1>5. CASE OpensEmpty(t)
  <2>1. task[t].camera \in Cameras
    BY <1>5 DEF OpensEmpty, Registry, Live
  <2>2. << <<task[t].camera, "ACTIVE">> >> \in Seq(Cameras \X Statuses)
    <3>1. <<task[t].camera, "ACTIVE">> \in Cameras \X Statuses
      BY <2>1 DEF Statuses
    <3> QED BY <3>1
  <2> QED BY <1>2, <1>5, <2>2 DEF OpensEmpty
<1>6. CASE ReadFails(t)
  BY <1>2, <1>3, <1>6 DEF ReadFails
<1>7. CASE OpenSucceeds(t)
  <2>1. task[t].camera \in Cameras /\ Live(t)
    BY <1>7 DEF OpenSucceeds, Registry, Live
  <2>2. <<task[t].camera, "ACTIVE">> \in Cameras \X Statuses
    BY <2>1 DEF Statuses
  <2>3. \A c \in Consumers : ChannelOf[c] = "camera_health" => Feed[c] = Cameras \X Statuses
    BY ConsumerNames DEF ChannelOf, Feed
  <2>4. Fed' /\ subscribed' = subscribed
    BY <1>7, <2>2, <2>3, PublishFed DEF OpenSucceeds, Bus!Publish
  <2>5. /\ task' = [task EXCEPT ![t] = [@ EXCEPT !.pc = "reading", !.attempts = 0]]
        /\ UNCHANGED <<table, awaited, ingestion, loaded>>
        /\ task[t].pc = "opening"
    BY <1>7 DEF OpenSucceeds
  <2>6. task' \in [Tasks -> Reader]
    <3>1. [task[t] EXCEPT !.pc = "reading", !.attempts = 0] \in Reader
      BY <1>1, ReaderMoves
    <3> QED BY <2>5, <3>1 DEF ReaderTypes
  <2>7. Registry'
    <3>1. task'[t].camera = task[t].camera
      BY <1>1, <2>5 DEF ReaderTypes, Reader
    <3>2. \A u \in Tasks \ {t} : task'[u] = task[u]
      BY <2>5 DEF ReaderTypes
    <3> QED BY <2>1, <2>5, <3>1, <3>2, ReaderGoesOn
  <2> QED BY <2>4, <2>5, <2>6, <2>7 DEF ReaderTypes
<1>8. CASE ReaderCancelled(t)
  <2>1. /\ task' = [task EXCEPT ![t] = Finished] /\ Live(t)
        /\ UNCHANGED <<table, awaited, ingestion, loaded, bus>>
    BY <1>8 DEF ReaderCancelled, Live
  <2>2. Fed' /\ subscribed' = subscribed
    BY <2>1, FedSame DEF bus
  <2>3. task' \in [Tasks -> Reader]
    BY <2>1, FinishedReader DEF ReaderTypes
  <2>4. Registry'
    BY <2>1, ReaderGoesOn DEF ReaderTypes, Finished
  <2> QED BY <2>1, <2>2, <2>3, <2>4 DEF ReaderTypes
<1> QED BY <1>4, <1>5, <1>6, <1>7, <1>8 DEF ReaderStep, Attempt

\* start_camera and stop_camera.
LEMMA StartKeeps ==
    ASSUME RegInv, NEW c \in Cameras, StartCamera(c)
    PROVE  /\ table' \in [Cameras -> Tasks \cup {None}]
           /\ task' \in [Tasks -> Reader]
           /\ \A t \in Tasks :
                /\ Live(t)' => task'[t].camera \in Cameras
                /\ task'[t].pc \in {"opening", "reading"} => table'[task'[t].camera] = t
<1> USE DEF RegInv
<1>1. CASE table[c] # None /\ Live(table[c])
  BY <1>1 DEF StartCamera, ReaderTypes, Registry, Live
<1>2. CASE ~(table[c] # None /\ Live(table[c]))
  <2>1. PICK t \in Unused : /\ table' = [table EXCEPT ![c] = t]
                            /\ task' = [task EXCEPT ![t] = Created(c)]
    BY <1>2 DEF StartCamera
  <2>2. t \in Tasks /\ Created(c) \in Reader
        /\ Created(c).camera = c
    BY CreatedReader DEF Unused
  <2>3. \A u \in Tasks : table[c] = u => ~Live(u)
    BY <1>2, ReadersAssumption
  <2>4. task'[t] = Created(c) /\ table'[c] = t
    BY <2>1, <2>2 DEF ReaderTypes
  <2>5. \A u \in Tasks \ {t} : task'[u] = task[u]
    BY <2>1 DEF ReaderTypes
  <2>6. ASSUME NEW u \in Tasks \ {t}, task'[u].pc \in {"opening", "reading"}
        PROVE  table'[task'[u].camera] = u
    <3>1. Live(u) /\ table[task[u].camera] = u /\ task[u].camera \in Cameras
      BY <2>5, <2>6 DEF Registry, Live
    <3>2. task[u].camera # c
      BY <2>3, <3>1
    <3> QED BY <2>1, <2>5, <3>1, <3>2 DEF ReaderTypes
  <2>7. \A u \in Tasks : Live(u)' => task'[u].camera \in Cameras
    BY <2>2, <2>4, <2>5 DEF Registry, Live
  <2>8. task'[t].pc \in {"opening", "reading"} => table'[task'[t].camera] = t
    BY <2>2, <2>4
  <2>9. table' \in [Cameras -> Tasks \cup {None}] /\ task' \in [Tasks -> Reader]
    BY <2>1, <2>2 DEF ReaderTypes
  <2> QED BY <2>6, <2>7, <2>8, <2>9
<1> QED BY <1>1, <1>2

LEMMA StopKeeps ==
    ASSUME RegInv, NEW c \in Cameras, NEW who \in {"listener", "main"}, StopCamera(c, who)
    PROVE  /\ table' \in [Cameras -> Tasks \cup {None}]
           /\ task' \in [Tasks -> Reader]
           /\ awaited' \in [{"listener", "main"} -> Tasks \cup {None}]
           /\ \A t \in Tasks :
                /\ Live(t)' => task'[t].camera \in Cameras
                /\ task'[t].pc \in {"opening", "reading"} => table'[task'[t].camera] = t
<1> USE DEF RegInv
<1> DEFINE t == table[c]
<1>1. table' = [table EXCEPT ![c] = None]
  BY DEF StopCamera
<1>2. table' \in [Cameras -> Tasks \cup {None}]
  BY <1>1 DEF ReaderTypes
<1>3. CASE t # None /\ Live(t)
  <2>1. /\ t \in Tasks
        /\ task' = [task EXCEPT ![t].pc = "cancelling"]
        /\ awaited' = [awaited EXCEPT ![who] = t]
    BY <1>3 DEF StopCamera, ReaderTypes
  <2>2. [task[t] EXCEPT !.pc = "cancelling"] \in Reader /\ task[t] \in Reader
    BY <2>1, ReaderMoves DEF ReaderTypes
  <2>3. task' \in [Tasks -> Reader] /\ awaited' \in [{"listener", "main"} -> Tasks \cup {None}]
    BY <2>1, <2>2 DEF ReaderTypes
  <2>4. /\ task'[t].pc = "cancelling" /\ task'[t].camera = task[t].camera
        /\ \A u \in Tasks \ {t} : task'[u] = task[u]
    BY <2>1, <2>2 DEF ReaderTypes, Reader
  <2>5. ASSUME NEW u \in Tasks, task'[u].pc \in {"opening", "reading"}
        PROVE  table'[task'[u].camera] = u
    <3>1. u # t
      BY <2>4, <2>5
    <3>2. table[task[u].camera] = u /\ task[u].camera \in Cameras
      BY <2>4, <2>5, <3>1 DEF Registry, Live
    <3> QED BY <1>1, <2>4, <3>1, <3>2 DEF ReaderTypes
  <2>6. \A u \in Tasks : Live(u)' => task'[u].camera \in Cameras
    BY <1>3, <2>1, <2>4 DEF Registry, Live
  <2> QED BY <1>2, <2>3, <2>5, <2>6
<1>4. CASE ~(t # None /\ Live(t))
  <2>1. UNCHANGED <<task, awaited>>
    BY <1>4 DEF StopCamera
  <2>2. ASSUME NEW u \in Tasks, task'[u].pc \in {"opening", "reading"}
        PROVE  table'[task'[u].camera] = u
    <3>1. Live(u) /\ table[task[u].camera] = u /\ task[u].camera \in Cameras
      BY <2>1, <2>2 DEF Registry, Live
    <3>2. task[u].camera # c
      BY <1>4, <3>1, ReadersAssumption
    <3> QED BY <1>1, <2>1, <3>1, <3>2 DEF ReaderTypes
  <2> QED BY <1>2, <2>1, <2>2 DEF ReaderTypes, Registry, Live
<1> QED BY <1>3, <1>4

\* The listener.
LEMMA ListenerKeeps ==
    ASSUME RegInv, ListenerStep
    PROVE  RegInv'
<1> USE DEF RegInv
<1>1. "listener" \in Consumers
  BY ConsumerNames
<1>2. CASE ListenerResumes
  <2>1. Fed' /\ subscribed' = subscribed
    BY <1>1, <1>2, FedConsumer DEF ListenerResumes, Bus!Return
  <2> QED BY <1>2, <2>1 DEF ListenerResumes, ReaderTypes, Registry, Live
<1>3. ASSUME NEW c \in Cameras, ListenerStarts(c)
      PROVE  RegInv'
  <2>1. /\ Bus!Serve("listener") /\ StartCamera(c)
        /\ UNCHANGED <<awaited, ingestion, loaded>>
    BY <1>3 DEF ListenerStarts
  <2>2. Fed' /\ "listener" \in subscribed
    BY <1>1, <2>1, FedConsumer DEF Bus!Serve
  <2>3. ingestion' \notin {"down", "loading"}
    BY <2>1, <2>2 DEF Registry
  <2>4. /\ table' \in [Cameras -> Tasks \cup {None}]
        /\ task' \in [Tasks -> Reader]
        /\ \A t \in Tasks :
             /\ Live(t)' => task'[t].camera \in Cameras
             /\ task'[t].pc \in {"opening", "reading"} => table'[task'[t].camera] = t
    BY <2>1, StartKeeps
  <2> QED BY <2>1, <2>2, <2>3, <2>4 DEF ReaderTypes, Registry, Live
<1>4. ASSUME NEW c \in Cameras, ListenerStops(c)
      PROVE  RegInv'
  <2>1. /\ Bus!Take("listener") \/ Bus!Serve("listener")
        /\ StopCamera(c, "listener")
        /\ UNCHANGED <<ingestion, loaded>>
    BY <1>4 DEF ListenerStops
  <2>2. Fed' /\ "listener" \in subscribed
    BY <1>1, <2>1, FedConsumer DEF Bus!Serve, Bus!Take
  <2>3. ingestion' \notin {"down", "loading"}
    BY <2>1, <2>2 DEF Registry
  <2>4. /\ table' \in [Cameras -> Tasks \cup {None}]
        /\ task' \in [Tasks -> Reader]
        /\ awaited' \in [{"listener", "main"} -> Tasks \cup {None}]
        /\ \A t \in Tasks :
             /\ Live(t)' => task'[t].camera \in Cameras
             /\ task'[t].pc \in {"opening", "reading"} => table'[task'[t].camera] = t
    BY <2>1, StopKeeps
  <2> QED BY <2>1, <2>2, <2>3, <2>4 DEF ReaderTypes, Registry, Live
<1> QED BY <1>2, <1>3, <1>4 DEF ListenerStep

\* The service's start: every task named is new, and for one camera.
LEMMA StartLoadedKeeps ==
    ASSUME RegInv, StartLoaded
    PROVE  RegInv'
<1> USE DEF RegInv
<1>1. PICK of \in [loaded -> Unused] :
        /\ \A c, d \in loaded : of[c] = of[d] => c = d
        /\ table' = [c \in Cameras |-> IF c \in loaded THEN of[c] ELSE table[c]]
        /\ task' = [t \in Tasks |-> IF \E c \in loaded : of[c] = t
                                    THEN Created(CHOOSE c \in loaded : of[c] = t)
                                    ELSE task[t]]
  BY DEF StartLoaded
<1>2. /\ ingestion = "loading" /\ ingestion' = "up" /\ loaded' = {}
      /\ awaited' = awaited /\ Bus!Start("listener")
  BY DEF StartLoaded
<1>3. Fed'
  BY <1>2, ConsumerNames, FedConsumer
<1>4. Unused \subseteq Tasks /\ loaded \subseteq Cameras
  BY DEF Unused, ReaderTypes
<1>5. table' \in [Cameras -> Tasks \cup {None}]
  BY <1>1, <1>4 DEF ReaderTypes
<1>6. ASSUME NEW t \in Tasks
      PROVE  /\ task'[t] \in Reader
             /\ Live(t)' => task'[t].camera \in Cameras
             /\ task'[t].pc \in {"opening", "reading"} => table'[task'[t].camera] = t
  <2>1. CASE \E c \in loaded : of[c] = t
    <3>1. PICK c \in loaded : of[c] = t
      BY <2>1
    <3>2. (CHOOSE d \in loaded : of[d] = t) = c
      BY <1>1, <3>1
    <3>3. task'[t] = Created(c) /\ table'[c] = t
      BY <1>1, <1>4, <3>1, <3>2
    <3> QED BY <1>4, <3>3, CreatedReader
  <2>2. CASE ~(\E c \in loaded : of[c] = t)
    <3>1. task'[t] = task[t] /\ ~Live(t)
      BY <1>1, <1>2, <2>2 DEF Registry
    <3> QED BY <3>1 DEF Live, ReaderTypes
  <2> QED BY <2>1, <2>2
<1>7. task' \in [Tasks -> Reader]
  BY <1>1, <1>6
<1> QED BY <1>2, <1>3, <1>5, <1>6, <1>7 DEF ReaderTypes, Registry, Live

\* The service's other steps.
LEMMA ServiceKeeps ==
    ASSUME RegInv, Load \/ Shutdown \/ StopStep
    PROVE  RegInv'
<1> USE DEF RegInv
<1>1. CASE Load
  <2>1. /\ UNCHANGED <<table, task, awaited, bus>> /\ loaded' \subseteq Cameras
        /\ ingestion = "down" /\ ingestion' = "loading"
    BY <1>1 DEF Load, LoadActiveCameras
  <2>2. Fed' /\ subscribed' = subscribed
    BY <2>1, FedSame DEF bus
  <2> QED BY <2>1, <2>2 DEF ReaderTypes, Registry, Live
<1>2. CASE Shutdown
  <2>1. Fed'
    BY <1>2, ConsumerNames, FedConsumer, FedSame DEF Shutdown
  <2>2. ingestion' = "stopping" /\ UNCHANGED <<table, task, awaited, loaded>>
    BY <1>2 DEF Shutdown
  <2> QED BY <2>1, <2>2 DEF ReaderTypes, Registry, Live
<1>3. CASE StopResumes
  <2>1. UNCHANGED <<table, task, ingestion, loaded, bus>>
        /\ awaited' = [awaited EXCEPT !["main"] = None]
    BY <1>3 DEF StopResumes
  <2>2. Fed' /\ subscribed' = subscribed
    BY <2>1, FedSame DEF bus
  <2> QED BY <2>1, <2>2 DEF ReaderTypes, Registry, Live
<1>4. CASE StopEnds
  <2>1. UNCHANGED <<table, task, awaited, loaded, bus>> /\ ingestion' = "stopped"
    BY <1>4 DEF StopEnds
  <2>2. Fed'
    BY <2>1, FedSame
  <2> QED BY <2>1, <2>2 DEF ReaderTypes, Registry, Live
<1>5. ASSUME NEW c \in Cameras, StopNext(c)
      PROVE  RegInv'
  <2>1. /\ ingestion = "stopping" /\ StopCamera(c, "main")
        /\ UNCHANGED <<ingestion, loaded, bus>>
    BY <1>5 DEF StopNext
  <2>2. Fed'
    BY <2>1, FedSame
  <2>3. /\ table' \in [Cameras -> Tasks \cup {None}]
        /\ task' \in [Tasks -> Reader]
        /\ awaited' \in [{"listener", "main"} -> Tasks \cup {None}]
        /\ \A t \in Tasks :
             /\ Live(t)' => task'[t].camera \in Cameras
             /\ task'[t].pc \in {"opening", "reading"} => table'[task'[t].camera] = t
    BY <2>1, StopKeeps
  <2> QED BY <2>1, <2>2, <2>3 DEF ReaderTypes, Registry, Live
<1> QED BY <1>1, <1>2, <1>3, <1>4, <1>5 DEF StopStep

LEMMA IngestionKeeps ==
    ASSUME RegInv, Ingestion
    PROVE  RegInv' /\ UNCHANGED <<dashboards, control, counts>>
<1>1. UNCHANGED <<dashboards, control, counts>>
  BY DEF Ingestion
<1>2. CASE Load \/ Shutdown \/ StopStep
  BY <1>1, <1>2, ServiceKeeps
<1>3. CASE StartLoaded
  BY <1>1, <1>3, StartLoadedKeeps
<1>4. CASE ListenerStep
  BY <1>1, <1>4, ListenerKeeps
<1>5. CASE \E t \in Tasks : ReaderStep(t)
  <2>1. PICK t \in Tasks : ReaderStep(t)
    BY <1>5
  <2> QED BY <1>1, <2>1, RegistryReader
<1> QED BY <1>2, <1>3, <1>4, <1>5 DEF Ingestion

\* What anyone but the ingestion service does leaves readers and table alone.
LEMMA OthersKeep ==
    ASSUME RegInv, Fed', UNCHANGED readers,
           "listener" \in subscribed' => "listener" \in subscribed
    PROVE  RegInv'
BY DEF RegInv, readers, ReaderTypes, Registry, Live

\* A consumer other than the listener moves.
LEMMA ConsumerKeeps ==
    ASSUME RegInv, UNCHANGED readers, NEW d \in {"monitor", "reporter"},
           \/ Bus!Take(d) \/ Bus!Serve(d) \/ Bus!Return(d)
           \/ UNCHANGED bus
    PROVE  RegInv' /\ \A c \in Consumers \ {d} : BusRests(c)
<1>1. CASE UNCHANGED bus
  <2>1. Fed' /\ subscribed' = subscribed
    BY <1>1, FedSame DEF RegInv, bus
  <2> QED BY <1>1, <2>1, OthersKeep DEF BusRests, bus
<1>2. CASE Bus!Take(d) \/ Bus!Serve(d) \/ Bus!Return(d)
  <2>1. Fed' /\ \A c \in Consumers \ {d} : BusRests(c)
    BY <1>2, ConsumerNames, FedConsumer DEF RegInv
  <2>2. subscribed' = subscribed
    BY <1>2 DEF Bus!Take, Bus!Serve, Bus!Return
  <2> QED BY <2>1, <2>2, OthersKeep
<1> QED BY <1>1, <1>2

LEMMA PublishKeeps ==
    ASSUME RegInv, UNCHANGED readers, NEW ch, NEW m, Bus!Publish(ch, m),
           \A c \in Consumers : ChannelOf[c] = ch => m \in Feed[c]
    PROVE  RegInv' /\ UNCHANGED <<handling, subscribed>>
<1>1. Fed'
  BY PublishFed DEF RegInv
<1>2. UNCHANGED <<handling, subscribed>>
  BY DEF Bus!Publish
<1> QED BY <1>1, <1>2, OthersKeep

\* What each of the monitor's steps does to the bus.
LEMMA MonitorBus ==
    ASSUME MonitorStep
    PROVE  /\ UNCHANGED readers
           /\ \/ Bus!Take("monitor") \/ Bus!Serve("monitor") \/ Bus!Return("monitor")
              \/ UNCHANGED bus
<1>1. CASE MonitorIgnores \/ MonitorTakes
  BY <1>1 DEF MonitorIgnores, MonitorTakes
<1>2. CASE MonitorWrites \/ MonitorPushed \/ MonitorSees
  BY <1>2 DEF MonitorWrites, MonitorPushed, MonitorSees, AfterPush
<1>3. CASE \E k \in Clients : MonitorShows(k) \/ MonitorMisses(k)
  BY <1>3 DEF MonitorShows, MonitorMisses
<1> QED BY <1>1, <1>2, <1>3 DEF MonitorStep

LEMMA ReporterBus ==
    ASSUME ReporterStep
    PROVE  /\ UNCHANGED readers
           /\ \/ Bus!Take("reporter") \/ Bus!Serve("reporter") \/ Bus!Return("reporter")
              \/ UNCHANGED bus
BY DEF ReporterStep, ReporterTakes, ReporterPushed, ReporterSends

LEMMA RequestBus ==
    ASSUME RegInv, NEW r \in Requests, RequestStep(r)
    PROVE  RegInv' /\ UNCHANGED <<handling, subscribed>>
<1>1. CASE UNCHANGED bus /\ UNCHANGED readers
  <2>1. Fed' /\ UNCHANGED <<handling, subscribed>>
    BY <1>1, FedSame DEF RegInv, bus
  <2> QED BY <1>1, <2>1, OthersKeep
<1>2. ASSUME NEW c \in Cameras, StartStream(r, c) \/ StopStream(r, c)
      PROVE  RegInv' /\ UNCHANGED <<handling, subscribed>>
  <2>1. PICK m : Bus!Publish("ingestion.commands", m)
    BY <1>2 DEF StartStream, StopStream
  <2>2. UNCHANGED readers
    BY <1>2 DEF StartStream, StopStream
  <2>3. \A d \in Consumers : ChannelOf[d] # "ingestion.commands"
    BY ConsumerNames DEF ChannelOf
  <2> QED BY <2>1, <2>2, <2>3, PublishKeeps
<1>3. CASE Commit(r) \/ Rollback(r)
  BY <1>1, <1>3 DEF Commit, Rollback
<1>4. ASSUME NEW c \in Cameras, Register(r, c) \/ Deregister(r, c)
      PROVE  RegInv' /\ UNCHANGED <<handling, subscribed>>
  BY <1>1, <1>4 DEF Register, Deregister
<1> QED BY <1>2, <1>3, <1>4 DEF RequestStep

LEMMA OutsideBus ==
    ASSUME RegInv,
           \/ \E kind \in {"START", "STOP"}, c \in Cameras : Command(kind, c)
           \/ \E level \in Levels : CheckDisk(level)
    PROVE  RegInv' /\ UNCHANGED <<handling, subscribed, dashboards, control, faults>>
<1>1. ASSUME NEW kind \in {"START", "STOP"}, NEW c \in Cameras, Command(kind, c)
      PROVE  RegInv' /\ UNCHANGED <<handling, subscribed, dashboards, control, faults>>
  <2>1. \A d \in Consumers : ChannelOf[d] = "camera_control" => <<kind, c>> \in Feed[d]
    BY ConsumerNames DEF ChannelOf, Feed
  <2> QED BY <1>1, <2>1, PublishKeeps DEF Command
<1>2. ASSUME NEW level \in Levels, CheckDisk(level)
      PROVE  RegInv' /\ UNCHANGED <<handling, subscribed, dashboards, control, faults>>
  <2>1. \A d \in Consumers : ChannelOf[d] = "system_health" => level \in Feed[d]
    BY ConsumerNames DEF ChannelOf, Feed
  <2> QED BY <1>2, <2>1, PublishKeeps DEF CheckDisk
<1> QED BY <1>1, <1>2

LEMMA MonitorStartBus ==
    ASSUME RegInv, HealthMonitorStarts
    PROVE  RegInv' /\ UNCHANGED <<handling, dashboards, control, counts>>
<1>1. /\ subscribed' = subscribed \cup {"monitor", "reporter"}
      /\ UNCHANGED <<queue, handling, readers, dashboards, control, counts>>
  BY DEF HealthMonitorStarts
<1>2. Fed'
  BY <1>1, ConsumerNames DEF RegInv, Fed, FedOne
<1> QED BY <1>1, <1>2, OthersKeep

LEMMA CrashResets ==
    ASSUME RegInv, Crash
    PROVE  RegInv' /\ handling'["monitor"] = <<>>
<1>1. /\ table' = [c \in Cameras |-> None]
      /\ task' = [t \in Tasks |-> Finished]
      /\ awaited' = [w \in DOMAIN awaited |-> None]
      /\ ingestion' = "down" /\ loaded' = {} /\ subscribed' = {}
      /\ queue' = [c \in Consumers |-> <<>>] /\ handling' = [c \in Consumers |-> <<>>]
  BY DEF Crash
<1>2. Fed'
  BY <1>1, EmptyFed DEF Fed, FedOne
<1>3. ReaderTypes'
  <2>1. DOMAIN awaited = {"listener", "main"}
    BY DEF RegInv, ReaderTypes
  <2> QED BY <1>1, <2>1, FinishedReader DEF ReaderTypes
<1>4. Registry'
  BY <1>1 DEF Registry, Live, Finished
<1> QED BY <1>1, <1>2, <1>3, <1>4, ConsumerNames DEF RegInv

LEMMA RegInit == Init => RegInv
<1> SUFFICES ASSUME Init PROVE RegInv
  OBVIOUS
<1>1. Fed
  BY EmptyFed DEF Init, Bus!BusInit, Fed, FedOne
<1>2. ReaderTypes
  BY FinishedReader DEF Init, ReadersInit, ReaderTypes
<1>3. Registry
  BY DEF Init, ReadersInit, Registry, Live, Finished, Bus!BusInit
<1> QED BY <1>1, <1>2, <1>3 DEF RegInv

LEMMA RegStep == RegInv /\ [Next]_vars => RegInv'
<1> SUFFICES ASSUME RegInv, [Next]_vars PROVE RegInv'
  OBVIOUS
<1>1. CASE Ingestion
  BY <1>1, IngestionKeeps
<1>2. CASE MonitorStep
  BY <1>2, MonitorBus, ConsumerKeeps
<1>3. CASE ReporterStep
  BY <1>3, ReporterBus, ConsumerKeeps
<1>4. CASE Crash
  BY <1>4, CrashResets
<1>5. CASE \E r \in Requests : RequestStep(r)
  BY <1>5, RequestBus
<1>6. CASE \E k \in Clients : Client(k)
  BY <1>6, ConsumerKeeps DEF Client
<1>7. CASE \/ \E kind \in {"START", "STOP"}, c \in Cameras : Command(kind, c)
           \/ \E level \in Levels : CheckDisk(level)
  BY <1>7, OutsideBus
<1>8. CASE HealthMonitorStarts
  BY <1>8, MonitorStartBus
<1>9. CASE UNCHANGED vars
  BY <1>9, ConsumerKeeps DEF vars
<1> QED BY <1>1, <1>2, <1>3, <1>4, <1>5, <1>6, <1>7, <1>8, <1>9 DEF Next

\* A reader that runs is in the registry's table under its camera: whatever
\* starts, stops, give-ups, shutdowns and ends of the process do, stop_camera and
\* stop_all can reach it, and no camera has two.
THEOREM ReadersReachableAlways == Spec => []ReadersReachable
<1>1. RegInv => ReadersReachable
  BY DEF RegInv, Registry, ReadersReachable
<1> QED BY RegInit, RegStep, <1>1, PTL DEF Spec

-----------------------------------------------------------------------------
(* The rows, the monitor's memory and what the dashboards were shown.      *)

Row == Statuses \cup {"UNREGISTERED", "DELETED"}
Request == [op : {"none", "register", "update", "delete"}, camera : Cameras \cup {None},
            to : Statuses \cup {"DELETED", None}]
Seen == [Cameras -> Statuses \cup {None}]

RequestTypes ==
    /\ req \in [Requests -> Request]
    /\ \A r \in Requests : req[r] # NoRequest =>
         req[r].camera \in Cameras /\ req[r].to \in Statuses \cup {"DELETED"}

RowTypes ==
    /\ row \in [Cameras -> Row]
    /\ written \in Seen /\ last \in Seen
    /\ view \in [Clients -> Seen]
    /\ monitor \in {"idle", "write", "push", "seen"}
    /\ reporter \in {"idle", "push"}

CountTypes == events \in 0..MaxEvents /\ faults \in 0..MaxFaults

\* The monitor is at work exactly when its consumer has a message in hand.
AtWork == monitor = "idle" <=> handling["monitor"] = <<>>

TypeInv == RegInv /\ DashboardsTypeOK /\ RequestTypes /\ RowTypes /\ CountTypes /\ AtWork

LEMMA TypesImply == TypeInv => TypeOK
<1> SUFFICES ASSUME TypeInv PROVE TypeOK
  OBVIOUS
<1>1. Bus!BusTypeOK
  BY FedTypes DEF TypeInv, RegInv
<1>2. ReadersTypeOK
  BY <1>1 DEF TypeInv, RegInv, ReaderTypes, Reader, ReadersTypeOK
<1> QED BY <1>2 DEF TypeInv, RequestTypes, Request, RowTypes, Row, Seen, CountTypes, TypeOK

LEMMA ReportTypes ==
    ASSUME Fed, handling["monitor"] # <<>>
    PROVE  Report[1] \in Cameras /\ Report[2] \in Statuses
<1>1. handling["monitor"] \in {<<m>> : m \in Cameras \X Statuses}
  BY ConsumerNames DEF Fed, FedOne, Feed
<1>2. PICK m \in Cameras \X Statuses : handling["monitor"] = <<m>>
  BY <1>1
<1> QED BY <1>2 DEF Report

\* The report the monitor takes.
LEMMA TakenReport ==
    ASSUME Fed, Bus!Take("monitor") \/ Bus!Serve("monitor")
    PROVE  /\ Head(queue["monitor"])[1] \in Cameras
           /\ Head(queue["monitor"])[2] \in Statuses
           /\ Bus!Take("monitor") => handling'["monitor"] = <<Head(queue["monitor"])>>
           /\ Bus!Serve("monitor") => handling'["monitor"] = handling["monitor"]
<1>1. queue["monitor"] \in Seq(Cameras \X Statuses) /\ queue["monitor"] # <<>>
      /\ Len(queue["monitor"]) <= MaxQueue
  BY ConsumerNames DEF Fed, FedOne, Feed, Bus!Take, Bus!Serve
<1>2. Head(queue["monitor"]) \in Cameras \X Statuses
  BY <1>1, TailFed
<1> QED BY <1>2, ConsumerNames DEF Fed, Bus!Take, Bus!Serve

LEMMA EventTypes ==
    ASSUME CountTypes, (Event /\ UNCHANGED faults) \/ Fault \/ UNCHANGED counts
    PROVE  CountTypes'
BY ControlAssumption DEF CountTypes, Event, Fault, counts

LEMMA UpdateTypes ==
    ASSUME RowTypes, CountTypes, NEW c \in Cameras, NEW s \in Statuses, UpdateStatus(c, s)
    PROVE  row' \in [Cameras -> Row] /\ written' \in Seen /\ CountTypes'
<1>1. None \in Statuses \cup {None} /\ s \in Row
  BY DEF Row
<1>2. CASE Fault
  BY <1>2, EventTypes, <1>1 DEF UpdateStatus, RowTypes, Seen
<1>3. CASE UNCHANGED counts
  BY <1>3, EventTypes, <1>1 DEF UpdateStatus, RowTypes, Seen
<1> QED BY <1>2, <1>3 DEF UpdateStatus

\* The pool and the broadcasts.
LEMMA DashboardTypes ==
    ASSUME DashboardsTypeOK, NEW p \in Pushers,
           \/ Begin(p) \/ Finish(p)
           \/ \E k \in Clients : \/ SendReturns(p, k) \/ SendFails(p, k)
                                 \/ Connect(k) \/ Lose(k) \/ Disconnected(k)
                                 \/ HandlerEnds(k)
           \/ UNCHANGED dashboards
    PROVE  DashboardsTypeOK'
<1> USE DEF DashboardsTypeOK
<1>1. CASE Begin(p)
  BY <1>1 DEF Begin
<1>2. CASE Finish(p)
  BY <1>2 DEF Finish, NoPush
<1>3. ASSUME NEW k \in Clients, SendReturns(p, k)
      PROVE  DashboardsTypeOK'
  BY <1>3 DEF SendReturns
<1>4. ASSUME NEW k \in Clients, SendFails(p, k)
      PROVE  DashboardsTypeOK'
  BY <1>4 DEF SendFails
<1>5. ASSUME NEW k \in Clients,
             Connect(k) \/ Lose(k) \/ Disconnected(k) \/ HandlerEnds(k)
      PROVE  DashboardsTypeOK'
  BY <1>5 DEF Connect, Free, Lose, Disconnected, HandlerEnds
<1>6. CASE UNCHANGED dashboards
  BY <1>6 DEF dashboards
<1> QED BY <1>1, <1>2, <1>3, <1>4, <1>5, <1>6

\* What the steps below keep, besides RegInv.
ControlTypes == DashboardsTypeOK /\ RequestTypes /\ RowTypes /\ CountTypes /\ AtWork

LEMMA MonitorTypes ==
    ASSUME TypeInv, MonitorStep
    PROVE  ControlTypes'
<1> USE DEF TypeInv, RegInv
<1>1. {"monitor", "reporter"} \subseteq Pushers
  BY ControlAssumption
<1>2. UNCHANGED req => RequestTypes'
  BY DEF RequestTypes
<1>3. UNCHANGED counts => CountTypes'
  BY EventTypes
<1>4. UNCHANGED dashboards => DashboardsTypeOK'
  BY <1>1, DashboardTypes
<1>5. CASE MonitorIgnores
  <2>1. handling' = handling /\ UNCHANGED <<dashboards, control, counts>>
    BY <1>5 DEF MonitorIgnores, Bus!Serve
  <2> QED BY <1>2, <1>3, <1>4, <2>1 DEF ControlTypes, RowTypes, AtWork, control
<1>6. CASE MonitorTakes
  <2>1. Bus!Take("monitor")
        /\ UNCHANGED <<dashboards, row, req, reporter, view, written, counts>>
    BY <1>6 DEF MonitorTakes
  <2>2. monitor' \in {"write", "seen"}
    BY <1>6 DEF MonitorTakes
  <2>3. last' \in Seen
    BY <1>6, <2>1, TakenReport DEF MonitorTakes, RowTypes, Seen
  <2>4. handling'["monitor"] # <<>>
    BY <2>1, TakenReport
  <2> QED BY <1>2, <1>3, <1>4, <2>1, <2>2, <2>3, <2>4 DEF ControlTypes, RowTypes, AtWork
<1>7. ASSUME AfterPush, handling["monitor"] # <<>>
      PROVE  AtWork' /\ monitor' \in {"idle", "seen"}
  <2>1. CASE Report[2] = "ACTIVE"
    BY <1>7, <2>1 DEF AfterPush, AtWork, bus
  <2>2. CASE Report[2] # "ACTIVE"
    BY <1>7, <2>2, ConsumerNames DEF AfterPush, AtWork, Bus!Return, Fed
  <2> QED BY <2>1, <2>2
<1>8. CASE MonitorWrites
  <2>1. /\ handling["monitor"] # <<>> /\ Report[1] \in Cameras /\ Report[2] \in Statuses
    BY <1>8, ReportTypes DEF MonitorWrites, AtWork
  <2>2. row' \in [Cameras -> Row] /\ written' \in Seen /\ CountTypes'
    BY <1>8, <2>1, UpdateTypes DEF MonitorWrites
  <2>3. UNCHANGED <<req, last, reporter, view>>
    BY <1>8 DEF MonitorWrites
  <2>4. CASE pool = {}
    BY <1>2, <1>4, <1>7, <1>8, <2>1, <2>2, <2>3, <2>4
       DEF MonitorWrites, ControlTypes, RowTypes
  <2>5. CASE pool # {}
    <3>1. monitor' = "push" /\ Begin("monitor") /\ UNCHANGED bus
      BY <1>8, <2>5 DEF MonitorWrites
    <3>2. DashboardsTypeOK'
      BY <1>1, <3>1, DashboardTypes
    <3>3. AtWork'
      BY <2>1, <3>1 DEF AtWork, bus
    <3> QED BY <1>2, <2>2, <2>3, <3>1, <3>2, <3>3 DEF ControlTypes, RowTypes
  <2> QED BY <2>4, <2>5
<1>9. CASE MonitorPushed
  <2>1. handling["monitor"] # <<>>
    BY <1>9 DEF MonitorPushed, AtWork
  <2>2. DashboardsTypeOK'
    BY <1>1, <1>9, DashboardTypes DEF MonitorPushed
  <2>3. AtWork' /\ monitor' \in {"idle", "seen"}
    BY <1>7, <1>9, <2>1 DEF MonitorPushed
  <2> QED BY <1>2, <1>3, <1>9, <2>2, <2>3 DEF MonitorPushed, ControlTypes, RowTypes
<1>10. CASE MonitorSees
  <2>1. Report[1] \in Cameras /\ "ACTIVE" \in Statuses
    BY <1>10, ReportTypes DEF MonitorSees, AtWork, Statuses
  <2>2. row' \in [Cameras -> Row] /\ written' \in Seen /\ CountTypes'
    BY <1>10, <2>1, UpdateTypes DEF MonitorSees
  <2>3. AtWork'
    BY <1>10, ConsumerNames DEF MonitorSees, AtWork, Bus!Return, Fed
  <2> QED BY <1>2, <1>4, <1>10, <2>2, <2>3 DEF MonitorSees, ControlTypes, RowTypes
<1>11. ASSUME NEW k \in Clients, MonitorShows(k)
       PROVE  ControlTypes'
  <2>1. Report[1] \in Cameras /\ Report[2] \in Statuses
    BY <1>11, ReportTypes DEF MonitorShows, AtWork
  <2>2. view' \in [Clients -> Seen]
    BY <1>11, <2>1 DEF MonitorShows, RowTypes, Seen
  <2>3. DashboardsTypeOK'
    BY <1>1, <1>11, DashboardTypes DEF MonitorShows
  <2> QED BY <1>2, <1>3, <1>11, <2>2, <2>3 DEF MonitorShows, ControlTypes, RowTypes, AtWork, bus
<1>12. ASSUME NEW k \in Clients, MonitorMisses(k)
       PROVE  ControlTypes'
  <2>1. DashboardsTypeOK'
    BY <1>1, <1>12, DashboardTypes DEF MonitorMisses
  <2> QED BY <1>2, <1>3, <1>12, <2>1
          DEF MonitorMisses, ControlTypes, RowTypes, AtWork, bus, control
<1> QED BY <1>5, <1>6, <1>8, <1>9, <1>10, <1>11, <1>12 DEF MonitorStep

LEMMA ReporterTypes ==
    ASSUME TypeInv, ReporterStep
    PROVE  ControlTypes' /\ UNCHANGED <<row, req, last, monitor, view, written, counts>>
           /\ handling'["monitor"] = handling["monitor"]
<1> USE DEF TypeInv
<1>1. {"monitor", "reporter"} \subseteq Pushers
  BY ControlAssumption
<1>2. UNCHANGED <<row, req, last, monitor, view, written, counts>>
  BY DEF ReporterStep, ReporterTakes, ReporterPushed, ReporterSends, control
<1>3. handling'["monitor"] = handling["monitor"]
  BY ReporterBus, ConsumerKeeps, ConsumerNames DEF BusRests
<1>4. reporter' \in {"idle", "push"}
  BY DEF ReporterStep, ReporterTakes, ReporterPushed, ReporterSends, RowTypes, control
<1>5. DashboardsTypeOK'
  <2>1. \/ Begin("reporter") \/ Finish("reporter")
        \/ \E k \in Clients : SendReturns("reporter", k) \/ SendFails("reporter", k)
        \/ UNCHANGED dashboards
    BY DEF ReporterStep, ReporterTakes, ReporterPushed, ReporterSends
  <2> QED BY <1>1, <2>1, DashboardTypes
<1> QED BY <1>2, <1>3, <1>4, <1>5, EventTypes DEF ControlTypes, RequestTypes, RowTypes, AtWork

LEMMA RequestTypesKept ==
    ASSUME TypeInv, NEW r \in Requests, RequestStep(r)
    PROVE  ControlTypes' /\ UNCHANGED <<dashboards, last, monitor, reporter, view>>
           /\ handling' = handling
<1> USE DEF TypeInv
<1>1. handling' = handling
  BY RequestBus
<1>2. UNCHANGED <<dashboards, last, monitor, reporter, view>>
  BY DEF RequestStep, Commit, Rollback, Register, StartStream, StopStream, Deregister
<1>3. DashboardsTypeOK' /\ AtWork'
  BY <1>1, <1>2, DashboardTypes, ControlAssumption DEF AtWork
<1>4. NoRequest \in Request
  BY DEF NoRequest, Request
<1>5. CASE Commit(r)
  <2>1. RequestTypes'
    BY <1>4, <1>5 DEF Commit, RequestTypes
  <2>2. req[r].camera \in Cameras /\ req[r].to \in Row
    BY <1>5 DEF Commit, RequestTypes, Row
  <2>3. row' \in [Cameras -> Row] /\ written' \in Seen
    BY <1>5, <2>2 DEF Commit, RowTypes, Seen
  <2>4. CountTypes'
    BY <1>5, EventTypes DEF Commit
  <2> QED BY <1>1, <1>2, <1>3, <2>1, <2>3, <2>4 DEF ControlTypes, RowTypes
<1>6. CASE Rollback(r)
  <2>1. RequestTypes'
    BY <1>4, <1>6 DEF Rollback, RequestTypes
  <2>2. CountTypes'
    BY <1>6, EventTypes DEF Rollback
  <2> QED BY <1>1, <1>2, <1>3, <1>6, <2>1, <2>2 DEF Rollback, ControlTypes, RowTypes
<1>7. ASSUME NEW op \in {"register", "update", "delete"}, NEW c \in Cameras,
             NEW to \in Statuses \cup {"DELETED"}, Admit(r, op, c, to)
      PROVE  RequestTypes' /\ Event
  <2>1. [op |-> op, camera |-> c, to |-> to] \in Request
    BY <1>7 DEF Request
  <2> QED BY <1>7, <2>1 DEF Admit, RequestTypes
<1>8. ASSUME NEW c \in Cameras,
             Register(r, c) \/ StartStream(r, c) \/ StopStream(r, c) \/ Deregister(r, c)
      PROVE  ControlTypes'
  <2>1. RequestTypes' /\ Event
    BY <1>7, <1>8 DEF Register, StartStream, StopStream, Deregister, Statuses, RequestTypes
  <2>2. UNCHANGED <<row, written, faults>>
    BY <1>8 DEF Register, StartStream, StopStream, Deregister
  <2> QED BY <1>1, <1>2, <1>3, <2>1, <2>2, EventTypes DEF ControlTypes, RowTypes
<1> QED BY <1>1, <1>2, <1>5, <1>6, <1>8 DEF RequestStep

LEMMA UnseenTypes == Unseen \in Seen
BY DEF Unseen, Seen

LEMMA ClientTypes ==
    ASSUME TypeInv, NEW k \in Clients, Client(k)
    PROVE  ControlTypes' /\ UNCHANGED <<row, req, last, monitor, written, handling>>
<1> USE DEF TypeInv
<1>1. UNCHANGED <<row, req, last, monitor, reporter, written, handling>>
  BY DEF Client, bus
<1>2. DashboardsTypeOK'
  <2>1. "monitor" \in Pushers
    BY ControlAssumption
  <2>2. \/ Connect(k) \/ Lose(k) \/ Disconnected(k) \/ HandlerEnds(k)
    BY DEF Client, ClientStep
  <2> QED BY <2>1, <2>2, DashboardTypes
<1>3. view' \in [Clients -> Seen]
  BY UnseenTypes DEF Client, ClientStep, RowTypes
<1>4. CountTypes'
  BY EventTypes DEF Client, ClientStep
<1> QED BY <1>1, <1>2, <1>3, <1>4 DEF ControlTypes, RequestTypes, RowTypes, AtWork

LEMMA ControlInit == Init => ControlTypes
<1> SUFFICES ASSUME Init PROVE ControlTypes
  OBVIOUS
<1>1. DashboardsTypeOK
  BY DEF Init, DashboardsInit, DashboardsTypeOK, NoPush
<1>2. RequestTypes
  BY DEF Init, RequestTypes, Request, NoRequest
<1>3. RowTypes
  BY UnseenTypes DEF Init, RowTypes, Row, Statuses
<1>4. CountTypes /\ AtWork
  BY ControlAssumption, ConsumerNames DEF Init, Bus!BusInit, CountTypes, AtWork
<1> QED BY <1>1, <1>2, <1>3, <1>4 DEF ControlTypes

LEMMA CrashTypes ==
    ASSUME TypeInv, Crash
    PROVE  ControlTypes'
<1> USE DEF TypeInv
<1>1. /\ conn' = [k \in Clients |-> "off"] /\ pool' = {} /\ push' = [p \in Pushers |-> NoPush]
      /\ req' = [r \in Requests |-> NoRequest]
      /\ last' = Unseen /\ written' = Unseen /\ view' = [k \in Clients |-> Unseen]
      /\ monitor' = "idle" /\ reporter' = "idle"
      /\ Event /\ UNCHANGED <<row, faults>>
  BY DEF Crash
<1>2. DashboardsTypeOK'
  BY <1>1 DEF DashboardsTypeOK, NoPush
<1>3. RequestTypes'
  BY <1>1 DEF RequestTypes, Request, NoRequest
<1>4. RowTypes'
  BY <1>1, UnseenTypes DEF RowTypes
<1>5. CountTypes' /\ AtWork'
  BY <1>1, EventTypes, CrashResets DEF AtWork
<1> QED BY <1>2, <1>3, <1>4, <1>5 DEF ControlTypes

LEMMA OutsideTypes ==
    ASSUME TypeInv,
           \/ \E kind \in {"START", "STOP"}, c \in Cameras : Command(kind, c)
           \/ \E level \in Levels : CheckDisk(level)
           \/ HealthMonitorStarts
    PROVE  ControlTypes' /\ UNCHANGED <<dashboards, control, handling>>
<1> USE DEF TypeInv
<1>1. UNCHANGED <<dashboards, control, handling>> /\ CountTypes'
  <2>1. CASE HealthMonitorStarts
    BY <2>1, MonitorStartBus, EventTypes
  <2>2. CASE ~HealthMonitorStarts
    BY <2>2, OutsideBus, EventTypes DEF Command, CheckDisk
  <2> QED BY <2>1, <2>2
<1>2. DashboardsTypeOK'
  BY <1>1, DashboardTypes, ControlAssumption
<1> QED BY <1>1, <1>2 DEF ControlTypes, RequestTypes, RowTypes, AtWork, control

\* The ingestion service leaves the monitor's consumer alone.
LEMMA IngestionTypes ==
    ASSUME TypeInv, Ingestion \/ UNCHANGED vars
    PROVE  ControlTypes' /\ UNCHANGED <<dashboards, control>>
           /\ handling'["monitor"] = handling["monitor"]
<1> USE DEF TypeInv
<1>1. UNCHANGED <<dashboards, control, counts>>
  BY DEF Ingestion, vars
<1>2. handling'["monitor"] = handling["monitor"]
  <2>1. "monitor" \in Consumers \ {"listener"} /\ "listener" \in Consumers
    BY ConsumerNames
  <2>2. ASSUME Bus!Start("listener") \/ Bus!Take("listener") \/ Bus!Serve("listener")
               \/ Bus!Return("listener") \/ Bus!Cancel("listener")
        PROVE  handling'["monitor"] = handling["monitor"]
    BY <2>1, <2>2, FedConsumer DEF BusRests, RegInv
  <2>3. CASE UNCHANGED handling
    BY <2>3
  <2>4. CASE ListenerStep
    BY <2>2, <2>4 DEF ListenerStep, ListenerResumes, ListenerStarts, ListenerStops
  <2>5. CASE Load \/ StartLoaded \/ Shutdown
    BY <2>2, <2>3, <2>5 DEF Load, LoadActiveCameras, StartLoaded, Shutdown, bus
  <2>6. CASE StopStep
    BY <2>3, <2>6 DEF StopStep, StopResumes, StopEnds, StopNext, bus
  <2>7. CASE \E t \in Tasks : ReaderStep(t)
    BY <2>3, <2>7 DEF ReaderStep, Attempt, OpenFails, OpensEmpty, OpenSucceeds, ReadFails,
                      Reconnect, ReaderCancelled, Bus!PublishAll, Bus!Publish, bus
  <2>8. CASE UNCHANGED vars
    BY <2>3, <2>8 DEF vars, bus
  <2> QED BY <2>4, <2>5, <2>6, <2>7, <2>8 DEF Ingestion
<1>3. DashboardsTypeOK'
  BY <1>1, DashboardTypes, ControlAssumption
<1> QED BY <1>1, <1>2, <1>3, EventTypes
        DEF ControlTypes, RequestTypes, RowTypes, AtWork, control

LEMMA TypeStep == TypeInv /\ [Next]_vars => TypeInv'
<1> SUFFICES ASSUME TypeInv, [Next]_vars PROVE ControlTypes'
  BY RegStep DEF TypeInv, ControlTypes
<1>1. CASE Ingestion \/ UNCHANGED vars
  BY <1>1, IngestionTypes
<1>2. CASE MonitorStep
  BY <1>2, MonitorTypes
<1>3. CASE ReporterStep
  BY <1>3, ReporterTypes
<1>4. CASE Crash
  BY <1>4, CrashTypes
<1>5. CASE \E r \in Requests : RequestStep(r)
  BY <1>5, RequestTypesKept
<1>6. CASE \E k \in Clients : Client(k)
  BY <1>6, ClientTypes
<1>7. CASE \/ \E kind \in {"START", "STOP"}, c \in Cameras : Command(kind, c)
           \/ \E level \in Levels : CheckDisk(level)
           \/ HealthMonitorStarts
  BY <1>7, OutsideTypes
<1> QED BY <1>1, <1>2, <1>3, <1>4, <1>5, <1>6, <1>7 DEF Next

LEMMA TypeInit == Init => TypeInv
BY RegInit, ControlInit DEF TypeInv, ControlTypes

\* Every variable of the cameras' path keeps to its type: no queue is over its
\* size, no consumer is handed a message of another channel, no count is passed.
THEOREM TypeCorrect == Spec => []TypeOK
BY TypeInit, TypeStep, TypesImply, PTL DEF Spec

-----------------------------------------------------------------------------
(* What the monitor heard, and where it has brought it.                    *)

\* The report in the monitor's hands is the last it heard of that camera; a row it
\* wrote, and nobody after it, has the last status heard unless that is just
\* being written.
Heard ==
    /\ monitor # "idle" => last[Report[1]] = Report[2]
    /\ monitor = "seen" => Report[2] = "ACTIVE"
    /\ \A c \in Cameras :
         written[c] # None /\ Registered(c) =>
             row[c] = last[c] \/ (monitor = "write" /\ Report[1] = c)

\* A dashboard that shows an older status has the newer one on its way.
OnItsWay(k, c) ==
    /\ Report[1] = c
    /\ monitor = "write" \/ (monitor = "push" /\ k \in push["monitor"].left)

Shown ==
    \A k \in Clients : conn[k] = "open" =>
        /\ k \in pool
        /\ \A p \in Pushers : k \notin push[p].dead
        /\ \A c \in Cameras : view[k][c] \in {None, last[c]} \/ OnItsWay(k, c)

HeardInv == TypeInv /\ Heard /\ Shown

LEMMA HeardInit == Init => HeardInv
<1> SUFFICES ASSUME Init PROVE HeardInv
  OBVIOUS
<1>1. Heard
  BY DEF Init, Heard, Unseen
<1>2. Shown
  BY DEF Init, DashboardsInit, Shown
<1> QED BY <1>1, <1>2, TypeInit DEF HeardInv

\* Steps that touch neither rows, memory nor dashboards.
LEMMA NothingHeard ==
    ASSUME HeardInv, UNCHANGED <<row, last, monitor, written>>,
           handling'["monitor"] = handling["monitor"]
    PROVE  Heard' /\ Report' = Report
BY DEF HeardInv, Heard, Report, Registered

LEMMA NothingShown ==
    ASSUME HeardInv, UNCHANGED <<dashboards, last, monitor, view>>,
           handling'["monitor"] = handling["monitor"]
    PROVE  Shown'
BY DEF HeardInv, Shown, OnItsWay, Report, dashboards

LEMMA RequestsHeard ==
    ASSUME HeardInv, NEW r \in Requests, RequestStep(r)
    PROVE  Heard' /\ Shown'
<1> USE DEF HeardInv
<1>1. UNCHANGED <<dashboards, last, monitor, reporter, view, handling>>
  BY RequestTypesKept
<1>2. CASE UNCHANGED <<row, written>>
  BY <1>1, <1>2, NothingHeard, NothingShown
<1>3. CASE Commit(r)
  <2> DEFINE c == req[r].camera
  <2>1. CASE UNCHANGED <<row, written>>
    BY <1>2, <2>1
  <2>2. CASE /\ row' = [row EXCEPT ![c] = req[r].to]
             /\ written' = [written EXCEPT ![c] = None]
    <3>1. \A d \in Cameras : written'[d] # None => written[d] # None /\ row'[d] = row[d]
      BY <2>2 DEF TypeInv, RowTypes, Seen
    <3>2. Report' = Report
      BY <1>1 DEF Report
    <3>3. Heard'
      BY <1>1, <3>1, <3>2 DEF Heard, Registered
    <3> QED BY <1>1, <3>3, NothingShown
  <2> QED BY <1>3, <2>1, <2>2 DEF Commit
<1>4. CASE ~Commit(r)
  BY <1>2, <1>4 DEF RequestStep, Rollback, Register, StartStream, StopStream, Deregister
<1> QED BY <1>3, <1>4

LEMMA ClientsShown ==
    ASSUME HeardInv, NEW k \in Clients, Client(k)
    PROVE  Heard' /\ Shown'
<1> USE DEF HeardInv, TypeInv, DashboardsTypeOK
<1>1. UNCHANGED <<row, req, last, monitor, written, handling>>
  BY ClientTypes
<1>2. Heard' /\ Report' = Report
  BY <1>1, NothingHeard
<1>3. UNCHANGED push
  BY DEF Client, ClientStep, Connect, Free, Lose, Disconnected, HandlerEnds
<1>4. CASE Connect(k) /\ view' = [view EXCEPT ![k] = Unseen]
  <2>1. /\ conn' = [conn EXCEPT ![k] = "open"] /\ pool' = pool \cup {k}
        /\ \A p \in Pushers : k \notin push[p].dead
    BY <1>4 DEF Connect, Free
  <2>2. \A c \in Cameras : view'[k][c] = None
    BY <1>4 DEF RowTypes, Unseen
  <2>3. \A j \in Clients \ {k} : view'[j] = view[j] /\ conn'[j] = conn[j]
    BY <1>4, <2>1 DEF RowTypes
  <2>4. ASSUME NEW j \in Clients, conn'[j] = "open"
        PROVE  /\ j \in pool'
               /\ \A p \in Pushers : j \notin push'[p].dead
               /\ \A c \in Cameras : view'[j][c] \in {None, last'[c]} \/ OnItsWay(j, c)'
    <3>1. CASE j = k
      BY <1>3, <2>1, <2>2, <3>1
    <3>2. CASE j # k
      BY <1>1, <1>2, <1>3, <2>1, <2>3, <2>4, <3>2 DEF Shown, OnItsWay
    <3> QED BY <3>1, <3>2
  <2>5. Shown'
    BY <2>4 DEF Shown
  <2> QED BY <1>2, <2>5
<1>5. CASE (Lose(k) \/ Disconnected(k) \/ HandlerEnds(k)) /\ UNCHANGED view
  <2>1. \A j \in Clients : conn'[j] = "open" => conn[j] = "open" /\ (j \in pool => j \in pool')
    BY <1>5 DEF Lose, Disconnected, HandlerEnds
  <2>2. Shown'
    BY <1>1, <1>2, <1>3, <1>5, <2>1 DEF Shown, OnItsWay
  <2> QED BY <1>2, <2>2
<1> QED BY <1>4, <1>5 DEF Client, ClientStep

LEMMA ReporterShown ==
    ASSUME HeardInv, ReporterStep
    PROVE  Heard' /\ Shown'
<1> USE DEF HeardInv, TypeInv, DashboardsTypeOK
<1>1. /\ UNCHANGED <<row, req, last, monitor, view, written, counts>>
      /\ handling'["monitor"] = handling["monitor"]
  BY ReporterTypes
<1>2. Heard' /\ Report' = Report
  BY <1>1, NothingHeard
<1>3. {"monitor", "reporter"} \subseteq Pushers
  BY ControlAssumption
<1>4. /\ conn' = conn /\ push'["monitor"] = push["monitor"]
      /\ \A k \in Clients : conn[k] = "open" =>
           /\ k \in pool => (\E p \in Pushers : k \in push[p].dead) \/ k \in pool'
           /\ \A p \in Pushers : k \in push'[p].dead => k \in push[p].dead
  <2>1. CASE Begin("reporter")
    BY <1>3, <2>1 DEF Begin
  <2>2. CASE Finish("reporter")
    BY <1>3, <2>2 DEF Finish, NoPush
  <2>3. CASE \E k \in Clients : SendReturns("reporter", k)
    BY <1>3, <2>3 DEF SendReturns
  <2>4. CASE \E k \in Clients : SendFails("reporter", k)
    BY <1>3, <2>4 DEF SendFails
  <2>5. CASE UNCHANGED dashboards
    BY <2>5 DEF dashboards
  <2> QED BY <2>1, <2>2, <2>3, <2>4, <2>5
          DEF ReporterStep, ReporterTakes, ReporterPushed, ReporterSends
<1>5. Shown'
  BY <1>1, <1>2, <1>4 DEF Shown, OnItsWay
<1> QED BY <1>2, <1>5

LEMMA CrashHeard ==
    ASSUME HeardInv, Crash
    PROVE  Heard' /\ Shown'
<1>1. /\ conn' = [k \in Clients |-> "off"] /\ written' = Unseen /\ monitor' = "idle"
  BY DEF Crash
<1> QED BY <1>1 DEF Heard, Shown, Unseen

\* A status is written, or its write fails, or the row is gone: nothing is left
\* written that is not the last status heard.
LEMMA UpdateHeard ==
    ASSUME HeardInv, monitor \in {"write", "seen"}, NEW s, s = Report[2],
           UpdateStatus(Report[1], s), UNCHANGED last
    PROVE  \A c \in Cameras : written'[c] # None /\ Registered(c)' => row'[c] = last'[c]
<1> USE DEF HeardInv, TypeInv, RegInv
<1>1. Report[1] \in Cameras /\ s = last[Report[1]]
  BY ReportTypes DEF AtWork, Heard
<1>2. ASSUME NEW c \in Cameras, written'[c] # None, Registered(c)'
      PROVE  row'[c] = last[c]
  <2>1. CASE c = Report[1]
    BY <1>1, <1>2, <2>1 DEF UpdateStatus, RowTypes, Seen, Registered
  <2>2. CASE c # Report[1]
    <3>1. row'[c] = row[c] /\ written'[c] = written[c]
      BY <1>1, <2>2 DEF UpdateStatus, RowTypes, Seen
    <3> QED BY <1>2, <2>2, <3>1 DEF Heard, Registered
  <2> QED BY <2>1, <2>2
<1> QED BY <1>2

\* After the push the report is the same, if it is still in the monitor's hands.
LEMMA AfterPushHeard ==
    ASSUME HeardInv, monitor # "idle", AfterPush, UNCHANGED last
    PROVE  /\ monitor' \in {"idle", "seen"}
           /\ monitor' # "idle" => last'[Report[1]'] = Report[2]'
           /\ monitor' = "seen" => Report[2]' = "ACTIVE"
BY DEF AfterPush, HeardInv, Heard, Report, bus

LEMMA MonitorHeard ==
    ASSUME HeardInv, MonitorStep
    PROVE  Heard'
<1> USE DEF HeardInv, TypeInv, RegInv
<1>1. CASE MonitorIgnores
  <2>1. UNCHANGED <<row, last, monitor, written, handling>>
    BY <1>1 DEF MonitorIgnores, Bus!Serve, control
  <2> QED BY <2>1, NothingHeard
<1>2. CASE MonitorTakes
  <2> DEFINE rep == Head(queue["monitor"])
  <2>1. Bus!Take("monitor") /\ UNCHANGED <<row, written>>
    BY <1>2 DEF MonitorTakes
  <2>2. rep[1] \in Cameras /\ handling'["monitor"] = <<rep>> /\ handling["monitor"] = <<>>
    BY <2>1, TakenReport DEF Bus!Take
  <2>3. Report' = rep /\ monitor = "idle"
    BY <2>2 DEF Report, AtWork
  <2> HIDE DEF rep
  <2>4. \/ last' = [last EXCEPT ![rep[1]] = rep[2]] /\ monitor' = "write"
        \/ last' = last /\ last[rep[1]] = rep[2] /\ rep[2] = "ACTIVE" /\ monitor' = "seen"
    BY <1>2 DEF MonitorTakes, rep
  <2>5. last'[rep[1]] = rep[2] /\ (monitor' = "seen" => rep[2] = "ACTIVE")
    BY <2>2, <2>4 DEF RowTypes, Seen
  <2>6. \A c \in Cameras : last'[c] = last[c] \/ (monitor' = "write" /\ rep[1] = c)
    BY <2>4 DEF RowTypes, Seen
  <2> QED BY <2>1, <2>3, <2>5, <2>6 DEF Heard, Registered
<1>3. CASE MonitorWrites
  <2>1. monitor = "write" /\ UpdateStatus(Report[1], Report[2]) /\ UNCHANGED last
    BY <1>3 DEF MonitorWrites
  <2>2. \A c \in Cameras : written'[c] # None /\ Registered(c)' => row'[c] = last'[c]
    BY <2>1, UpdateHeard
  <2>3. CASE AfterPush
    BY <2>1, <2>2, <2>3, AfterPushHeard DEF Heard
  <2>4. CASE monitor' = "push" /\ UNCHANGED bus
    BY <2>1, <2>2, <2>4 DEF Heard, Report, bus
  <2> QED BY <1>3, <2>3, <2>4 DEF MonitorWrites
<1>4. CASE MonitorPushed
  <2>1. monitor = "push" /\ AfterPush /\ UNCHANGED <<row, last, written>>
    BY <1>4 DEF MonitorPushed
  <2>2. \A c \in Cameras : written'[c] # None /\ Registered(c)' => row'[c] = last'[c]
    BY <2>1 DEF Heard, Registered
  <2> QED BY <2>1, <2>2, AfterPushHeard DEF Heard
<1>5. CASE MonitorSees
  <2>1. /\ monitor = "seen" /\ UpdateStatus(Report[1], "ACTIVE") /\ UNCHANGED last
        /\ monitor' = "idle"
    BY <1>5 DEF MonitorSees
  <2>2. "ACTIVE" = Report[2]
    BY <2>1 DEF Heard
  <2> QED BY <2>1, <2>2, UpdateHeard DEF Heard
<1>6. CASE \E k \in Clients : MonitorShows(k) \/ MonitorMisses(k)
  <2>1. UNCHANGED <<row, last, monitor, written, handling>>
    BY <1>6 DEF MonitorShows, MonitorMisses, control, bus
  <2> QED BY <2>1, NothingHeard
<1> QED BY <1>1, <1>2, <1>3, <1>4, <1>5, <1>6 DEF MonitorStep

LEMMA MonitorShown ==
    ASSUME HeardInv, MonitorStep
    PROVE  Shown'
<1> USE DEF HeardInv, TypeInv, RegInv, DashboardsTypeOK
<1>1. "monitor" \in Pushers
  BY ControlAssumption
<1>2. CASE MonitorIgnores
  <2>1. UNCHANGED <<dashboards, last, monitor, view, handling>>
    BY <1>2 DEF MonitorIgnores, Bus!Serve, control
  <2> QED BY <2>1, NothingShown
<1>3. CASE MonitorTakes
  <2> DEFINE rep == Head(queue["monitor"])
  <2>1. Bus!Take("monitor") /\ UNCHANGED <<dashboards, view>>
    BY <1>3 DEF MonitorTakes
  <2>2. rep[1] \in Cameras /\ handling'["monitor"] = <<rep>> /\ handling["monitor"] = <<>>
    BY <2>1, TakenReport DEF Bus!Take
  <2>3. Report' = rep /\ monitor = "idle"
    BY <2>2 DEF Report, AtWork
  <2> HIDE DEF rep
  <2>4. \A c \in Cameras : last'[c] = last[c] \/ (monitor' = "write" /\ rep[1] = c)
    BY <1>3 DEF MonitorTakes, RowTypes, Seen, rep
  <2> QED BY <2>1, <2>3, <2>4 DEF Shown, OnItsWay, dashboards
<1>4. CASE MonitorWrites
  <2>1. /\ monitor = "write" /\ UNCHANGED <<last, view>>
    BY <1>4 DEF MonitorWrites
  <2>2. CASE pool = {}
    <3>1. UNCHANGED dashboards
      BY <1>4, <2>2 DEF MonitorWrites
    <3> QED BY <2>2, <3>1 DEF Shown, dashboards
  <2>3. CASE pool # {}
    <3>1. monitor' = "push" /\ Begin("monitor") /\ UNCHANGED bus
      BY <1>4, <2>3 DEF MonitorWrites
    <3>2. /\ UNCHANGED <<conn, pool>> /\ Report' = Report
          /\ push'["monitor"] = [left |-> pool, dead |-> {}]
          /\ \A p \in Pushers \ {"monitor"} : push'[p] = push[p]
      BY <1>1, <3>1 DEF Begin, Report, bus
    <3> QED BY <2>1, <3>1, <3>2 DEF Shown, OnItsWay
  <2> QED BY <2>2, <2>3
<1>5. CASE MonitorPushed
  <2>1. monitor = "push" /\ Finish("monitor") /\ UNCHANGED <<last, view>>
    BY <1>5 DEF MonitorPushed
  <2>2. /\ push["monitor"].left = {} /\ UNCHANGED conn
        /\ pool' = pool \ push["monitor"].dead
        /\ push'["monitor"].dead = {}
        /\ \A p \in Pushers \ {"monitor"} : push'[p] = push[p]
    BY <1>1, <2>1 DEF Finish, NoPush
  <2> QED BY <1>1, <2>1, <2>2 DEF Shown, OnItsWay
<1>6. CASE MonitorSees
  <2>1. monitor = "seen" /\ UNCHANGED <<dashboards, last, view>>
    BY <1>6 DEF MonitorSees
  <2> QED BY <2>1 DEF Shown, OnItsWay, dashboards
<1>7. ASSUME NEW k \in Clients, MonitorShows(k)
      PROVE  Shown'
  <2>1. /\ monitor = "push" /\ SendReturns("monitor", k)
        /\ view' = [view EXCEPT ![k][Report[1]] = Report[2]]
        /\ UNCHANGED <<last, monitor>> /\ Report' = Report
    BY <1>7 DEF MonitorShows, Report, bus
  <2>2. last[Report[1]] = Report[2] /\ Report[1] \in Cameras
    BY <2>1, ReportTypes DEF Heard, AtWork
  <2>3. /\ UNCHANGED <<conn, pool>>
        /\ push' = [push EXCEPT !["monitor"].left = @ \ {k}]
    BY <2>1 DEF SendReturns
  <2>4. /\ push'["monitor"].left = push["monitor"].left \ {k}
        /\ \A p \in Pushers : push'[p].dead = push[p].dead
    BY <1>1, <2>3
  <2>5. ASSUME NEW j \in Clients, NEW c \in Cameras, conn[j] = "open"
        PROVE  view'[j][c] \in {None, last[c]} \/ OnItsWay(j, c)'
    <3>1. CASE j = k /\ c = Report[1]
      BY <2>1, <2>2, <3>1 DEF RowTypes, Seen
    <3>2. CASE ~(j = k /\ c = Report[1])
      <4>1. view'[j][c] = view[j][c]
        BY <2>1, <2>2, <3>2 DEF RowTypes, Seen
      <4> QED BY <2>1, <2>4, <2>5, <3>2, <4>1 DEF Shown, OnItsWay
    <3> QED BY <3>1, <3>2
  <2> QED BY <2>1, <2>3, <2>4, <2>5 DEF Shown
<1>8. ASSUME NEW k \in Clients, MonitorMisses(k)
      PROVE  Shown'
  <2>1. /\ SendFails("monitor", k) /\ UNCHANGED <<last, monitor, view>> /\ Report' = Report
    BY <1>8 DEF MonitorMisses, Report, bus, control
  <2>2. /\ conn[k] # "open" /\ UNCHANGED <<conn, pool>>
        /\ push'["monitor"].left = push["monitor"].left \ {k}
        /\ \A p \in Pushers : push'[p].dead \subseteq push[p].dead \cup {k}
    BY <1>1, <2>1 DEF SendFails
  <2> QED BY <2>1, <2>2 DEF Shown, OnItsWay
<1> QED BY <1>2, <1>3, <1>4, <1>5, <1>6, <1>7, <1>8 DEF MonitorStep

LEMMA HeardStep == HeardInv /\ [Next]_vars => HeardInv'
<1> SUFFICES ASSUME HeardInv, [Next]_vars PROVE Heard' /\ Shown'
  BY TypeStep DEF HeardInv
<1> USE DEF HeardInv
<1>1. ASSUME UNCHANGED <<dashboards, control>>, handling'["monitor"] = handling["monitor"]
      PROVE  Heard' /\ Shown'
  <2>1. UNCHANGED <<row, last, monitor, written, view>>
    BY <1>1 DEF control
  <2> QED BY <1>1, <2>1, NothingHeard, NothingShown
<1>2. CASE Ingestion \/ UNCHANGED vars
  BY <1>1, <1>2, IngestionTypes
<1>3. CASE MonitorStep
  BY <1>3, MonitorHeard, MonitorShown
<1>4. CASE ReporterStep
  BY <1>4, ReporterShown
<1>5. CASE Crash
  BY <1>5, CrashHeard
<1>6. CASE \E r \in Requests : RequestStep(r)
  BY <1>6, RequestsHeard
<1>7. CASE \E k \in Clients : Client(k)
  BY <1>7, ClientsShown
<1>8. CASE \/ \E kind \in {"START", "STOP"}, c \in Cameras : Command(kind, c)
           \/ \E level \in Levels : CheckDisk(level)
           \/ HealthMonitorStarts
  BY <1>1, <1>8, OutsideTypes
<1> QED BY <1>2, <1>3, <1>4, <1>5, <1>6, <1>7, <1>8 DEF Next

\* Between reports the row of a camera is the last status the monitor heard of it,
\* unless a request or a failed write came in between.
THEOREM RowFollowsReportsAlways == Spec => []RowFollowsReports
<1>1. HeardInv => RowFollowsReports
  BY DEF HeardInv, Heard, RowFollowsReports
<1> QED BY HeardInit, HeardStep, <1>1, PTL DEF Spec

\* A dashboard that is connected stays in the pool, whatever becomes of the others
\* in a broadcast, and between reports shows nothing older than the monitor heard.
THEOREM DashboardsCurrentAlways == Spec => []DashboardsCurrent
<1>1. HeardInv => DashboardsCurrent
  BY DEF HeardInv, Shown, OnItsWay, DashboardsCurrent
<1> QED BY HeardInit, HeardStep, <1>1, PTL DEF Spec
=============================================================================
