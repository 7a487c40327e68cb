------------------------ MODULE GalaxyPlugin_proofs ------------------------
(***************************************************************************)
(* Machine-checked proofs about GalaxyPlugin, for any number of messages   *)
(* of any kinds: the type and safety invariants, what no step may do after *)
(* close(), and that the external task manager implements TaskManager.     *)
(***************************************************************************)
EXTENDS GalaxyPlugin, SequenceTheorems, TLAPS

-----------------------------------------------------------------------------
(* The queue: is t in it; is some t in it before some u; is nothing in it  *)
(* twice.                                                                  *)
Queued(q, t) == \E i \in 1..Len(q) : q[i] = t

Ahead(q, t, u) == \E i, j \in 1..Len(q) : i < j /\ q[i] = t /\ q[j] = u

NoDuplicates(q) == \A i, j \in 1..Len(q) : q[i] = q[j] => i = j

Stages == {"external", "internal", "connection"}
Ended == {"done", "dropped"}
Inline == {"ping", "init", "badPing", "badNotify", "fatal"}
Spawning == {"query", "notify", "import"}
AtOnce == {"ping", "init", "badPing", "badNotify", "badParams"}
Unanswered == {"notify", "misfitNotify", "fatal"}

(* Where each task can be.                                                 *)
PlacesInv ==
    /\ pc[Main] \in {"reading", "closed"} \cup Stages
    /\ pc[Teardown] \in {"none", "created", "waiting", "done"}
    /\ pc[Teardown] = "none" <=> open
    /\ \A m \in Msg :
          /\ pc[Handle(m)] \in {"none", "created", "waiting", "external", "internal", "done"}
          /\ pc[External(m)] \in {"none", "created", "waiting"} \cup Ended
          /\ pc[Import(m)] \in {"none", "created", "waiting"} \cup Ended
          /\ pc[Tick(m)] \in {"none", "created", "waiting", "done"}

(* Which tasks message m has, by its kind.                                 *)
MessageInv ==
    \A m \in Msg :
        /\ pc[Handle(m)] # "none" <=> m \in DOMAIN read /\ read[m] \notin Inline
        /\ pc[Handle(m)] = "waiting" => read[m] \in Spawning
        /\ pc[Handle(m)] \in Stages => read[m] = "shutdown"
        /\ pc[External(m)] # "none" <=>
              /\ m \in DOMAIN read /\ read[m] \in Spawning
              /\ pc[Handle(m)] \in {"waiting", "done"}
        /\ pc[Handle(m)] = "done" /\ read[m] \in Spawning => pc[External(m)] \in Ended
        /\ pc[Import(m)] # "none" =>
              m \in DOMAIN read /\ read[m] = "import" /\ pc[External(m)] = "done"
        /\ pc[Tick(m)] # "none" => m \in DOMAIN read /\ read[m] = "init"

(* The number of replies to message m is settled by its kind and by where  *)
(* its handler is.                                                         *)
RepliesDue(m) ==
    IF m \notin DOMAIN read \/ read[m] \in Unanswered THEN 0
    ELSE IF read[m] \in Inline THEN 1
    ELSE (IF read[m] = "badParams" THEN 1 ELSE 0)
         + (IF pc[Handle(m)] = "done" THEN 1 ELSE 0)

AnswersInv == \A m \in Msg : answers[m] = RepliesDue(m)

(* The registries hold the tasks that have begun and not ended, and those  *)
(* that were dropped.                                                      *)
RegistryInv == registered = {t \in Managed : pc[t] \notin {"none", "done"}}

(* What is in the queue is unfinished and able to run, once; what was      *)
(* created is in it.                                                       *)
QueueInv ==
    /\ NoDuplicates(ready)
    /\ \A t \in Task : Queued(ready, t) => t \in Unfinished
    /\ \A t \in Task : pc[t] = "created" => Queued(ready, t)
    /\ \A m \in Msg : pc[Handle(m)] = "waiting" =>
          (Queued(ready, Handle(m)) <=> pc[External(m)] \in Ended)

(* A new handler runs before Main does; and so the one of the shutdown     *)
(* message runs before another message is read.                            *)
HandlerFirstInv ==
    /\ \A m \in Msg : pc[Handle(m)] = "created" =>
          /\ Ahead(ready, Handle(m), Main)
          /\ open
          /\ pc[Main] = "reading"
          /\ \A n \in Msg : pc[Handle(n)] = "created" => n = m
    /\ \A m \in DOMAIN read : read[m] = "shutdown" =>
          /\ m = Len(read)
          /\ pc[Handle(m)] = "created" \/ ~open

(* What close() did stays done.                                            *)
CloseInv ==
    /\ active = open
    /\ pc[Main] # "reading" => ~open
    /\ cancelled = IF open THEN {} ELSE ExternalTasks \cap Unfinished

(* What a wait() has seen finished stays so: no external task is started   *)
(* after close(), and no tick loop.                                        *)
WaitInv ==
    \A t \in Waiter :
        /\ pc[t] \in {"internal", "connection", "closed"} => registered \cap ExternalTasks = {}
        /\ pc[t] \in {"connection", "closed"} => registered \cap InternalTasks = {}
        /\ pc[t] = "closed" => registered \cap ConnectionTasks = {}
        /\ pc[t] = "external" => ExternalTasks \cap Unfinished \subseteq gathered[t]
        /\ \A u \in gathered[t] : pc[u] # "none"
        /\ pc[t] \in Stages /\ Queued(ready, t) => gathered[t] \cap Unfinished = {}

(* The handler of the shutdown request that is to go on is in the queue    *)
(* behind every handler that has yet to send its reply.                    *)
ShutdownLastInv ==
    \A m, n \in Msg :
        pc[Handle(m)] \in Stages /\ Queued(ready, Handle(m)) /\ pc[Handle(n)] = "waiting"
            => Ahead(ready, Handle(n), Handle(m))

(* Whoever holds the import flag.                                          *)
Holds(m) ==
    \/ read[m] = "import" /\ pc[External(m)] = "waiting"
    \/ pc[Import(m)] \in {"created", "waiting", "dropped"}

FlagInv ==
    /\ importing <=> \E m \in DOMAIN read : Holds(m)
    /\ \A m, n \in DOMAIN read : Holds(m) /\ Holds(n) => m = n

IInv ==
    /\ TypeOK
    /\ PlacesInv
    /\ MessageInv
    /\ AnswersInv
    /\ RegistryInv
    /\ QueueInv
    /\ HandlerFirstInv
    /\ CloseInv
    /\ WaitInv
    /\ ShutdownLastInv
    /\ FlagInv

-----------------------------------------------------------------------------
(* A task is told by its name and its message.                             *)
LEMMA TaskNames ==
    /\ Main[1] = "main" /\ Main[2] = 0
    /\ Teardown[1] = "teardown"
    /\ \A m : /\ Handle(m)[1] = "handle" /\ Handle(m)[2] = m
              /\ External(m)[1] = "external" /\ External(m)[2] = m
              /\ Import(m)[1] = "import" /\ Import(m)[2] = m
              /\ Tick(m)[1] = "tick" /\ Tick(m)[2] = m
  BY DEF Main, Teardown, Handle, External, Import, Tick

(* The sorts of task, and the sets they make up.                           *)
LEMMA TaskSorts ==
    /\ Main \in Task /\ Main \in Waiter /\ Teardown \in InternalTasks
    /\ \A m \in Msg : /\ Handle(m) \in ConnectionTasks
                      /\ External(m) \in ExternalTasks
                      /\ Import(m) \in ExternalTasks
                      /\ Tick(m) \in InternalTasks
    /\ \A t \in Task :
          /\ \/ t = Main
             \/ t = Teardown
             \/ \E m \in Msg : t \in {Handle(m), External(m), Import(m), Tick(m)}
          /\ t \in ConnectionTasks <=> t[1] = "handle"
          /\ t \in ExternalTasks <=> t[1] \in {"external", "import"}
          /\ t \in InternalTasks <=> t[1] \in {"tick", "teardown"}
          /\ t \in Managed <=> t # Main
          /\ t \in Waiter <=> t[1] \in {"handle", "main"}
    /\ Waiter \subseteq Task
    /\ Managed \subseteq Task
    /\ ConnectionTasks \subseteq Managed
    /\ ExternalTasks \subseteq Managed
    /\ InternalTasks \subseteq Managed
  BY TaskNames DEF Task, Managed, Waiter, ConnectionTasks, ExternalTasks, InternalTasks

-----------------------------------------------------------------------------
(* What Wake does to the queue.                                            *)
LEMMA AppendQueue ==
  ASSUME NEW S, NEW q \in Seq(S), NEW t \in S, NoDuplicates(q), ~Queued(q, t)
  PROVE  /\ Append(q, t) \in Seq(S)
         /\ NoDuplicates(Append(q, t))
         /\ \A u : Queued(Append(q, t), u) <=> Queued(q, u) \/ u = t
         /\ \A u, v : Ahead(Append(q, t), u, v) <=>
                         Ahead(q, u, v) \/ (Queued(q, u) /\ v = t)
<1> DEFINE r == Append(q, t)
<1>1. /\ r \in Seq(S)
      /\ Len(q) \in Nat
      /\ Len(r) = Len(q) + 1
      /\ \A i \in 1..Len(q) : r[i] = q[i]
      /\ r[Len(q) + 1] = t
  BY AppendProperties, LenProperties
<1> HIDE DEF r
<1>2. NoDuplicates(r)
  BY <1>1 DEF NoDuplicates, Queued
<1>3. ASSUME NEW u
      PROVE  Queued(r, u) <=> Queued(q, u) \/ u = t
  BY <1>1 DEF Queued
<1>4. ASSUME NEW u, NEW v
      PROVE  Ahead(r, u, v) <=> Ahead(q, u, v) \/ (Queued(q, u) /\ v = t)
  BY <1>1 DEF Ahead, Queued
<1>5. QED
  BY <1>1, <1>2, <1>3, <1>4 DEF r

(* What Tail does to a queue.                                              *)
LEMMA TailQueue ==
  ASSUME NEW S, NEW q \in Seq(S), q # <<>>, NoDuplicates(q)
  PROVE  /\ Tail(q) \in Seq(S)
         /\ Head(q) \in S
         /\ Queued(q, Head(q))
         /\ NoDuplicates(Tail(q))
         /\ \A u : Queued(Tail(q), u) <=> Queued(q, u) /\ u # Head(q)
         /\ \A u, v : Ahead(Tail(q), u, v) <=> Ahead(q, u, v) /\ u # Head(q)
         /\ \A u : ~Ahead(q, u, Head(q))
<1> DEFINE r == Tail(q)
<1>1. /\ r \in Seq(S)
      /\ Head(q) \in S
      /\ Len(q) \in Nat \ {0}
      /\ Len(r) = Len(q) - 1
      /\ \A i \in 1..Len(r) : r[i] = q[i + 1]
      /\ Head(q) = q[1]
  BY HeadTailProperties, LenProperties, EmptySeq
<1>2. \A i \in 1..Len(q) : i # 1 => i - 1 \in 1..Len(r) /\ q[i] = r[i - 1]
  BY <1>1
<1> HIDE DEF r
<1>3. Queued(q, Head(q)) /\ NoDuplicates(r)
  BY <1>1 DEF NoDuplicates, Queued
<1>4. ASSUME NEW u
      PROVE  Queued(r, u) <=> Queued(q, u) /\ u # Head(q)
  BY <1>1, <1>2 DEF Queued, NoDuplicates
<1>5. ASSUME NEW u, NEW v
      PROVE  Ahead(r, u, v) <=> Ahead(q, u, v) /\ u # Head(q)
  <2>1. Ahead(r, u, v) => Ahead(q, u, v) /\ u # Head(q)
    BY <1>1 DEF Ahead, NoDuplicates
  <2>2. ASSUME Ahead(q, u, v), u # Head(q)
        PROVE  Ahead(r, u, v)
    <3>1. PICK i, j \in 1..Len(q) : i < j /\ q[i] = u /\ q[j] = v
      BY <2>2 DEF Ahead
    <3>2. i # 1 /\ j # 1
      BY <1>1, <2>2, <3>1
    <3>3. /\ i - 1 \in 1..Len(r) /\ r[i - 1] = u
          /\ j - 1 \in 1..Len(r) /\ r[j - 1] = v
          /\ i - 1 < j - 1
      BY <1>2, <3>1, <3>2
    <3>4. QED
      BY <3>3 DEF Ahead
  <2>3. QED
    BY <2>1, <2>2
<1>6. ASSUME NEW u
      PROVE  ~Ahead(q, u, Head(q))
  BY <1>1 DEF Ahead, NoDuplicates
<1>7. QED
  BY <1>1, <1>3, <1>4, <1>5, <1>6 DEF r

(* The queue is well formed, as far as the lemmas on it need.              *)
QueueOK == ready \in Seq(Task) /\ NoDuplicates(ready)

(* A turn of task t: it is in the queue, and nothing is ahead of it.       *)
LEMMA TurnFacts ==
  ASSUME QueueOK, NEW t, Turn(t)
  PROVE  t \in Task /\ Queued(ready, t) /\ \A u : ~Ahead(ready, u, t)
  BY TailQueue DEF QueueOK, Turn

(* Task t had its turn, and wakes nobody.                                  *)
LEMMA ScheduleNone ==
  ASSUME QueueOK, NEW t, Turn(t), Schedule(<<>>)
  PROVE  /\ QueueOK'
         /\ \A u : Queued(ready', u) <=> Queued(ready, u) /\ u # t
         /\ \A u, v : Ahead(ready', u, v) <=> Ahead(ready, u, v) /\ u # t
<1>1. Tail(ready) \in Seq(Task) /\ ready' = Tail(ready)
  BY TailQueue, ConcatEmptySeq DEF QueueOK, Turn, Schedule
<1>2. QED
  BY <1>1, TailQueue DEF QueueOK, Turn

(* Task t had its turn, and task a becomes runnable.                       *)
LEMMA ScheduleOne ==
  ASSUME QueueOK, NEW t, Turn(t), NEW a \in Task, Schedule(<<a>>),
         a = t \/ ~Queued(ready, a)
  PROVE  /\ QueueOK'
         /\ \A u : Queued(ready', u) <=> (Queued(ready, u) /\ u # t) \/ u = a
         /\ \A u, v : Ahead(ready', u, v) <=>
                         /\ Queued(ready, u) /\ u # t
                         /\ Ahead(ready, u, v) \/ v = a
<1> DEFINE q == Tail(ready)
<1>1. /\ q \in Seq(Task) /\ NoDuplicates(q)
      /\ \A u : Queued(q, u) <=> Queued(ready, u) /\ u # t
      /\ \A u, v : Ahead(q, u, v) <=> Ahead(ready, u, v) /\ u # t
  BY TailQueue DEF QueueOK, Turn
<1>2. ready' = Append(q, a)
  BY <1>1, AppendIsConcat DEF Schedule
<1> HIDE DEF q
<1>3. ~Queued(q, a)
  BY <1>1
<1>4. \A u, v : Ahead(ready, u, v) => Queued(ready, u)
  BY DEF Ahead, Queued
<1>5. /\ ready' \in Seq(Task) /\ NoDuplicates(ready')
      /\ \A u : Queued(ready', u) <=> Queued(q, u) \/ u = a
      /\ \A u, v : Ahead(ready', u, v) <=> Ahead(q, u, v) \/ (Queued(q, u) /\ v = a)
  BY <1>1, <1>2, <1>3, AppendQueue
<1>6. QED
  BY <1>1, <1>4, <1>5 DEF QueueOK

(* Task t had its turn, and tasks a and b become runnable, in this order.  *)
LEMMA ScheduleTwo ==
  ASSUME QueueOK, NEW t, Turn(t), NEW a \in Task, NEW b \in Task, a # b,
         Schedule(<<a, b>>),
         a = t \/ ~Queued(ready, a), b = t \/ ~Queued(ready, b)
  PROVE  /\ QueueOK'
         /\ \A u : Queued(ready', u) <=> (Queued(ready, u) /\ u # t) \/ u = a \/ u = b
         /\ \A u, v : Ahead(ready', u, v) <=>
                         \/ /\ Queued(ready, u) /\ u # t
                            /\ Ahead(ready, u, v) \/ v = a \/ v = b
                         \/ u = a /\ v = b
<1> DEFINE q == Tail(ready)
           r == Append(q, a)
<1>1. /\ q \in Seq(Task) /\ NoDuplicates(q)
      /\ \A u : Queued(q, u) <=> Queued(ready, u) /\ u # t
      /\ \A u, v : Ahead(q, u, v) <=> Ahead(ready, u, v) /\ u # t
  BY TailQueue DEF QueueOK, Turn
<1>2. ready' = Append(r, b)
  <2>1. /\ <<a>> \in Seq(Task)
        /\ <<b>> \in Seq(Task)
        /\ <<a, b>> = <<a>> \o <<b>>
    <3>1. <<a>> \in Seq(Task) /\ <<b>> \in Seq(Task) /\ <<a, b>> \in Seq(Task)
      OBVIOUS
    <3>2. /\ <<a>> \o <<b>> \in Seq(Task)
          /\ Len(<<a>> \o <<b>>) = 2
          /\ (<<a>> \o <<b>>)[1] = a /\ (<<a>> \o <<b>>)[2] = b
      BY <3>1, ConcatProperties
    <3>3. /\ Len(<<a, b>>) = 2 /\ <<a, b>>[1] = a /\ <<a, b>>[2] = b
          /\ \A i \in 1..2 : i = 1 \/ i = 2
      OBVIOUS
    <3>4. \A i \in 1..2 : <<a, b>>[i] = (<<a>> \o <<b>>)[i]
      BY <3>2, <3>3
    <3>5. <<a, b>> = <<a>> \o <<b>>
      BY <3>1, <3>2, <3>3, <3>4, SeqEqual, Zenon
    <3>6. QED
      BY <3>1, <3>5
  <2>2. ready' = (q \o <<a>>) \o <<b>>
    BY <1>1, <2>1, ConcatAssociative DEF Schedule
  <2>3. QED
    BY <1>1, <2>2, AppendIsConcat, AppendProperties
<1> HIDE DEF q
<1>3. ~Queued(q, a) /\ ~Queued(q, b)
  BY <1>1
<1>4. \A u, v : Ahead(ready, u, v) => Queued(ready, u)
  BY DEF Ahead, Queued
<1>5. /\ r \in Seq(Task) /\ NoDuplicates(r)
      /\ \A u : Queued(r, u) <=> Queued(q, u) \/ u = a
      /\ \A u, v : Ahead(r, u, v) <=> Ahead(q, u, v) \/ (Queued(q, u) /\ v = a)
  BY <1>1, <1>3, AppendQueue
<1> HIDE DEF r
<1>6. /\ ready' \in Seq(Task) /\ NoDuplicates(ready')
      /\ \A u : Queued(ready', u) <=> Queued(r, u) \/ u = b
      /\ \A u, v : Ahead(ready', u, v) <=> Ahead(r, u, v) \/ (Queued(r, u) /\ v = b)
  <2>1. ~Queued(r, b)
    BY <1>3, <1>5
  <2>2. QED
    BY <1>2, <1>5, <2>1, AppendQueue
<1>7. QED
  BY <1>1, <1>4, <1>5, <1>6 DEF QueueOK

-----------------------------------------------------------------------------
(* What every step lemma needs of the state it starts in.                  *)
LEMMA StateFacts ==
  ASSUME IInv
  PROVE  /\ QueueOK
         /\ pc \in [Task -> PC]
         /\ DOMAIN read = 1..Len(read)
         /\ Len(read) \in Nat
         /\ DOMAIN read \subseteq Msg
         /\ \A u, v : Ahead(ready, u, v) => Queued(ready, u) /\ Queued(ready, v)
         /\ \A t \in Task : Queued(ready, t) => pc[t] \notin {"none", "done", "dropped", "closed"}
<1>1. /\ DOMAIN read = 1..Len(read)
      /\ Len(read) \in Nat /\ Len(wire) \in Nat
      /\ Len(read) + Len(wire) <= MaxMsgs
  BY LenProperties DEF IInv, TypeOK
<1>2. DOMAIN read \subseteq Msg
  BY <1>1, MaxMsgsAssumption DEF Msg
<1>3. \A u, v : Ahead(ready, u, v) => Queued(ready, u) /\ Queued(ready, v)
  BY DEF Ahead, Queued
<1>4. QED
  BY <1>1, <1>2, <1>3 DEF IInv, TypeOK, QueueInv, QueueOK, Unfinished

(* An external task ends, for one reason or another, and wakes its handler.*)
(* The flag is reset if it was the start() of an import under way.         *)
LEMMA ExternalEnds ==
  ASSUME IInv, NEW m \in Msg, NEW how \in Ended,
         Turn(External(m)),
         pc' = [pc EXCEPT ![External(m)] = how],
         registered' = IF how = "done" THEN registered \ {External(m)} ELSE registered,
         cancelled' = cancelled \ {External(m)},
         importing' <=> importing /\ ~(read[m] = "import" /\ pc[External(m)] = "waiting"),
         Schedule(<<Handle(m)>>),
         UNCHANGED <<stream, flags, gathered, answers>>
  PROVE  IInv'
<1> USE TaskNames, TaskSorts, StateFacts
<1> DEFINE e == External(m)
           h == Handle(m)
<1>1. UNCHANGED <<wire, eof, read, active, open, gathered, answers>>
  BY DEF stream, flags
<1>2. /\ e \in Task /\ h \in Task
      /\ pc[e] \in {"created", "waiting"}
      /\ m \in DOMAIN read /\ read[m] \in Spawning
      /\ pc[h] = "waiting" /\ ~Queued(ready, h)
      /\ pc[Import(m)] = "none"
  BY TurnFacts DEF IInv, PlacesInv, MessageInv, QueueInv, Ended
<1>3. /\ QueueOK'
      /\ \A u : Queued(ready', u) <=> (Queued(ready, u) /\ u # e) \/ u = h
      /\ \A u, v : Ahead(ready', u, v) <=> /\ Queued(ready, u) /\ u # e
                                           /\ Ahead(ready, u, v) \/ v = h
  BY <1>2, ScheduleOne
<1>4. \A t \in Task : pc'[t] = IF t = e THEN how ELSE pc[t]
  BY <1>2
<1>5. TypeOK'
  BY <1>1, <1>2, <1>3 DEF IInv, TypeOK, QueueOK, PC, Ended
<1>6. PlacesInv'
  BY <1>1, <1>4 DEF IInv, PlacesInv, Ended, Stages
<1>7. MessageInv'
  BY <1>1, <1>2, <1>4 DEF IInv, MessageInv, Ended, Stages
<1>8. AnswersInv'
  BY <1>1, <1>4 DEF IInv, AnswersInv, RepliesDue
<1>9. RegistryInv'
  BY <1>2, <1>4 DEF IInv, RegistryInv, Ended
<1>10. QueueInv'
  BY <1>2, <1>3, <1>4 DEF IInv, QueueInv, Unfinished, QueueOK, Ended
<1>11. HandlerFirstInv'
  BY <1>1, <1>2, <1>3, <1>4 DEF IInv, HandlerFirstInv, Ended
<1>12. CloseInv'
  BY <1>1, <1>2, <1>4 DEF IInv, CloseInv, Unfinished, Ended
<1>13. WaitInv'
  BY <1>1, <1>2, <1>3, <1>4 DEF IInv, WaitInv, Unfinished, Stages, Ended
<1>14. ShutdownLastInv'
  BY <1>2, <1>3, <1>4 DEF IInv, ShutdownLastInv, Stages, Ended
<1>15. FlagInv'
  <2>1. \A n \in DOMAIN read : Holds(n)' <=> Holds(n) /\ ~(n = m /\ read[m] = "import" /\ pc[e] = "waiting")
    BY <1>1, <1>2, <1>4 DEF Holds, Ended
  <2>2. QED
    BY <1>1, <1>2, <2>1 DEF IInv, FlagInv, Holds
<1>16. QED
  BY <1>5, <1>6, <1>7, <1>8, <1>9, <1>10, <1>11, <1>12, <1>13, <1>14, <1>15 DEF IInv

(* The client sends a message or closes its end: only the stream changes.  *)
LEMMA ClientStep ==
  ASSUME IInv, (\E k \in Kind : Send(k)) \/ CloseStream
  PROVE  IInv'
<1> USE StateFacts
<1>1. UNCHANGED <<read, active, open, ready, pc, cancelled, registered, gathered,
                  importing, answers>>
  BY DEF Send, CloseStream, flags
<1>2. TypeOK'
  <2>1. CASE CloseStream
    BY <2>1 DEF CloseStream, IInv, TypeOK, flags
  <2>2. ASSUME NEW k \in Kind, Send(k)
        PROVE  TypeOK'
    <3>1. wire' \in Seq(Kind) /\ Len(wire') = Len(wire) + 1
      BY <2>2, AppendProperties DEF Send, IInv, TypeOK
    <3>2. Len(read') + Len(wire') <= MaxMsgs
      <4>1. Len(wire) \in Nat
        BY LenProperties DEF IInv, TypeOK
      <4>2. QED
        BY <1>1, <2>2, <3>1, <4>1, MaxMsgsAssumption DEF Send
    <3>3. QED
      BY <1>1, <2>2, <3>1, <3>2 DEF Send, IInv, TypeOK
  <2>3. QED
    BY <2>1, <2>2
<1>3. QED
  BY <1>1, <1>2 DEF IInv, PlacesInv, MessageInv, AnswersInv, RepliesDue, RegistryInv,
     QueueInv, HandlerFirstInv, CloseInv, WaitInv, ShutdownLastInv, FlagInv, Holds, Unfinished

(* What a task awaits has happened, and it is put into the queue.          *)
LEMMA WakeStep ==
  ASSUME IInv, NEW t \in Task, Wake(t)
  PROVE  IInv'
<1> USE TaskNames, TaskSorts, StateFacts
<1>1. UNCHANGED <<wire, eof, read, active, open, pc, cancelled, registered, gathered,
                  importing, answers>>
  BY DEF Wake, stream, flags
<1>2. ready \in Seq(Task) /\ NoDuplicates(ready) /\ ~Queued(ready, t)
  BY LenProperties DEF Wake, QueueOK, Queued
<1>3. /\ ready' \in Seq(Task) /\ NoDuplicates(ready')
      /\ \A u : Queued(ready', u) <=> Queued(ready, u) \/ u = t
      /\ \A u, v : Ahead(ready', u, v) <=> Ahead(ready, u, v) \/ (Queued(ready, u) /\ v = t)
  BY <1>2, AppendQueue DEF Wake
<1>4. /\ pc[t] \in {"reading", "waiting"} \cup Stages
      /\ \A m \in Msg : t = Handle(m) => pc[t] \in Stages
      /\ pc[t] \in Stages => gathered[t] \cap Unfinished = {}
  BY DEF Wake, CanWake, Stages
<1>5. TypeOK'
  BY <1>1, <1>3 DEF IInv, TypeOK
<1>6. /\ PlacesInv' /\ MessageInv' /\ AnswersInv' /\ RegistryInv' /\ CloseInv' /\ FlagInv'
  BY <1>1 DEF IInv, PlacesInv, MessageInv, AnswersInv, RepliesDue, RegistryInv, CloseInv,
     FlagInv, Holds, Unfinished
<1>7. QueueInv'
  BY <1>1, <1>3, <1>4 DEF IInv, QueueInv, Unfinished, Stages
<1>8. HandlerFirstInv'
  BY <1>1, <1>3 DEF IInv, HandlerFirstInv
<1>9. WaitInv'
  BY <1>1, <1>3, <1>4 DEF IInv, WaitInv, Unfinished
<1>10. ShutdownLastInv'
  <2> SUFFICES ASSUME NEW m \in Msg, NEW n \in Msg,
                      pc[Handle(m)] \in Stages, Queued(ready', Handle(m)),
                      pc[Handle(n)] = "waiting"
               PROVE  Ahead(ready', Handle(n), Handle(m))
    BY <1>1 DEF ShutdownLastInv
  <2>1. CASE Handle(m) # t
    BY <1>3, <2>1 DEF IInv, ShutdownLastInv
  <2>2. CASE Handle(m) = t
    <3>1. External(n) \in ExternalTasks /\ pc[External(n)] \in {"created", "waiting"} \cup Ended
      BY DEF IInv, MessageInv, PlacesInv
    <3>2. ExternalTasks \cap Unfinished = {}
      <4>1. pc[t] = "external" => ExternalTasks \cap Unfinished \subseteq gathered[t]
        BY <2>2 DEF IInv, WaitInv
      <4>2. pc[t] # "external" => registered \cap ExternalTasks = {}
        BY <2>2 DEF IInv, WaitInv, Stages
      <4>3. QED
        BY <1>4, <2>2, <4>1, <4>2 DEF IInv, RegistryInv, Unfinished
    <3>3. pc[External(n)] \in Ended
      BY <3>1, <3>2 DEF Unfinished
    <3>4. Queued(ready, Handle(n))
      BY <3>3 DEF IInv, QueueInv
    <3>5. QED
      BY <1>3, <2>2, <3>4
  <2>3. QED
    BY <2>1, <2>2
<1>11. QED
  BY <1>5, <1>6, <1>7, <1>8, <1>9, <1>10 DEF IInv

(* The handler of the integration awaits something for the first time; a   *)
(* start() has set the import flag before.                                 *)
LEMMA SuspendExternalStep ==
  ASSUME IInv, NEW m \in Msg, SuspendExternal(m)
  PROVE  IInv'
<1> USE TaskNames, TaskSorts, StateFacts
<1> DEFINE e == External(m)
<1>1. /\ Turn(e) /\ pc[e] = "created" /\ e \notin cancelled
      /\ ~(read[m] = "import" /\ importing)
      /\ pc' = [pc EXCEPT ![e] = "waiting"]
      /\ importing' = (importing \/ read[m] = "import")
      /\ Schedule(<<>>)
      /\ UNCHANGED <<wire, eof, read, active, open, cancelled, registered, gathered, answers>>
  BY DEF SuspendExternal, ExternalRuns, stream, flags
<1>2. /\ e \in Task
      /\ m \in DOMAIN read /\ read[m] \in Spawning
      /\ pc[Handle(m)] = "waiting" /\ pc[Import(m)] = "none"
  BY <1>1 DEF IInv, PlacesInv, MessageInv, Ended
<1>3. /\ QueueOK'
      /\ \A u : Queued(ready', u) <=> Queued(ready, u) /\ u # e
      /\ \A u, v : Ahead(ready', u, v) <=> Ahead(ready, u, v) /\ u # e
  BY <1>1, ScheduleNone
<1>4. \A t \in Task : pc'[t] = IF t = e THEN "waiting" ELSE pc[t]
  BY <1>1, <1>2
<1>5. TypeOK'
  BY <1>1, <1>2, <1>3 DEF IInv, TypeOK, QueueOK, PC
<1>6. PlacesInv'
  BY <1>1, <1>4 DEF IInv, PlacesInv
<1>7. MessageInv'
  BY <1>1, <1>2, <1>4 DEF IInv, MessageInv, Ended, Stages
<1>8. AnswersInv'
  BY <1>1, <1>4 DEF IInv, AnswersInv, RepliesDue
<1>9. RegistryInv'
  BY <1>1, <1>4 DEF IInv, RegistryInv
<1>10. QueueInv'
  BY <1>1, <1>2, <1>3, <1>4 DEF IInv, QueueInv, Unfinished, QueueOK, Ended
<1>11. HandlerFirstInv'
  BY <1>1, <1>3, <1>4 DEF IInv, HandlerFirstInv
<1>12. CloseInv'
  BY <1>1, <1>4 DEF IInv, CloseInv, Unfinished
<1>13. WaitInv'
  BY <1>1, <1>3, <1>4 DEF IInv, WaitInv, Unfinished, Stages
<1>14. ShutdownLastInv'
  BY <1>1, <1>3, <1>4 DEF IInv, ShutdownLastInv, Stages
<1>15. FlagInv'
  <2>1. \A n \in DOMAIN read : Holds(n)' <=> Holds(n) \/ (n = m /\ read[m] = "import")
    BY <1>1, <1>2, <1>4 DEF Holds
  <2>2. read[m] = "import" => \A n \in DOMAIN read : ~Holds(n)
    BY <1>1 DEF IInv, FlagInv
  <2>3. importing' <=> \E n \in DOMAIN read : Holds(n)'
    BY <1>1, <1>2, <2>1 DEF IInv, FlagInv
  <2>4. QED
    BY <1>1, <2>1, <2>2, <2>3 DEF IInv, FlagInv
<1>16. QED
  BY <1>5, <1>6, <1>7, <1>8, <1>9, <1>10, <1>11, <1>12, <1>13, <1>14, <1>15 DEF IInv

(* start() has prepared its context: it creates the import and returns.    *)
LEMMA StartImportStep ==
  ASSUME IInv, NEW m \in Msg, StartImport(m)
  PROVE  IInv'
<1> USE TaskNames, TaskSorts, StateFacts
<1> DEFINE e == External(m)
           i == Import(m)
           h == Handle(m)
<1>1. /\ Turn(e) /\ pc[e] \in {"created", "waiting"} /\ e \notin cancelled
      /\ read[m] = "import" /\ (pc[e] = "created" => ~importing)
      /\ pc' = [pc EXCEPT ![e] = "done", ![i] = "created"]
      /\ registered' = (registered \ {e}) \cup {i}
      /\ importing' = TRUE
      /\ Schedule(<<i, h>>)
      /\ UNCHANGED <<wire, eof, read, active, open, cancelled, gathered, answers>>
  BY DEF StartImport, ExternalRuns, Deregistered, stream, flags
<1>2. /\ e \in Task /\ i \in Task /\ h \in Task /\ i # h
      /\ m \in DOMAIN read
      /\ pc[h] = "waiting" /\ ~Queued(ready, h)
      /\ pc[i] = "none" /\ ~Queued(ready, i)
  BY <1>1 DEF IInv, PlacesInv, MessageInv, QueueInv, Ended, Spawning
<1>3. /\ QueueOK'
      /\ \A u : Queued(ready', u) <=> (Queued(ready, u) /\ u # e) \/ u = i \/ u = h
      /\ \A u, v : Ahead(ready', u, v) <=>
                      \/ /\ Queued(ready, u) /\ u # e
                         /\ Ahead(ready, u, v) \/ v = i \/ v = h
                      \/ u = i /\ v = h
  BY <1>1, <1>2, ScheduleTwo
<1>4. \A t \in Task : pc'[t] = IF t = e THEN "done" ELSE IF t = i THEN "created" ELSE pc[t]
  BY <1>1, <1>2
<1>5. open /\ cancelled = {}
  BY <1>1, <1>2 DEF IInv, CloseInv, Unfinished
<1>6. TypeOK'
  BY <1>1, <1>2, <1>3 DEF IInv, TypeOK, QueueOK, PC
<1>7. PlacesInv'
  BY <1>1, <1>4 DEF IInv, PlacesInv, Ended
<1>8. MessageInv'
  BY <1>1, <1>2, <1>4 DEF IInv, MessageInv, Ended, Stages
<1>9. AnswersInv'
  BY <1>1, <1>4 DEF IInv, AnswersInv, RepliesDue
<1>10. RegistryInv'
  BY <1>1, <1>4 DEF IInv, RegistryInv
<1>11. QueueInv'
  <2>1. Unfinished' = (Unfinished \ {e}) \cup {i} /\ h \in Unfinished
    BY <1>1, <1>2, <1>4 DEF Unfinished
  <2>2. \A n \in Msg : pc'[Handle(n)] = "waiting" =>
           (Queued(ready', Handle(n)) <=> pc'[External(n)] \in Ended)
    BY <1>1, <1>2, <1>3, <1>4 DEF IInv, QueueInv, Ended
  <2>3. QED
    BY <1>2, <1>3, <1>4, <2>1, <2>2 DEF IInv, QueueInv, QueueOK
<1>12. HandlerFirstInv'
  BY <1>1, <1>2, <1>3, <1>4 DEF IInv, HandlerFirstInv
<1>13. CloseInv'
  BY <1>1, <1>4, <1>5 DEF IInv, CloseInv
<1>14. \A t \in Waiter : pc[t] \notin Stages \cup {"closed"}
  BY <1>1, <1>5 DEF IInv, HandlerFirstInv, CloseInv, MessageInv, PlacesInv, Stages
<1>15. WaitInv'
  <2>1. \A t \in Waiter : pc'[t] \notin Stages \cup {"closed"}
    BY <1>4, <1>14
  <2>2. \A t \in Waiter : \A u \in gathered[t] : pc'[u] # "none"
    BY <1>4 DEF IInv, WaitInv, TypeOK
  <2>3. QED
    BY <1>1, <2>1, <2>2 DEF WaitInv, Stages
<1>16. ShutdownLastInv'
  BY <1>4, <1>14 DEF ShutdownLastInv
<1>17. FlagInv'
  <2>1. \A n \in DOMAIN read : Holds(n)' <=> n = m
    BY <1>1, <1>2, <1>4 DEF Holds, IInv, FlagInv
  <2>2. importing' /\ m \in DOMAIN read'
    BY <1>1, <1>2
  <2>3. QED
    BY <1>1, <2>1, <2>2 DEF FlagInv
<1>18. QED
  BY <1>6, <1>7, <1>8, <1>9, <1>10, <1>11, <1>12, <1>13, <1>15, <1>16, <1>17 DEF IInv

(* The import ends, or is dropped before its first run.                    *)
LEMMA ImportEnds ==
  ASSUME IInv, NEW m \in Msg, DropImport(m) \/ FinishImport(m)
  PROVE  IInv'
<1> USE TaskNames, TaskSorts, StateFacts
<1> DEFINE i == Import(m)
<1>1. PICK how \in Ended :
         /\ Turn(i) /\ pc[i] \in {"created", "waiting"}
         /\ pc' = [pc EXCEPT ![i] = how]
         /\ registered' = IF how = "done" THEN registered \ {i} ELSE registered
         /\ cancelled' = cancelled \ {i}
         /\ importing' = (importing /\ how # "done")
         /\ Schedule(<<>>)
         /\ UNCHANGED <<wire, eof, read, active, open, gathered, answers>>
  BY DEF DropImport, FinishImport, Deregistered, stream, flags, Ended, IInv, TypeOK
<1>2. i \in Task /\ m \in DOMAIN read /\ read[m] = "import"
  BY <1>1 DEF IInv, PlacesInv, MessageInv
<1>3. /\ QueueOK'
      /\ \A u : Queued(ready', u) <=> Queued(ready, u) /\ u # i
      /\ \A u, v : Ahead(ready', u, v) <=> Ahead(ready, u, v) /\ u # i
  BY <1>1, ScheduleNone
<1>4. \A t \in Task : pc'[t] = IF t = i THEN how ELSE pc[t]
  BY <1>1, <1>2
<1>5. TypeOK'
  BY <1>1, <1>2, <1>3 DEF IInv, TypeOK, QueueOK, PC, Ended
<1>6. PlacesInv'
  BY <1>1, <1>4 DEF IInv, PlacesInv, Ended
<1>7. MessageInv'
  BY <1>1, <1>2, <1>4 DEF IInv, MessageInv, Ended, Stages
<1>8. AnswersInv'
  BY <1>1, <1>4 DEF IInv, AnswersInv, RepliesDue
<1>9. RegistryInv'
  BY <1>1, <1>4 DEF IInv, RegistryInv, Ended
<1>10. QueueInv'
  BY <1>1, <1>2, <1>3, <1>4 DEF IInv, QueueInv, Unfinished, QueueOK, Ended
<1>11. HandlerFirstInv'
  BY <1>1, <1>3, <1>4 DEF IInv, HandlerFirstInv, Ended
<1>12. CloseInv'
  BY <1>1, <1>4 DEF IInv, CloseInv, Unfinished, Ended
<1>13. WaitInv'
  BY <1>1, <1>3, <1>4 DEF IInv, WaitInv, Unfinished, Stages, Ended
<1>14. ShutdownLastInv'
  BY <1>1, <1>3, <1>4 DEF IInv, ShutdownLastInv, Stages, Ended
<1>15. FlagInv'
  <2>1. \A n \in DOMAIN read : Holds(n)' <=> Holds(n) /\ ~(n = m /\ how = "done")
    BY <1>1, <1>2, <1>4 DEF Holds, Ended, IInv, MessageInv
  <2>2. QED
    BY <1>1, <1>2, <2>1 DEF IInv, FlagInv, Holds
<1>16. QED
  BY <1>5, <1>6, <1>7, <1>8, <1>9, <1>10, <1>11, <1>12, <1>13, <1>14, <1>15 DEF IInv

(* _import_elements awaits its elements.                                   *)
LEMMA GatherElementsStep ==
  ASSUME IInv, NEW m \in Msg, GatherElements(m)
  PROVE  IInv'
<1> USE TaskNames, TaskSorts, StateFacts
<1> DEFINE i == Import(m)
<1>1. /\ Turn(i) /\ pc[i] = "created" /\ i \notin cancelled
      /\ pc' = [pc EXCEPT ![i] = "waiting"]
      /\ Schedule(<<>>)
      /\ UNCHANGED <<wire, eof, read, active, open, cancelled, registered, gathered,
                     importing, answers>>
  BY DEF GatherElements, stream, flags
<1>2. i \in Task /\ m \in DOMAIN read
  BY <1>1 DEF IInv, PlacesInv, MessageInv
<1>3. /\ QueueOK'
      /\ \A u : Queued(ready', u) <=> Queued(ready, u) /\ u # i
      /\ \A u, v : Ahead(ready', u, v) <=> Ahead(ready, u, v) /\ u # i
  BY <1>1, ScheduleNone
<1>4. \A t \in Task : pc'[t] = IF t = i THEN "waiting" ELSE pc[t]
  BY <1>1, <1>2
<1>5. TypeOK'
  BY <1>1, <1>2, <1>3 DEF IInv, TypeOK, QueueOK, PC
<1>6. PlacesInv'
  BY <1>1, <1>4 DEF IInv, PlacesInv
<1>7. MessageInv'
  BY <1>1, <1>2, <1>4 DEF IInv, MessageInv, Ended, Stages
<1>8. AnswersInv'
  BY <1>1, <1>4 DEF IInv, AnswersInv, RepliesDue
<1>9. RegistryInv'
  BY <1>1, <1>4 DEF IInv, RegistryInv
<1>10. QueueInv'
  BY <1>1, <1>2, <1>3, <1>4 DEF IInv, QueueInv, Unfinished, QueueOK, Ended
<1>11. HandlerFirstInv'
  BY <1>1, <1>3, <1>4 DEF IInv, HandlerFirstInv
<1>12. CloseInv'
  BY <1>1, <1>4 DEF IInv, CloseInv, Unfinished
<1>13. WaitInv'
  BY <1>1, <1>3, <1>4 DEF IInv, WaitInv, Unfinished, Stages
<1>14. ShutdownLastInv'
  BY <1>1, <1>3, <1>4 DEF IInv, ShutdownLastInv, Stages
<1>15. FlagInv'
  <2>1. \A n \in DOMAIN read : Holds(n)' <=> Holds(n)
    BY <1>1, <1>2, <1>4 DEF Holds
  <2>2. QED
    BY <1>1, <2>1 DEF IInv, FlagInv
<1>16. QED
  BY <1>5, <1>6, <1>7, <1>8, <1>9, <1>10, <1>11, <1>12, <1>13, <1>14, <1>15 DEF IInv

(* A tick loop or the teardown runs: it goes on, or ends.                  *)
LEMMA InternalStep ==
  ASSUME IInv, (\E m \in Msg : PassControl(m)) \/ RunTeardown
  PROVE  IInv'
<1> USE TaskNames, TaskSorts, StateFacts
<1>1. PICK t \in InternalTasks, stage \in {"waiting", "done"} :
         /\ Turn(t)
         /\ pc' = [pc EXCEPT ![t] = stage]
         /\ registered' = IF stage = "done" THEN registered \ {t} ELSE registered
         /\ Schedule(<<>>)
         /\ UNCHANGED <<wire, eof, read, active, open, cancelled, gathered, importing, answers>>
  <2>1. ASSUME NEW m \in Msg, PassControl(m)
        PROVE  LET t == Tick(m)
                   stage == IF KeepsTicking THEN "waiting" ELSE "done"
               IN  /\ Turn(t)
                   /\ pc' = [pc EXCEPT ![t] = stage]
                   /\ registered' = IF stage = "done" THEN registered \ {t} ELSE registered
                   /\ Schedule(<<>>)
                   /\ UNCHANGED <<wire, eof, read, active, open, cancelled, gathered,
                                  importing, answers>>
    BY <2>1 DEF PassControl, Deregistered, stream, flags
  <2>2. ASSUME RunTeardown
        PROVE  LET t == Teardown
                   stage == IF pc[t] = "created" THEN "waiting" ELSE "done"
               IN  /\ Turn(t)
                   /\ pc' = [pc EXCEPT ![t] = stage]
                   /\ registered' = IF stage = "done" THEN registered \ {t} ELSE registered
                   /\ Schedule(<<>>)
                   /\ UNCHANGED <<wire, eof, read, active, open, cancelled, gathered,
                                  importing, answers>>
    BY <2>2 DEF RunTeardown, Deregistered, stream, flags
  <2>3. QED
    BY <2>1, <2>2
<1>2. t \in Task /\ t[1] \in {"tick", "teardown"} /\ pc[t] \notin {"none", "done", "dropped", "closed"}
  BY <1>1, TurnFacts
<1>3. /\ QueueOK'
      /\ \A u : Queued(ready', u) <=> Queued(ready, u) /\ u # t
      /\ \A u, v : Ahead(ready', u, v) <=> Ahead(ready, u, v) /\ u # t
  BY <1>1, ScheduleNone
<1>4. \A u \in Task : pc'[u] = IF u = t THEN stage ELSE pc[u]
  BY <1>1, <1>2
<1>5. TypeOK'
  BY <1>1, <1>2, <1>3 DEF IInv, TypeOK, QueueOK, PC
<1>6. PlacesInv'
  <2>1. \A m \in Msg : /\ pc'[Handle(m)] = pc[Handle(m)]
                       /\ pc'[External(m)] = pc[External(m)]
                       /\ pc'[Import(m)] = pc[Import(m)]
                       /\ pc'[Tick(m)] \in {pc[Tick(m)], "waiting", "done"}
    BY <1>2, <1>4
  <2>2. /\ pc'[Main] = pc[Main]
        /\ pc'[Teardown] \in {pc[Teardown], "waiting", "done"}
        /\ pc'[Teardown] = "none" <=> pc[Teardown] = "none"
    BY <1>2, <1>4
  <2>3. QED
    BY <1>1, <2>1, <2>2 DEF IInv, PlacesInv
<1>7. MessageInv'
  BY <1>1, <1>2, <1>4 DEF IInv, MessageInv, Stages
<1>8. AnswersInv'
  BY <1>1, <1>2, <1>4 DEF IInv, AnswersInv, RepliesDue
<1>9. RegistryInv'
  BY <1>1, <1>2, <1>4 DEF IInv, RegistryInv
<1>10. QueueInv'
  BY <1>1, <1>2, <1>3, <1>4 DEF IInv, QueueInv, Unfinished, QueueOK
<1>11. HandlerFirstInv'
  BY <1>1, <1>2, <1>3, <1>4 DEF IInv, HandlerFirstInv
<1>12. CloseInv'
  <2>1. ExternalTasks \cap Unfinished' = ExternalTasks \cap Unfinished
    BY <1>2, <1>4 DEF Unfinished
  <2>2. QED
    BY <1>1, <1>4, <2>1 DEF IInv, CloseInv
<1>13. WaitInv'
  BY <1>1, <1>2, <1>3, <1>4 DEF IInv, WaitInv, Unfinished, Stages
<1>14. ShutdownLastInv'
  BY <1>1, <1>2, <1>3, <1>4 DEF IInv, ShutdownLastInv, Stages
<1>15. FlagInv'
  BY <1>1, <1>2, <1>4 DEF IInv, FlagInv, Holds
<1>16. QED
  BY <1>5, <1>6, <1>7, <1>8, <1>9, <1>10, <1>11, <1>12, <1>13, <1>14, <1>15 DEF IInv

(* A handler that is not the one of a shutdown request ends, and replies   *)
(* unless its message is a notification.                                   *)
LEMMA HandleEnds ==
  ASSUME IInv, NEW m \in Msg, FailHandle(m) \/ FinishHandle(m)
  PROVE  IInv'
<1> USE TaskNames, TaskSorts, StateFacts
<1> DEFINE h == Handle(m)
<1>1. /\ Turn(h)
      /\ \/ pc[h] = "created" /\ read[m] \in {"badParams", "misfit", "misfitNotify"}
         \/ pc[h] = "waiting"
      /\ pc' = [pc EXCEPT ![h] = "done"]
      /\ registered' = registered \ {h}
      /\ answers' = IF IsRequest(read[m]) THEN [answers EXCEPT ![m] = @ + 1] ELSE answers
      /\ Schedule(<<>>)
      /\ UNCHANGED <<wire, eof, read, active, open, cancelled, gathered, importing>>
  BY DEF FailHandle, FinishHandle, Deregistered, Outcome, Replied, stream, flags
<1>2. /\ h \in Task /\ Queued(ready, h)
      /\ m \in DOMAIN read
      /\ read[m] \in Spawning \cup {"badParams", "misfit", "misfitNotify"}
      /\ read[m] \in Spawning => pc[External(m)] \in Ended
  BY <1>1, TurnFacts DEF IInv, MessageInv, QueueInv, Spawning
<1>3. /\ QueueOK'
      /\ \A u : Queued(ready', u) <=> Queued(ready, u) /\ u # h
      /\ \A u, v : Ahead(ready', u, v) <=> Ahead(ready, u, v) /\ u # h
  BY <1>1, ScheduleNone
<1>4. \A t \in Task : pc'[t] = IF t = h THEN "done" ELSE pc[t]
  BY <1>1, <1>2
<1>5. AnswersInv' /\ answers' \in [Msg -> 0..2]
  <2>1. RepliesDue(m) = IF read[m] = "badParams" THEN 1 ELSE 0
    BY <1>1, <1>2 DEF RepliesDue, Inline, Spawning, Unanswered
  <2>2. RepliesDue(m)' = IF IsRequest(read[m]) THEN RepliesDue(m) + 1 ELSE 0
    BY <1>1, <1>2, <1>4, <2>1 DEF RepliesDue, Inline, Spawning, Unanswered, IsRequest
  <2>3. answers[m] = RepliesDue(m) /\ answers \in [Msg -> 0..2]
    BY DEF IInv, AnswersInv, TypeOK
  <2>4. answers'[m] = RepliesDue(m)'
    BY <1>1, <1>2, <2>1, <2>2, <2>3 DEF IsRequest
  <2>5. \A n \in Msg : n # m => answers'[n] = answers[n] /\ RepliesDue(n)' = RepliesDue(n)
    BY <1>1, <1>2, <1>4, <2>3 DEF RepliesDue
  <2>6. answers' \in [Msg -> 0..2]
    BY <1>1, <2>1, <2>3
  <2>7. QED
    BY <2>4, <2>5, <2>6 DEF IInv, AnswersInv
<1>6. TypeOK'
  BY <1>1, <1>2, <1>3, <1>5 DEF IInv, TypeOK, QueueOK, PC
<1>7. PlacesInv'
  BY <1>1, <1>4 DEF IInv, PlacesInv
<1>8. MessageInv'
  BY <1>1, <1>2, <1>4 DEF IInv, MessageInv, Stages, Spawning
<1>9. RegistryInv'
  BY <1>1, <1>4 DEF IInv, RegistryInv
<1>10. QueueInv'
  <2>1. \A t \in Task : Queued(ready', t) => t \in Unfinished'
    BY <1>3, <1>4 DEF IInv, QueueInv, Unfinished
  <2>2. \A t \in Task : pc'[t] = "created" => Queued(ready', t)
    BY <1>3, <1>4 DEF IInv, QueueInv
  <2>3. \A n \in Msg : pc'[Handle(n)] = "waiting" =>
           (Queued(ready', Handle(n)) <=> pc'[External(n)] \in Ended)
    BY <1>2, <1>3, <1>4 DEF IInv, QueueInv
  <2>4. QED
    BY <1>3, <2>1, <2>2, <2>3 DEF QueueInv, QueueOK
<1>11. HandlerFirstInv'
  <2>1. read[m] # "shutdown"
    BY <1>2 DEF Spawning
  <2>2. QED
    BY <1>1, <1>2, <1>3, <1>4, <2>1 DEF IInv, HandlerFirstInv
<1>12. CloseInv'
  <2>1. ExternalTasks \cap Unfinished' = ExternalTasks \cap Unfinished
    BY <1>4 DEF Unfinished
  <2>2. QED
    BY <1>1, <1>4, <2>1 DEF IInv, CloseInv
<1>13. WaitInv'
  BY <1>1, <1>3, <1>4 DEF IInv, WaitInv, Unfinished, Stages
<1>14. ShutdownLastInv'
  BY <1>1, <1>3, <1>4 DEF IInv, ShutdownLastInv, Stages
<1>15. FlagInv'
  BY <1>1, <1>4 DEF IInv, FlagInv, Holds
<1>16. QED
  BY <1>5, <1>6, <1>7, <1>8, <1>9, <1>10, <1>11, <1>12, <1>13, <1>14, <1>15 DEF IInv

(* A handler starts its external task and awaits it.                       *)
LEMMA StartHandleStep ==
  ASSUME IInv, NEW m \in Msg, StartHandle(m)
  PROVE  IInv'
<1> USE TaskNames, TaskSorts, StateFacts
<1> DEFINE e == External(m)
           h == Handle(m)
<1>1. /\ Turn(h) /\ pc[h] = "created" /\ read[m] \in Spawning
      /\ pc' = [pc EXCEPT ![h] = "waiting", ![e] = "created"]
      /\ registered' = registered \cup {e}
      /\ Schedule(<<e>>)
      /\ UNCHANGED <<wire, eof, read, active, open, cancelled, gathered, importing, answers>>
  BY DEF StartHandle, stream, flags, Spawning
<1>2. /\ e \in Task /\ h \in Task
      /\ m \in DOMAIN read
      /\ pc[e] = "none" /\ ~Queued(ready, e)
      /\ open /\ pc[Main] = "reading" /\ cancelled = {}
      /\ \A n \in Msg : pc[Handle(n)] = "created" => n = m
  BY <1>1 DEF IInv, MessageInv, HandlerFirstInv, CloseInv
<1>3. /\ QueueOK'
      /\ \A u : Queued(ready', u) <=> (Queued(ready, u) /\ u # h) \/ u = e
      /\ \A u, v : Ahead(ready', u, v) <=> /\ Queued(ready, u) /\ u # h
                                           /\ Ahead(ready, u, v) \/ v = e
  BY <1>1, <1>2, ScheduleOne
<1>4. \A t \in Task : pc'[t] = IF t = h THEN "waiting" ELSE IF t = e THEN "created" ELSE pc[t]
  BY <1>1, <1>2
<1>5. \A t \in Waiter : pc'[t] \notin Stages \cup {"closed"}
  BY <1>2, <1>4 DEF IInv, HandlerFirstInv, CloseInv, MessageInv, PlacesInv, Stages
<1>6. TypeOK'
  <2>1. pc' \in [Task -> PC]
    BY <1>1, <1>2 DEF PC
  <2>2. registered' \in SUBSET Managed
    BY <1>1 DEF IInv, TypeOK
  <2>3. QED
    BY <1>1, <1>3, <2>1, <2>2 DEF IInv, TypeOK, QueueOK
<1>7. PlacesInv'
  BY <1>1, <1>4 DEF IInv, PlacesInv
<1>8. MessageInv'
  BY <1>1, <1>2, <1>4 DEF IInv, MessageInv, Stages
<1>9. AnswersInv'
  BY <1>1, <1>4 DEF IInv, AnswersInv, RepliesDue
<1>10. RegistryInv'
  BY <1>1, <1>4 DEF IInv, RegistryInv
<1>11. QueueInv'
  <2>1. Unfinished' = Unfinished \cup {e} /\ h \in Unfinished
    BY <1>1, <1>2, <1>4 DEF Unfinished
  <2>2. \A n \in Msg : pc'[Handle(n)] = "waiting" =>
           (Queued(ready', Handle(n)) <=> pc'[External(n)] \in Ended)
    BY <1>1, <1>2, <1>3, <1>4 DEF IInv, QueueInv, Ended
  <2>3. QED
    BY <1>2, <1>3, <1>4, <2>1, <2>2 DEF IInv, QueueInv, QueueOK
<1>12. HandlerFirstInv'
  <2>1. read[m] # "shutdown"
    BY <1>1 DEF Spawning
  <2>2. QED
    BY <1>1, <1>2, <1>4, <2>1 DEF IInv, HandlerFirstInv
<1>13. CloseInv'
  BY <1>1, <1>2, <1>4 DEF IInv, CloseInv
<1>14. WaitInv'
  <2>1. \A t \in Waiter : \A u \in gathered[t] : pc'[u] # "none"
    BY <1>4 DEF IInv, WaitInv, TypeOK
  <2>2. QED
    BY <1>1, <1>5, <2>1 DEF WaitInv, Stages
<1>15. ShutdownLastInv'
  BY <1>5 DEF ShutdownLastInv
<1>16. FlagInv'
  BY <1>1, <1>2, <1>4 DEF IInv, FlagInv, Holds
<1>17. QED
  BY <1>6, <1>7, <1>8, <1>9, <1>10, <1>11, <1>12, <1>13, <1>14, <1>15, <1>16 DEF IInv

-----------------------------------------------------------------------------
(* When Main has its turn no handler is new; and while the plugin is open  *)
(* no shutdown message has been read.                                      *)
LEMMA MainTurn ==
  ASSUME IInv, Turn(Main)
  PROVE  /\ \A m \in Msg : pc[Handle(m)] # "created"
         /\ active => \A m \in DOMAIN read : read[m] # "shutdown"
  BY TurnFacts, StateFacts DEF IInv, HandlerFirstInv, CloseInv

(* Connection.run finds nothing to read.                                   *)
LEMMA ReadBlocksStep ==
  ASSUME IInv, ReadBlocks
  PROVE  IInv'
<1> USE TaskNames, TaskSorts, StateFacts
<1>1. /\ Turn(Main) /\ pc[Main] = "reading"
      /\ Schedule(<<>>)
      /\ UNCHANGED <<wire, eof, read, active, open, pc, cancelled, registered, gathered,
                     importing, answers>>
  BY DEF ReadBlocks, stream, flags
<1>2. /\ QueueOK'
      /\ \A u : Queued(ready', u) <=> Queued(ready, u) /\ u # Main
      /\ \A u, v : Ahead(ready', u, v) <=> Ahead(ready, u, v) /\ u # Main
  BY <1>1, ScheduleNone
<1>3. TypeOK'
  BY <1>1, <1>2 DEF IInv, TypeOK, QueueOK
<1>4. /\ PlacesInv' /\ MessageInv' /\ AnswersInv' /\ RegistryInv' /\ CloseInv' /\ FlagInv'
  BY <1>1 DEF IInv, PlacesInv, MessageInv, AnswersInv, RepliesDue, RegistryInv, CloseInv,
     FlagInv, Holds, Unfinished
<1>5. QueueInv' /\ WaitInv' /\ ShutdownLastInv'
  BY <1>1, <1>2 DEF IInv, QueueInv, WaitInv, ShutdownLastInv, Unfinished, QueueOK
<1>6. HandlerFirstInv'
  BY <1>1, MainTurn DEF IInv, HandlerFirstInv
<1>7. QED
  BY <1>3, <1>4, <1>5, <1>6 DEF IInv

(* Message m, of kind k, is taken from the stream: it is the next one, and *)
(* nothing has been done for it; no handler is new, and no shutdown        *)
(* message was read before.                                                *)
Taken(k, m) ==
    /\ m = NextMsg
    /\ m \notin DOMAIN read
    /\ DOMAIN read' = DOMAIN read \cup {m}
    /\ read'[m] = k
    /\ \A n \in DOMAIN read : read'[n] = read[n]
    /\ Len(read') = m
    /\ wire' \in Seq(Kind) /\ eof' \in BOOLEAN /\ read' \in Seq(Kind)
    /\ Len(read') + Len(wire') <= MaxMsgs
    /\ Turn(Main) /\ pc[Main] = "reading" /\ active /\ open
    /\ \A n \in Msg : pc[Handle(n)] # "created"
    /\ \A n \in DOMAIN read : read[n] # "shutdown"
    /\ pc[Handle(m)] = "none" /\ pc[External(m)] = "none"
    /\ pc[Import(m)] = "none" /\ pc[Tick(m)] = "none"
    /\ answers[m] = 0

(* Every step that reads a message takes one in this sense.                *)
LEMMA TakeFacts ==
  ASSUME IInv, NEW k, Take(k)
  PROVE  \E m \in Msg : Taken(k, m)
<1>0. PICK m : m = NextMsg
  OBVIOUS
<1>1. /\ wire \in Seq(Kind) /\ read \in Seq(Kind) /\ wire # <<>>
      /\ k \in Kind
      /\ wire' \in Seq(Kind) /\ Len(wire') = Len(wire) - 1
      /\ read' = Append(read, k) /\ read' \in Seq(Kind) /\ Len(read') = m
      /\ Len(wire) \in Nat \ {0}
  BY <1>0, HeadTailProperties, AppendProperties, EmptySeq DEF Take, IInv, TypeOK, NextMsg
<1>2. /\ DOMAIN read' = 1..m
      /\ DOMAIN read = 1..Len(read) /\ Len(read) \in Nat
      /\ read'[m] = k
      /\ \A n \in 1..Len(read) : read'[n] = read[n]
  BY <1>0, <1>1, LenProperties, AppendProperties DEF NextMsg
<1>3. /\ DOMAIN read' = DOMAIN read \cup {m} /\ m \notin DOMAIN read
      /\ m \in Msg
      /\ Len(read') + Len(wire') <= MaxMsgs
  BY <1>0, <1>1, <1>2, MaxMsgsAssumption DEF NextMsg, Msg, IInv, TypeOK
<1>4. /\ Turn(Main) /\ pc[Main] = "reading" /\ active /\ open /\ eof' \in BOOLEAN
  BY DEF Take, IInv, CloseInv, TypeOK
<1>5. /\ pc[Handle(m)] = "none" /\ pc[External(m)] = "none"
      /\ pc[Import(m)] = "none" /\ pc[Tick(m)] = "none"
      /\ answers[m] = 0
  BY <1>0, <1>3 DEF IInv, MessageInv, AnswersInv, RepliesDue
<1>6. /\ \A n \in Msg : pc[Handle(n)] # "created"
      /\ \A n \in DOMAIN read : read[n] # "shutdown"
  BY <1>4, MainTurn
<1>7. QED
  BY <1>0, <1>1, <1>2, <1>3, <1>4, <1>5, <1>6 DEF Taken

(* Message m of kind k is begun: what has to be replied at once is, and    *)
(* tasks are created for no other message.                                 *)
Begun(k, m) ==
    /\ answers' = IF k \in AtOnce THEN Replied(m) ELSE answers
    /\ pc'[Handle(m)] = IF k \in Inline THEN "none" ELSE "created"
    /\ pc'[Tick(m)] # "none" => k = "init"
    /\ \A n \in Msg : /\ pc'[External(n)] = pc[External(n)]
                      /\ pc'[Import(n)] = pc[Import(n)]
                      /\ n # m => pc'[Handle(n)] = pc[Handle(n)] /\ pc'[Tick(n)] = pc[Tick(n)]

(* A message that is begun keeps the tasks and the replies what they       *)
(* should be.                                                              *)
LEMMA TakenMessage ==
  ASSUME IInv, NEW k, NEW m \in Msg, Taken(k, m), Begun(k, m)
  PROVE  MessageInv' /\ AnswersInv' /\ answers' \in [Msg -> 0..2]
<1>1. /\ m \in Msg /\ m \notin DOMAIN read
      /\ DOMAIN read' = DOMAIN read \cup {m}
      /\ read'[m] = k
      /\ \A n \in DOMAIN read : read'[n] = read[n] /\ n \in Msg /\ n # m
      /\ pc[Handle(m)] = "none" /\ pc[External(m)] = "none"
      /\ pc[Import(m)] = "none" /\ pc[Tick(m)] = "none"
      /\ answers[m] = 0
  BY StateFacts DEF Taken
<1>2. MessageInv'
  BY <1>1 DEF IInv, MessageInv, Stages, Inline, Begun
<1>3. answers \in [Msg -> 0..2]
  BY DEF IInv, TypeOK
<1>4. answers'[m] = IF k \in AtOnce THEN 1 ELSE 0
  BY <1>1, <1>3 DEF Replied, Begun
<1>5. RepliesDue(m)' = IF k \in AtOnce THEN 1 ELSE 0
  <2>1. RepliesDue(m)' = IF k \in Unanswered THEN 0
                         ELSE IF k \in Inline THEN 1
                         ELSE (IF k = "badParams" THEN 1 ELSE 0) + 0
    BY <1>1 DEF RepliesDue, Begun
  <2>2. QED
    BY <2>1 DEF Inline, AtOnce, Unanswered
<1>6. \A n \in Msg : n # m => answers'[n] = answers[n] /\ RepliesDue(n)' = RepliesDue(n)
  BY <1>1, <1>3 DEF RepliesDue, Replied, Begun
<1>7. answers' \in [Msg -> 0..2]
  BY <1>1, <1>3 DEF Replied, Begun
<1>8. QED
  BY <1>2, <1>4, <1>5, <1>6, <1>7 DEF IInv, AnswersInv

(* What a step that reads message m of kind k does while the plugin is     *)
(* open: it creates the task of the message, if it has one, and Main goes  *)
(* on after it.                                                            *)
TaskFor(k, m) ==
    IF k = "init" THEN {Tick(m)} ELSE IF k \in Inline THEN {} ELSE {Handle(m)}

ReadEffect(k, m) ==
    /\ pc' = [t \in Task |-> IF t \in TaskFor(k, m) THEN "created" ELSE pc[t]]
    /\ registered' = registered \cup TaskFor(k, m)
    /\ answers' = IF k \in AtOnce THEN Replied(m) ELSE answers
    /\ UNCHANGED <<flags, cancelled, gathered, importing>>
    /\ QueueOK'
    /\ \A u : Queued(ready', u) <=> Queued(ready, u) \/ u \in TaskFor(k, m)
    /\ \A u, v : Ahead(ready, u, v) /\ u # Main => Ahead(ready', u, v)
    /\ \A u \in TaskFor(k, m) : Ahead(ready', u, Main)

(* A step that reads a message keeps the invariant.                        *)
LEMMA MessageRead ==
  ASSUME IInv, NEW k, NEW m \in Msg, Taken(k, m), ReadEffect(k, m)
  PROVE  IInv'
<1> USE TaskNames, TaskSorts, StateFacts
<1> DEFINE spawned == TaskFor(k, m)
<1>1. UNCHANGED <<active, open, cancelled, gathered, importing>>
  BY DEF flags, ReadEffect
<1>2. /\ \A t \in Task : pc'[t] = IF t \in spawned THEN "created" ELSE pc[t]
      /\ registered' = registered \cup spawned
      /\ spawned = IF k = "init" THEN {Tick(m)} ELSE IF k \in Inline THEN {} ELSE {Handle(m)}
      /\ spawned \subseteq Managed
  BY DEF ReadEffect, TaskFor
<1> HIDE DEF spawned
<1>3. /\ open /\ active /\ cancelled = {}
      /\ pc[Main] = "reading" /\ pc'[Main] = "reading"
      /\ \A t \in spawned : pc[t] = "none"
      /\ \A n \in Msg : pc[Handle(n)] # "created"
      /\ \A n \in DOMAIN read : read[n] # "shutdown"
  BY <1>2 DEF Taken, IInv, CloseInv
<1>4. \A t \in Waiter : pc[t] \notin Stages \cup {"closed"} /\ pc'[t] \notin Stages \cup {"closed"}
  BY <1>2, <1>3 DEF IInv, HandlerFirstInv, CloseInv, MessageInv, PlacesInv, Stages
<1>5. MessageInv' /\ AnswersInv' /\ answers' \in [Msg -> 0..2]
  <2>1. Begun(k, m)
    BY <1>2 DEF Begun, Taken, Inline, ReadEffect
  <2>2. QED
    BY <2>1, TakenMessage
<1>6. TypeOK'
  <2>1. pc' \in [Task -> PC]
    BY DEF PC, ReadEffect
  <2>2. registered' \in SUBSET Managed
    BY <1>2 DEF IInv, TypeOK
  <2>3. wire' \in Seq(Kind) /\ eof' \in BOOLEAN /\ read' \in Seq(Kind) /\ Len(read') + Len(wire') <= MaxMsgs
    BY DEF Taken
  <2>4. QED
    BY <1>1, <1>5, <2>1, <2>2, <2>3 DEF IInv, TypeOK, QueueOK, ReadEffect
<1>7. PlacesInv'
  BY <1>1, <1>2 DEF IInv, PlacesInv
<1>8. RegistryInv'
  BY <1>2, <1>3 DEF IInv, RegistryInv
<1>9. QueueInv'
  <2>1. Unfinished' = Unfinished \cup spawned
    BY <1>2, <1>3 DEF Unfinished
  <2>2. \A n \in Msg : pc'[Handle(n)] = "waiting" =>
           (Queued(ready', Handle(n)) <=> pc'[External(n)] \in Ended)
    BY <1>2 DEF IInv, QueueInv, ReadEffect, spawned
  <2>3. QED
    BY <1>2, <2>1, <2>2 DEF IInv, QueueInv, QueueOK, ReadEffect, spawned
<1>10. HandlerFirstInv'
  <2>1. ASSUME NEW n \in Msg, pc'[Handle(n)] = "created"
        PROVE  n = m /\ Ahead(ready', Handle(n), Main)
    BY <1>2, <1>3, <2>1 DEF ReadEffect, spawned
  <2>2. ASSUME NEW n \in DOMAIN read', read'[n] = "shutdown"
        PROVE  n = Len(read') /\ pc'[Handle(n)] = "created"
    BY <1>2, <1>3, <2>2 DEF Taken, Inline
  <2>3. QED
    BY <1>1, <1>3, <2>1, <2>2 DEF HandlerFirstInv
<1>11. CloseInv'
  BY <1>1, <1>3 DEF CloseInv
<1>12. WaitInv'
  <2>1. \A t \in Waiter : \A u \in gathered[t] : pc'[u] # "none"
    BY <1>2 DEF IInv, WaitInv, TypeOK
  <2>2. \A t \in Waiter : pc'[t] \notin {"external", "internal", "connection", "closed"}
    BY <1>4 DEF Stages
  <2>3. QED
    BY <1>1, <2>1, <2>2 DEF WaitInv, Stages
<1>13. ShutdownLastInv'
  BY <1>4 DEF ShutdownLastInv
<1>14. FlagInv'
  <2>1. \A n \in DOMAIN read : n \in Msg /\ (Holds(n)' <=> Holds(n))
    BY <1>2, <1>3 DEF Holds, Taken
  <2>2. ~Holds(m)'
    BY <1>2 DEF Holds, Taken
  <2>3. DOMAIN read' = DOMAIN read \cup {m}
    BY DEF Taken
  <2>4. QED
    BY <1>1, <2>1, <2>2, <2>3 DEF IInv, FlagInv
<1>15. QED
  BY <1>5, <1>6, <1>7, <1>8, <1>9, <1>10, <1>11, <1>12, <1>13, <1>14 DEF IInv

(* A message that is answered before the next one is read.                 *)
LEMMA PingStep ==
  ASSUME IInv, Ping \/ RejectNotification
  PROVE  IInv'
<1>1. PICK k \in {"ping", "badNotify"} :
         /\ Take(k)
         /\ answers' = Replied(NextMsg)
         /\ Schedule(<<Main>>)
         /\ UNCHANGED <<flags, pc, cancelled, registered, gathered, importing>>
  BY DEF Ping, RejectNotification
<1>2. PICK m \in Msg : Taken(k, m)
  BY <1>1, TakeFacts
<1>3. Turn(Main) /\ m = NextMsg
  BY <1>2 DEF Taken
<1>4. /\ QueueOK' /\ Queued(ready, Main)
      /\ \A u : Queued(ready', u) <=> (Queued(ready, u) /\ u # Main) \/ u = Main
      /\ \A u, v : Ahead(ready', u, v) <=> /\ Queued(ready, u) /\ u # Main
                                           /\ Ahead(ready, u, v) \/ v = Main
  BY <1>1, <1>3, ScheduleOne, TurnFacts, TaskSorts, StateFacts
<1>5. TaskFor(k, m) = {}
  BY DEF TaskFor, Inline
<1>6. ReadEffect(k, m)
  <2>1. pc' = [t \in Task |-> IF t \in {} THEN "created" ELSE pc[t]]
    BY <1>1, StateFacts
  <2>2. \A u, v : Ahead(ready, u, v) => Queued(ready, u)
    BY StateFacts
  <2>3. QED
    BY <1>1, <1>3, <1>4, <1>5, <2>1, <2>2 DEF ReadEffect, AtOnce
<1>7. QED
  BY <1>2, <1>6, MessageRead

(* A message is read that creates task x, which runs before Main does.     *)
LEMMA SpawnEffect ==
  ASSUME IInv, NEW k, NEW m \in Msg, Taken(k, m),
         NEW x \in Managed, TaskFor(k, m) = {x}, pc[x] = "none",
         pc' = [pc EXCEPT ![x] = "created"],
         registered' = registered \cup {x},
         answers' = IF k \in AtOnce THEN Replied(m) ELSE answers,
         Schedule(<<x, Main>>),
         UNCHANGED <<flags, cancelled, gathered, importing>>
  PROVE  ReadEffect(k, m)
<1>1. /\ Turn(Main) /\ Queued(ready, Main) /\ QueueOK
      /\ x \in Task /\ Main \in Task /\ x # Main /\ ~Queued(ready, x)
  BY TurnFacts, TaskSorts, StateFacts DEF Taken
<1>2. /\ QueueOK'
      /\ \A u : Queued(ready', u) <=> (Queued(ready, u) /\ u # Main) \/ u = x \/ u = Main
      /\ \A u, v : Ahead(ready', u, v) <=>
                      \/ /\ Queued(ready, u) /\ u # Main
                         /\ Ahead(ready, u, v) \/ v = x \/ v = Main
                      \/ u = x /\ v = Main
  BY <1>1, ScheduleTwo
<1>3. \A u, v : Ahead(ready, u, v) => Queued(ready, u)
  BY StateFacts
<1>4. pc' = [t \in Task |-> IF t \in {x} THEN "created" ELSE pc[t]]
  BY StateFacts
<1>5. QED
  BY <1>1, <1>2, <1>3, <1>4 DEF ReadEffect

(* initialize_cache is answered and starts a tick loop.                    *)
LEMMA InitializeCacheStep == IInv /\ InitializeCache => IInv'
<1> SUFFICES ASSUME IInv, InitializeCache
             PROVE  IInv'
  OBVIOUS
<1>1. PICK m \in Msg : Taken("init", m)
  BY TakeFacts DEF InitializeCache
<1>2. /\ m = NextMsg /\ pc[Tick(m)] = "none"
      /\ Tick(m) \in Managed /\ TaskFor("init", m) = {Tick(m)}
  BY <1>1, TaskSorts DEF Taken, TaskFor
<1>3. ReadEffect("init", m)
  BY <1>1, <1>2, SpawnEffect DEF InitializeCache, YieldTo, AtOnce
<1>4. QED
  BY <1>1, <1>3, MessageRead

(* A message gets a handler task of the connection.                        *)
LEMMA HandleInTaskStep ==
  ASSUME IInv, NEW k \in TaskKinds, HandleInTask(k)
  PROVE  IInv'
<1>1. PICK m \in Msg : Taken(k, m)
  BY TakeFacts DEF HandleInTask
<1>2. /\ m = NextMsg /\ pc[Handle(m)] = "none"
      /\ Handle(m) \in Managed /\ TaskFor(k, m) = {Handle(m)}
  BY <1>1, TaskSorts DEF Taken, TaskFor, TaskKinds, Inline
<1>3. ReadEffect(k, m)
  BY <1>1, <1>2, SpawnEffect DEF HandleInTask, YieldTo, TaskKinds, AtOnce
<1>4. QED
  BY <1>1, <1>3, MessageRead

-----------------------------------------------------------------------------
(* Task t goes on to the wait() of the manager `stage`, or is through, when*)
(* it looks at the managers from `from` on and regs is registered.         *)
Waits(t, from, regs, pcs, stage) ==
    /\ stage \in Stages \cup (IF t = Main THEN {"closed"} ELSE {"done"})
    /\ pc' = [pcs EXCEPT ![t] = stage]
    /\ registered' = IF stage \in Stages THEN regs ELSE regs \ {t}
    /\ gathered' = [gathered EXCEPT ![t] = regs \cap TasksOf(stage)]
    /\ stage = "external" => from = "external" /\ regs \cap ExternalTasks # {}
    /\ stage = "internal" => from # "connection" /\ regs \cap InternalTasks # {}
    /\ stage = "connection" => t = Main
    /\ stage # "external" /\ from = "external" => regs \cap ExternalTasks = {}
    /\ stage \notin {"external", "internal"} /\ from # "connection"
          => regs \cap InternalTasks = {}
    /\ stage = "closed" => regs \cap ConnectionTasks = {}

(* FirstBusy finds the first manager that is busy.                         *)
LEMMA WaitFromFacts ==
  ASSUME NEW t \in Waiter, NEW from \in Stages, NEW regs, NEW pcs,
         WaitFrom(t, from, regs, pcs)
  PROVE  \E stage \in Stages \cup {"closed", "done"} : Waits(t, from, regs, pcs, stage)
<1> DEFINE first == FirstBusy(t, from, regs)
           stage == IF first = "end" THEN (IF t = Main THEN "closed" ELSE "done") ELSE first
<1>1. /\ first \in Stages \cup {"end"}
      /\ first = "external" => from = "external" /\ regs \cap ExternalTasks # {}
      /\ first = "internal" => from # "connection" /\ regs \cap InternalTasks # {}
      /\ first = "connection" => t = Main
      /\ first # "external" /\ from = "external" => regs \cap ExternalTasks = {}
      /\ first \notin {"external", "internal"} /\ from # "connection"
            => regs \cap InternalTasks = {}
      /\ first = "end" /\ t = Main => regs \cap ConnectionTasks = {}
  BY DEF FirstBusy, Stages
<1>2. /\ pc' = [pcs EXCEPT ![t] = stage]
      /\ gathered' = [gathered EXCEPT ![t] = regs \cap TasksOf(first)]
      /\ registered' = IF first = "end" THEN regs \ {t} ELSE regs
  BY DEF WaitFrom
<1> HIDE DEF first
<1>3. TasksOf(first) = TasksOf(stage)
  BY <1>1 DEF TasksOf, Stages
<1>4. QED
  BY <1>1, <1>2, <1>3 DEF Waits, Stages

(* What is gathered, and its type.                                         *)
LEMMA WaitsGathers ==
  ASSUME IInv, NEW t \in Waiter, NEW from, NEW regs \in SUBSET Managed, NEW pcs, NEW stage,
         Waits(t, from, regs, pcs, stage)
  PROVE  /\ gathered' \in [Waiter -> SUBSET Managed]
         /\ registered' \in SUBSET Managed
         /\ \A w \in Waiter : w # t => gathered'[w] = gathered[w]
         /\ gathered'[t] \subseteq regs
         /\ stage = "external" => gathered'[t] = regs \cap ExternalTasks
  BY DEF Waits, IInv, TypeOK, TasksOf

(* No coroutine waits while the plugin is open.                            *)
LEMMA WaitersClosed ==
  ASSUME IInv, NEW w \in Waiter, pc[w] \in Stages \cup {"closed"}
  PROVE  ~open
  BY TaskNames, TaskSorts, StateFacts
     DEF IInv, HandlerFirstInv, CloseInv, MessageInv, PlacesInv, Stages, Inline

(* The parts of the state that close() and the first wait() change.        *)
Closed(t, stage) ==
    /\ stage \in Stages \cup {"closed", "done"}
    /\ Waits(t, "external", IF open THEN registered \cup {Teardown} ELSE registered,
             IF open THEN [pc EXCEPT ![Teardown] = "created"] ELSE pc, stage)
    /\ open => stage \in {"external", "internal"}
    /\ ~active' /\ ~open'
    /\ active' \in BOOLEAN /\ open' \in BOOLEAN
    /\ cancelled' = ExternalTasks \cap Unfinished
    /\ QueueOK'
    /\ \A u : Queued(ready', u) <=>
                 (Queued(ready, u) /\ u # t) \/ (open /\ u = Teardown)
    /\ \A u, v : Ahead(ready, u, v) /\ u # t => Ahead(ready', u, v)
    /\ \A u \in Task : pc'[u] = IF u = t THEN stage
                                ELSE IF u = Teardown /\ open THEN "created" ELSE pc[u]

(* close() and the wait()s that follow it have this effect.                *)
LEMMA CloseEffect ==
  ASSUME IInv, NEW t \in Waiter, Turn(t), CloseThenWait(t)
  PROVE  \E stage : Closed(t, stage)
<1> USE TaskNames, TaskSorts, StateFacts
<1>1. /\ Teardown \in Task /\ t \in Task /\ t # Teardown
      /\ FirstManager \in Stages /\ FirstManager = "external"
      /\ pc[Teardown] = "none" <=> open
      /\ open \in BOOLEAN
      /\ \A u, v : Ahead(ready, u, v) => Queued(ready, u)
  BY DEF FirstManager, Stages, IInv, PlacesInv, TypeOK
<1>2. CASE open
  <2> DEFINE regs == registered \cup {Teardown}
             pcs == [pc EXCEPT ![Teardown] = "created"]
  <2>1. /\ ~active' /\ ~open' /\ active' \in BOOLEAN /\ open' \in BOOLEAN
        /\ cancelled' = CancelExternals
        /\ WaitFrom(t, FirstManager, regs, pcs)
        /\ Schedule(<<Teardown>>)
    BY <1>2 DEF CloseThenWait
  <2>2. PICK stage \in Stages \cup {"closed", "done"} : Waits(t, "external", regs, pcs, stage)
    BY <1>1, <2>1, WaitFromFacts
  <2>3. stage \in {"external", "internal"}
    BY <2>2 DEF Waits
  <2>4. cancelled' = ExternalTasks \cap Unfinished
    BY <1>2, <2>1 DEF CancelExternals, IInv, CloseInv, RegistryInv, Unfinished
  <2>5. ~Queued(ready, Teardown)
    BY <1>1, <1>2
  <2>6. /\ QueueOK'
        /\ \A u : Queued(ready', u) <=> (Queued(ready, u) /\ u # t) \/ u = Teardown
        /\ \A u, v : Ahead(ready', u, v) <=> /\ Queued(ready, u) /\ u # t
                                             /\ Ahead(ready, u, v) \/ v = Teardown
    BY <1>1, <2>1, <2>5, ScheduleOne
  <2>7. \A u \in Task : pc'[u] = IF u = t THEN stage
                                 ELSE IF u = Teardown /\ open THEN "created" ELSE pc[u]
    BY <1>1, <1>2, <2>2 DEF Waits
  <2>8. QED
    BY <1>1, <1>2, <2>1, <2>2, <2>3, <2>4, <2>6, <2>7 DEF Closed
<1>3. CASE ~open
  <2>1. /\ ~active' /\ ~open' /\ active' \in BOOLEAN /\ open' \in BOOLEAN
        /\ cancelled' = cancelled
        /\ WaitFrom(t, FirstManager, registered, pc)
        /\ Schedule(<<>>)
    BY <1>3 DEF CloseThenWait
  <2>2. PICK stage \in Stages \cup {"closed", "done"} : Waits(t, "external", registered, pc, stage)
    BY <1>1, <2>1, WaitFromFacts
  <2>3. cancelled' = ExternalTasks \cap Unfinished
    BY <1>3, <2>1 DEF IInv, CloseInv
  <2>4. /\ QueueOK'
        /\ \A u : Queued(ready', u) <=> Queued(ready, u) /\ u # t
        /\ \A u, v : Ahead(ready', u, v) <=> Ahead(ready, u, v) /\ u # t
    BY <2>1, ScheduleNone
  <2>5. \A u \in Task : pc'[u] = IF u = t THEN stage ELSE pc[u]
    BY <1>1, <2>2 DEF Waits
  <2>6. QED
    BY <1>1, <1>3, <2>1, <2>2, <2>3, <2>4, <2>5 DEF Closed
<1>4. QED
  BY <1>1, <1>2, <1>3

(* Who closes the plugin: Main when it leaves the read loop, or the new    *)
(* handler of a shutdown message.  No other handler is new.                *)
Closes(t) ==
    /\ Turn(t)
    /\ \/ t = Main /\ pc[t] = "reading"
       \/ \E m \in DOMAIN read : t = Handle(m) /\ pc[t] = "created" /\ read[m] = "shutdown"
    /\ \A n \in Msg : pc[Handle(n)] = "created" => t = Handle(n)

(* The parts of the invariant that do not speak of the messages.           *)
LEMMA CloseStep ==
  ASSUME IInv, NEW t \in Waiter, Closes(t), NEW stage, Closed(t, stage)
  PROVE  /\ pc' \in [Task -> PC] /\ cancelled' \in SUBSET ExternalTasks
         /\ registered' \in SUBSET Managed /\ gathered' \in [Waiter -> SUBSET Managed]
         /\ PlacesInv' /\ RegistryInv' /\ QueueInv' /\ CloseInv' /\ WaitInv' /\ ShutdownLastInv'
<1> USE TaskNames, TaskSorts, StateFacts
<1> DEFINE regs == IF open THEN registered \cup {Teardown} ELSE registered
           pcs == IF open THEN [pc EXCEPT ![Teardown] = "created"] ELSE pc
<1>1. /\ t \in Task /\ t # Teardown /\ Teardown \in Managed
      /\ open \in BOOLEAN /\ pc[Teardown] = "none" <=> open
      /\ pc[t] \in {"reading", "created"}
  BY DEF Closes, IInv, TypeOK, PlacesInv
<1>2. /\ stage \in Stages \cup (IF t = Main THEN {"closed"} ELSE {"done"})
      /\ Waits(t, "external", regs, pcs, stage)
      /\ stage = "connection" => t = Main
  BY DEF Closed, Waits
<1>3. regs \in SUBSET Managed /\ registered \subseteq regs /\ regs \subseteq registered \cup {Teardown}
  BY DEF IInv, TypeOK
<1>4. \A u \in Task : pc'[u] = IF u = t THEN stage
                               ELSE IF u = Teardown /\ open THEN "created" ELSE pc[u]
  BY DEF Closed
<1>5. /\ ~open' /\ ~active' /\ active' = open'
      /\ cancelled' = ExternalTasks \cap Unfinished
      /\ ready' \in Seq(Task) /\ NoDuplicates(ready')
      /\ \A u : Queued(ready', u) <=> (Queued(ready, u) /\ u # t) \/ (open /\ u = Teardown)
      /\ \A u, v : Ahead(ready, u, v) /\ u # t => Ahead(ready', u, v)
  BY DEF Closed, QueueOK
<1>6. /\ registered' = IF stage \in Stages THEN regs ELSE regs \ {t}
      /\ stage # "external" => regs \cap ExternalTasks = {}
      /\ stage \notin {"external", "internal"} => regs \cap InternalTasks = {}
      /\ stage = "closed" => regs \cap ConnectionTasks = {}
  BY <1>2 DEF Waits
<1> HIDE DEF regs, pcs
<1>7. /\ gathered' \in [Waiter -> SUBSET Managed]
      /\ registered' \in SUBSET Managed
      /\ \A w \in Waiter : w # t => gathered'[w] = gathered[w]
      /\ gathered'[t] \subseteq regs
      /\ stage = "external" => gathered'[t] = regs \cap ExternalTasks
  BY <1>2, <1>3, WaitsGathers, Zenon
<1>8. pc' \in [Task -> PC]
  <2>1. pcs \in [Task -> PC] /\ stage \in PC
    BY <1>2 DEF pcs, PC, Stages
  <2>2. QED
    BY <1>2, <2>1 DEF Waits
<1>9. PlacesInv'
  <2>1. pc'[Main] \in {"reading", "closed"} \cup Stages
    BY <1>1, <1>2, <1>4 DEF IInv, PlacesInv
  <2>2. pc'[Teardown] \in {"created", "waiting", "done"}
    BY <1>1, <1>4 DEF IInv, PlacesInv
  <2>3. \A m \in Msg :
           pc'[Handle(m)] \in {"none", "created", "waiting", "external", "internal", "done"}
    BY <1>2, <1>4 DEF IInv, PlacesInv, Stages
  <2>4. \A m \in Msg :
          /\ pc'[External(m)] = pc[External(m)]
          /\ pc'[Import(m)] = pc[Import(m)]
          /\ pc'[Tick(m)] = pc[Tick(m)]
    BY <1>4 DEF Closes
  <2>5. QED
    BY <1>5, <2>1, <2>2, <2>3, <2>4 DEF IInv, PlacesInv
<1>10. regs = {u \in Managed : u = t \/ pc'[u] \notin {"none", "done"}} \ ({Main} \cap {t})
  BY <1>1, <1>4 DEF IInv, RegistryInv, regs
<1>11. RegistryInv'
  BY <1>2, <1>4, <1>6, <1>10 DEF RegistryInv, Stages
<1>12. /\ \A u \in ExternalTasks : pc'[u] = pc[u]
       /\ ExternalTasks \cap Unfinished' = ExternalTasks \cap Unfinished
  BY <1>4 DEF Unfinished, Closes
<1>13. QueueInv'
  <2>1. \A u \in Task : Queued(ready', u) => u \in Unfinished'
    BY <1>4, <1>5 DEF Unfinished
  <2>2. \A u \in Task : pc'[u] = "created" => Queued(ready', u)
    BY <1>2, <1>4, <1>5 DEF IInv, QueueInv, Stages
  <2>3. \A m \in Msg : pc'[Handle(m)] = "waiting" =>
           (Queued(ready', Handle(m)) <=> pc'[External(m)] \in Ended)
    BY <1>2, <1>4, <1>5, <1>12 DEF IInv, QueueInv, Stages
  <2>4. QED
    BY <1>5, <2>1, <2>2, <2>3 DEF QueueInv
<1>14. CloseInv'
  BY <1>5, <1>12 DEF CloseInv
<1>15. WaitInv'
  <2>1. /\ registered' \subseteq regs
        /\ ExternalTasks \cap Unfinished \subseteq regs
    BY <1>3, <1>6 DEF IInv, RegistryInv, Unfinished
  <2>2. \A w \in Waiter : \A u \in gathered'[w] : pc'[u] # "none"
    <3>1. \A u \in Task : pc[u] # "none" => pc'[u] # "none"
      BY <1>2, <1>4 DEF Stages
    <3>2. \A w \in Waiter : w # t => \A u \in gathered'[w] : u \in Task /\ pc[u] # "none"
      BY <1>7 DEF IInv, WaitInv, TypeOK
    <3>3. \A u \in regs : u \in Task /\ pc'[u] # "none"
      BY <1>2, <1>4, <1>10 DEF Stages
    <3>4. QED
      BY <1>7, <3>1, <3>2, <3>3
  <2>3. ASSUME NEW w \in Waiter, w # t, pc'[w] \in Stages \cup {"closed"}
        PROVE  /\ ~open /\ pc'[w] = pc[w] /\ regs = registered
               /\ Queued(ready', w) => Queued(ready, w)
               /\ Unfinished' \subseteq Unfinished \cup {t}
    <3>1. pc'[w] = pc[w]
      BY <1>4, <2>3
    <3>2. ~open
      BY <2>3, <3>1, WaitersClosed
    <3>3. QED
      BY <1>1, <1>4, <1>5, <3>1, <3>2 DEF regs, Unfinished
  <2>4. ASSUME NEW w \in Waiter, w # t, pc'[w] \in Stages, Queued(ready', w)
        PROVE  gathered'[w] \cap Unfinished' = {}
    <3>1. t \in Unfinished
      BY <1>1 DEF Unfinished
    <3>2. QED
      BY <1>7, <2>3, <2>4, <3>1 DEF IInv, WaitInv
  <2>5. ASSUME NEW w \in Waiter, w # t
        PROVE  /\ pc'[w] \in {"internal", "connection", "closed"} => registered' \cap ExternalTasks = {}
               /\ pc'[w] \in {"connection", "closed"} => registered' \cap InternalTasks = {}
               /\ pc'[w] = "closed" => registered' \cap ConnectionTasks = {}
               /\ pc'[w] = "external" => ExternalTasks \cap Unfinished' \subseteq gathered'[w]
    BY <1>7, <1>12, <2>1, <2>3, <2>5 DEF IInv, WaitInv, Stages
  <2>6. /\ pc'[t] = stage /\ ~Queued(ready', t)
        /\ stage \in {"internal", "connection", "closed"} => registered' \cap ExternalTasks = {}
        /\ stage \in {"connection", "closed"} => registered' \cap InternalTasks = {}
        /\ stage = "closed" => registered' \cap ConnectionTasks = {}
        /\ stage = "external" => ExternalTasks \cap Unfinished' \subseteq gathered'[t]
    BY <1>1, <1>4, <1>5, <1>6, <1>7, <1>12, <2>1
  <2>7. QED
    BY <2>2, <2>4, <2>5, <2>6 DEF WaitInv
<1>16. ShutdownLastInv'
  <2>1. ASSUME NEW m \in Msg, NEW n \in Msg, pc'[Handle(m)] \in Stages,
               Queued(ready', Handle(m)), pc'[Handle(n)] = "waiting"
        PROVE  Ahead(ready', Handle(n), Handle(m))
    <3>1. Handle(m) # t /\ Handle(n) # t
      BY <1>2, <1>4, <1>5, <2>1 DEF Stages
    <3>2. pc[Handle(m)] \in Stages /\ Queued(ready, Handle(m)) /\ pc[Handle(n)] = "waiting"
      BY <1>4, <1>5, <2>1, <3>1
    <3>3. Ahead(ready, Handle(n), Handle(m))
      BY <3>2 DEF IInv, ShutdownLastInv
    <3>4. QED
      BY <1>5, <3>1, <3>3
  <2>2. QED
    BY <2>1 DEF ShutdownLastInv
<1>17. QED
  BY <1>5, <1>7, <1>8, <1>9, <1>11, <1>13, <1>14, <1>15, <1>16

(* The rest of the invariant, when the messages and their tasks are as     *)
(* they should be.                                                         *)
LEMMA CloseKeepsInv ==
  ASSUME IInv, NEW t \in Waiter, Closes(t), NEW stage, Closed(t, stage),
         MessageInv', AnswersInv', answers' \in [Msg -> 0..2], UNCHANGED importing,
         wire' \in Seq(Kind), eof' \in BOOLEAN, read' \in Seq(Kind),
         Len(read') + Len(wire') <= MaxMsgs,
         \A n \in DOMAIN read' : n \in Msg /\ (read'[n] = "shutdown" => n = Len(read')),
         \A n \in DOMAIN read : n \in DOMAIN read' /\ read'[n] = read[n]
  PROVE  IInv'
<1> USE TaskNames, TaskSorts, StateFacts
<1>1. /\ pc' \in [Task -> PC] /\ cancelled' \in SUBSET ExternalTasks
      /\ registered' \in SUBSET Managed /\ gathered' \in [Waiter -> SUBSET Managed]
      /\ PlacesInv' /\ RegistryInv' /\ QueueInv' /\ CloseInv' /\ WaitInv' /\ ShutdownLastInv'
  BY CloseStep
<1>2. /\ active' \in BOOLEAN /\ open' \in BOOLEAN /\ ~open'
      /\ ready' \in Seq(Task)
      /\ stage # "created"
      /\ \A u \in Task : pc'[u] = IF u = t THEN stage
                                  ELSE IF u = Teardown /\ open THEN "created" ELSE pc[u]
  BY DEF Closed, QueueOK, Stages
<1>3. TypeOK'
  BY <1>1, <1>2 DEF IInv, TypeOK
<1>4. HandlerFirstInv'
  <2>1. \A m \in Msg : pc'[Handle(m)] # "created"
    BY <1>2 DEF Closes
  <2>2. QED
    BY <1>2, <2>1 DEF HandlerFirstInv
<1>5. FlagInv'
  <2>1. /\ \A u \in ExternalTasks : pc'[u] = pc[u]
        /\ importing' = importing
    <3>1. \A u \in ExternalTasks : u \in Task /\ u # t /\ u # Teardown
      OBVIOUS
    <3>2. QED
      BY <1>2, <3>1
  <2>2. \A n \in DOMAIN read : n \in DOMAIN read' /\ (Holds(n)' <=> Holds(n))
    BY <2>1 DEF Holds
  <2>3. \A n \in DOMAIN read' : Holds(n)' => n \in DOMAIN read
    BY <2>1 DEF Holds, IInv, MessageInv
  <2>4. QED
    BY <2>1, <2>2, <2>3 DEF IInv, FlagInv
<1>6. QED
  BY <1>1, <1>3, <1>4, <1>5 DEF IInv

(* The read loop ends.                                                     *)
LEMMA LeaveRunStep == IInv /\ LeaveRun => IInv'
<1> SUFFICES ASSUME IInv, LeaveRun
             PROVE  IInv'
  OBVIOUS
<1> USE TaskNames, TaskSorts, StateFacts
<1>1. /\ Turn(Main) /\ pc[Main] = "reading" /\ CloseThenWait(Main)
      /\ UNCHANGED <<wire, eof, read, importing, answers>>
  BY DEF LeaveRun, stream
<1>2. Closes(Main)
  BY <1>1, MainTurn DEF Closes
<1>3. PICK stage : Closed(Main, stage)
  BY <1>1, CloseEffect
<1>4. \A m \in Msg : /\ pc'[Handle(m)] = pc[Handle(m)]
                     /\ pc'[External(m)] = pc[External(m)]
                     /\ pc'[Import(m)] = pc[Import(m)]
                     /\ pc'[Tick(m)] = pc[Tick(m)]
  BY <1>3 DEF Closed
<1>5. MessageInv' /\ AnswersInv'
  BY <1>1, <1>4 DEF IInv, MessageInv, AnswersInv, RepliesDue
<1>6. QED
  BY <1>1, <1>2, <1>3, <1>5, CloseKeepsInv DEF IInv, TypeOK, HandlerFirstInv

(* A message read raises out of the read loop.                             *)
LEMMA RunFailsStep ==
  ASSUME IInv, NEW k \in {"badPing", "fatal"}, RunFails(k)
  PROVE  IInv'
<1> USE TaskNames, TaskSorts, StateFacts
<1>1. PICK m \in Msg : Taken(k, m)
  BY TakeFacts DEF RunFails
<1>2. /\ Turn(Main) /\ pc[Main] = "reading" /\ CloseThenWait(Main)
      /\ answers' = (IF k \in AtOnce THEN Replied(m) ELSE answers) /\ UNCHANGED importing
      /\ \A n \in Msg : pc[Handle(n)] # "created"
  BY <1>1 DEF RunFails, Taken, AtOnce
<1>3. Closes(Main)
  BY <1>2 DEF Closes
<1>4. PICK stage : Closed(Main, stage)
  BY <1>2, CloseEffect
<1>5. \A n \in Msg : /\ pc'[Handle(n)] = pc[Handle(n)]
                     /\ pc'[External(n)] = pc[External(n)]
                     /\ pc'[Import(n)] = pc[Import(n)]
                     /\ pc'[Tick(n)] = pc[Tick(n)]
  BY <1>4 DEF Closed
<1>6. Begun(k, m)
  BY <1>1, <1>2, <1>5 DEF Begun, Taken, Inline
<1>7. MessageInv' /\ AnswersInv' /\ answers' \in [Msg -> 0..2]
  BY <1>1, <1>6, TakenMessage
<1>8. /\ wire' \in Seq(Kind) /\ eof' \in BOOLEAN /\ read' \in Seq(Kind)
      /\ Len(read') + Len(wire') <= MaxMsgs
      /\ \A n \in DOMAIN read' : n \in Msg /\ (read'[n] = "shutdown" => n = Len(read'))
      /\ \A n \in DOMAIN read : n \in DOMAIN read' /\ read'[n] = read[n]
  BY <1>1 DEF Taken
<1>9. QED
  BY <1>2, <1>3, <1>4, <1>7, <1>8, CloseKeepsInv

(* The handler of the shutdown request closes the plugin.  While external  *)
(* tasks or the teardown are unfinished it waits, so it never replies here.*)
LEMMA ShutdownStep ==
  ASSUME IInv, NEW m \in Msg, Shutdown(m)
  PROVE  IInv'
<1> USE TaskNames, TaskSorts, StateFacts
<1> DEFINE h == Handle(m)
<1>1. /\ Turn(h) /\ pc[h] = "created" /\ read[m] = "shutdown"
      /\ CloseThenWait(h) /\ ReplyIfDone(h)
      /\ UNCHANGED <<wire, eof, read, importing>>
  BY DEF Shutdown, stream
<1>2. /\ open /\ m \in DOMAIN read
      /\ \A n \in Msg : pc[Handle(n)] = "created" => n = m
  BY <1>1 DEF IInv, HandlerFirstInv, MessageInv
<1>3. Closes(h) /\ h \in Waiter
  BY <1>1, <1>2 DEF Closes
<1>4. PICK stage : Closed(h, stage)
  BY <1>1, <1>3, CloseEffect
<1>5. /\ stage \in {"external", "internal"}
      /\ \A u \in Task : pc'[u] = IF u = h THEN stage
                                  ELSE IF u = Teardown /\ open THEN "created" ELSE pc[u]
  BY <1>2, <1>4 DEF Closed
<1>6. answers' = answers
  BY <1>1, <1>3, <1>5 DEF ReplyIfDone
<1>7. MessageInv'
  BY <1>1, <1>2, <1>5 DEF IInv, MessageInv, Stages, Inline, Spawning
<1>8. AnswersInv'
  BY <1>1, <1>5, <1>6 DEF IInv, AnswersInv, RepliesDue
<1>9. QED
  BY <1>1, <1>3, <1>4, <1>6, <1>7, <1>8, CloseKeepsInv DEF IInv, TypeOK, HandlerFirstInv

(* gather() is complete: the coroutine goes on to the next manager that is *)
(* busy, or is through.                                                    *)
LEMMA ResumeWaitStep ==
  ASSUME IInv, NEW t \in Waiter, ResumeWait(t)
  PROVE  IInv'
<1> USE TaskNames, TaskSorts, StateFacts
<1>1. /\ Turn(t) /\ pc[t] \in Stages
      /\ WaitFrom(t, pc[t], registered, pc)
      /\ ReplyIfDone(t)
      /\ Schedule(<<>>)
      /\ UNCHANGED <<wire, eof, read, active, open, cancelled, importing>>
  BY DEF ResumeWait, stream, flags, Stages
<1>2. PICK stage \in Stages \cup {"closed", "done"} : Waits(t, pc[t], registered, pc, stage)
  BY <1>1, WaitFromFacts
<1>3. /\ stage \in Stages \cup (IF t = Main THEN {"closed"} ELSE {"done"})
      /\ registered' = IF stage \in Stages THEN registered ELSE registered \ {t}
      /\ stage = "connection" => t = Main
      /\ \A u \in Task : pc'[u] = IF u = t THEN stage ELSE pc[u]
  BY <1>2 DEF Waits
<1>4. /\ QueueOK' /\ Queued(ready, t) /\ ~open
      /\ \A u : Queued(ready', u) <=> Queued(ready, u) /\ u # t
      /\ \A u, v : Ahead(ready', u, v) <=> Ahead(ready, u, v) /\ u # t
  BY <1>1, ScheduleNone, TurnFacts, WaitersClosed
<1>5. /\ \A m \in Msg : /\ pc'[External(m)] = pc[External(m)]
                        /\ pc'[Import(m)] = pc[Import(m)]
                        /\ pc'[Tick(m)] = pc[Tick(m)]
      /\ pc'[Teardown] = pc[Teardown]
      /\ \A u \in ExternalTasks : pc'[u] = pc[u]
      /\ ExternalTasks \cap Unfinished' = ExternalTasks \cap Unfinished
  <2>1. \A u \in ExternalTasks \cup InternalTasks : u \in Task /\ u # t
    OBVIOUS
  <2>2. QED
    BY <1>3, <2>1 DEF Unfinished
<1>6. registered \in SUBSET Managed
  BY DEF IInv, TypeOK
<1>7. /\ gathered' \in [Waiter -> SUBSET Managed]
      /\ registered' \in SUBSET Managed
      /\ \A w \in Waiter : w # t => gathered'[w] = gathered[w]
      /\ gathered'[t] \subseteq registered
      /\ stage = "external" => gathered'[t] = registered \cap ExternalTasks
  <2>1. registered' \in SUBSET Managed
    BY <1>3, <1>6
  <2>2. gathered' = [gathered EXCEPT ![t] = registered \cap TasksOf(stage)]
    BY <1>2 DEF Waits
  <2>3. gathered \in [Waiter -> SUBSET Managed]
    BY DEF IInv, TypeOK
  <2>4. TasksOf("external") = ExternalTasks
    BY DEF TasksOf
  <2>5. registered \cap TasksOf(stage) \in SUBSET Managed
    BY <1>6
  <2>6. QED
    BY <2>1, <2>2, <2>3, <2>4, <2>5
<1>8. MessageInv'
  BY <1>1, <1>3, <1>5 DEF IInv, MessageInv, Stages, Spawning
<1>9. AnswersInv' /\ answers' \in [Msg -> 0..2]
  <2>1. CASE \E m \in Msg : t = Handle(m) /\ stage = "done"
    <3>1. PICK m \in Msg : t = Handle(m) /\ stage = "done"
      BY <2>1
    <3>2. /\ read[m] = "shutdown" /\ m \in DOMAIN read
          /\ pc[Handle(m)] \in Stages /\ pc'[Handle(m)] = "done"
      BY <1>1, <1>3, <3>1 DEF IInv, MessageInv, Stages
    <3>3. answers' = Replied(m) /\ answers \in [Msg -> 0..2]
      BY <1>1, <3>1, <3>2 DEF ReplyIfDone, IInv, TypeOK
    <3>4. RepliesDue(m) = 0 /\ RepliesDue(m)' = 1 /\ answers[m] = 0
      BY <1>1, <3>2 DEF RepliesDue, Inline, Unanswered, Stages, IInv, AnswersInv
    <3>5. \A n \in Msg : n # m => RepliesDue(n)' = RepliesDue(n)
      BY <1>1, <1>3, <3>1 DEF RepliesDue
    <3>6. QED
      BY <3>3, <3>4, <3>5 DEF Replied, IInv, AnswersInv
  <2>2. CASE ~\E m \in Msg : t = Handle(m) /\ stage = "done"
    <3>1. answers' = answers
      <4>1. ~(t # Main /\ pc'[t] = "done")
        BY <1>3, <2>2 DEF Waiter, ConnectionTasks
      <4>2. QED
        BY <1>1, <4>1 DEF ReplyIfDone
    <3>2. \A m \in Msg : (pc'[Handle(m)] = "done") <=> (pc[Handle(m)] = "done")
      BY <1>1, <1>3, <2>2 DEF Stages
    <3>3. \A m \in Msg : RepliesDue(m)' = RepliesDue(m)
      BY <1>1, <3>2 DEF RepliesDue
    <3>4. QED
      BY <3>1, <3>3 DEF IInv, AnswersInv, TypeOK
  <2>3. QED
    BY <2>1, <2>2
<1>10. TypeOK'
  <2>1. stage \in PC
    BY <1>3 DEF PC, Stages
  <2>2. pc' \in [Task -> PC]
    BY <1>2, <2>1 DEF Waits
  <2>3. QED
    BY <1>1, <1>4, <1>7, <1>9, <2>2 DEF IInv, TypeOK, QueueOK
<1>11. PlacesInv'
  <2>1. pc'[Main] \in {"reading", "closed"} \cup Stages
    BY <1>3 DEF IInv, PlacesInv
  <2>2. \A m \in Msg :
           pc'[Handle(m)] \in {"none", "created", "waiting", "external", "internal", "done"}
    BY <1>3 DEF IInv, PlacesInv, Stages
  <2>3. QED
    BY <1>1, <1>5, <2>1, <2>2 DEF IInv, PlacesInv
<1>12. RegistryInv'
  BY <1>1, <1>3 DEF IInv, RegistryInv, Stages
<1>13. QueueInv'
  <2>1. Unfinished' \cup {t} = Unfinished
    BY <1>1, <1>3 DEF Unfinished, Stages
  <2>2. \A u \in Task : pc'[u] = "created" => Queued(ready', u)
    BY <1>3, <1>4 DEF IInv, QueueInv, Stages
  <2>3. \A m \in Msg : pc'[Handle(m)] = "waiting" =>
           (Queued(ready', Handle(m)) <=> pc'[External(m)] \in Ended)
    BY <1>1, <1>3, <1>4, <1>5 DEF IInv, QueueInv, Stages
  <2>4. QED
    BY <1>4, <2>1, <2>2, <2>3 DEF IInv, QueueInv, QueueOK
<1>14. HandlerFirstInv'
  <2>1. \A m \in Msg : pc'[Handle(m)] # "created"
    BY <1>3, <1>4 DEF IInv, HandlerFirstInv, Stages
  <2>2. QED
    BY <1>1, <1>4, <2>1 DEF IInv, HandlerFirstInv
<1>15. CloseInv'
  BY <1>1, <1>4, <1>5 DEF IInv, CloseInv
<1>16. WaitInv'
  <2>1. registered' \subseteq registered
    BY <1>3
  <2>2. \A w \in Waiter : \A u \in gathered'[w] : pc'[u] # "none"
    <3>1. \A u \in Task : pc[u] # "none" => pc'[u] # "none"
      BY <1>3 DEF Stages
    <3>2. \A w \in Waiter : w # t => \A u \in gathered'[w] : u \in Task /\ pc[u] # "none"
      BY <1>7 DEF IInv, WaitInv, TypeOK
    <3>3. \A u \in registered : u \in Task /\ pc[u] # "none"
      BY DEF IInv, RegistryInv
    <3>4. QED
      BY <1>7, <3>1, <3>2, <3>3
  <2>3. Unfinished' \subseteq Unfinished
    BY <1>1, <1>3 DEF Unfinished, Stages
  <2>4. ASSUME NEW w \in Waiter, w # t
        PROVE  /\ pc'[w] \in {"internal", "connection", "closed"} => registered' \cap ExternalTasks = {}
               /\ pc'[w] \in {"connection", "closed"} => registered' \cap InternalTasks = {}
               /\ pc'[w] = "closed" => registered' \cap ConnectionTasks = {}
               /\ pc'[w] = "external" => ExternalTasks \cap Unfinished' \subseteq gathered'[w]
               /\ pc'[w] \in Stages /\ Queued(ready', w) => gathered'[w] \cap Unfinished' = {}
    <3>1. pc'[w] = pc[w] /\ gathered'[w] = gathered[w] /\ (Queued(ready', w) => Queued(ready, w))
      BY <1>3, <1>4, <1>7, <2>4
    <3>2. QED
      BY <1>5, <2>1, <2>3, <3>1 DEF IInv, WaitInv
  <2>5. /\ stage \in {"internal", "connection", "closed"} => registered \cap ExternalTasks = {}
        /\ stage \in {"connection", "closed"} => registered \cap InternalTasks = {}
        /\ stage = "closed" => registered \cap ConnectionTasks = {}
    BY <1>1, <1>2 DEF Waits, IInv, WaitInv, Stages
  <2>6. stage = "external" => ExternalTasks \cap Unfinished' \subseteq gathered'[t]
    BY <1>5, <1>7 DEF IInv, RegistryInv, Unfinished
  <2>7. QED
    BY <1>3, <1>4, <2>1, <2>2, <2>4, <2>5, <2>6 DEF WaitInv
<1>17. ShutdownLastInv'
  <2>1. ASSUME NEW m \in Msg, NEW n \in Msg, pc'[Handle(m)] \in Stages,
               Queued(ready', Handle(m)), pc'[Handle(n)] = "waiting"
        PROVE  Ahead(ready', Handle(n), Handle(m))
    <3>1. Handle(m) # t /\ Handle(n) # t
      BY <1>3, <1>4, <2>1 DEF Stages
    <3>2. pc[Handle(m)] \in Stages /\ Queued(ready, Handle(m)) /\ pc[Handle(n)] = "waiting"
      BY <1>3, <1>4, <2>1, <3>1
    <3>3. Ahead(ready, Handle(n), Handle(m))
      BY <3>2 DEF IInv, ShutdownLastInv
    <3>4. QED
      BY <1>4, <3>1, <3>3
  <2>2. QED
    BY <2>1 DEF ShutdownLastInv
<1>18. FlagInv'
  BY <1>1, <1>5 DEF IInv, FlagInv, Holds
<1>19. QED
  BY <1>8, <1>9, <1>10, <1>11, <1>12, <1>13, <1>14, <1>15, <1>16, <1>17, <1>18 DEF IInv

-----------------------------------------------------------------------------
(* The ways in which an external task ends and wakes its handler.          *)
LEMMA ExternalEndsStep ==
  ASSUME IInv, NEW m \in Msg,
         DropExternal(m) \/ CancelExternal(m) \/ RefuseImport(m) \/ FinishExternal(m)
  PROVE  IInv'
<1>1. importing \in BOOLEAN
  BY DEF IInv, TypeOK
<1>2. CASE DropExternal(m)
  <2>1. /\ "dropped" \in Ended /\ Turn(External(m))
        /\ pc' = [pc EXCEPT ![External(m)] = "dropped"]
        /\ registered' = IF "dropped" = "done" THEN registered \ {External(m)} ELSE registered
        /\ cancelled' = cancelled \ {External(m)}
        /\ importing' <=> importing /\ ~(read[m] = "import" /\ pc[External(m)] = "waiting")
        /\ Schedule(<<Handle(m)>>)
        /\ UNCHANGED <<stream, flags, gathered, answers>>
    BY <1>2 DEF DropExternal, Ended
  <2>2. QED
    BY <2>1, ExternalEnds
<1>3. ASSUME CancelExternal(m) \/ RefuseImport(m) \/ FinishExternal(m)
      PROVE  IInv'
  <2>1. /\ "done" \in Ended /\ Turn(External(m))
        /\ pc' = [pc EXCEPT ![External(m)] = "done"]
        /\ registered' = IF "done" = "done" THEN registered \ {External(m)} ELSE registered
        /\ Schedule(<<Handle(m)>>)
        /\ UNCHANGED <<stream, flags, gathered, answers>>
    BY <1>3 DEF CancelExternal, RefuseImport, FinishExternal, ExternalRuns, Ended, Deregistered
  <2>2. cancelled' = cancelled \ {External(m)}
    BY <1>3 DEF CancelExternal, RefuseImport, FinishExternal, ExternalRuns
  <2>3. importing' <=> importing /\ ~(read[m] = "import" /\ pc[External(m)] = "waiting")
    BY <1>1, <1>3 DEF CancelExternal, RefuseImport, FinishExternal, ExternalRuns, FlagAfter
  <2>4. QED
    BY <2>1, <2>2, <2>3, ExternalEnds
<1>4. QED
  BY <1>2, <1>3

(* The invariant holds when the plugin starts.                             *)
LEMMA InitIInv == Init => IInv
<1> SUFFICES ASSUME Init
             PROVE  IInv
  OBVIOUS
<1> USE TaskNames, TaskSorts
<1>1. /\ ready = <<Main>> /\ ready \in Seq(Task) /\ Len(ready) = 1
      /\ read = <<>> /\ wire = <<>> /\ active /\ open /\ ~importing /\ ~eof
      /\ active \in BOOLEAN /\ open \in BOOLEAN /\ importing \in BOOLEAN /\ eof \in BOOLEAN
      /\ \A t \in Task : pc[t] = IF t = Main THEN "reading" ELSE "none"
      /\ pc \in [Task -> PC]
      /\ cancelled = {} /\ registered = {}
      /\ gathered = [t \in Waiter |-> {}] /\ answers = [m \in Msg |-> 0]
  <2>1. /\ ready = <<Main>> /\ Main \in Task
        /\ read = <<>> /\ wire = <<>> /\ active = TRUE /\ open = TRUE
        /\ importing = FALSE /\ eof = FALSE
        /\ cancelled = {} /\ registered = {}
        /\ gathered = [t \in Waiter |-> {}] /\ answers = [m \in Msg |-> 0]
        /\ pc = [t \in Task |-> IF t = Main THEN "reading" ELSE "none"]
    BY DEF Init
  <2>2. ready \in Seq(Task) /\ Len(ready) = 1
    BY <2>1
  <2>3. pc \in [Task -> PC] /\ \A t \in Task : pc[t] = IF t = Main THEN "reading" ELSE "none"
    BY <2>1 DEF PC
  <2>4. QED
    BY <2>1, <2>2, <2>3
<1>2. /\ NoDuplicates(ready)
      /\ \A t : Queued(ready, t) <=> t = Main
  BY <1>1 DEF NoDuplicates, Queued
<1>3. DOMAIN read = {} /\ Len(read) = 0 /\ Len(wire) = 0 /\ read \in Seq(Kind) /\ wire \in Seq(Kind)
  BY <1>1
<1>4. TypeOK
  BY <1>1, <1>3, MaxMsgsAssumption DEF TypeOK
<1>5. PlacesInv /\ MessageInv /\ RegistryInv
  BY <1>1, <1>3 DEF PlacesInv, MessageInv, RegistryInv, Stages
<1>6. AnswersInv
  BY <1>1, <1>3 DEF AnswersInv, RepliesDue
<1>7. QueueInv
  BY <1>1, <1>2 DEF QueueInv, Unfinished
<1>8. HandlerFirstInv /\ CloseInv /\ ShutdownLastInv
  BY <1>1, <1>2, <1>3 DEF HandlerFirstInv, CloseInv, ShutdownLastInv, Stages
<1>9. WaitInv
  BY <1>1 DEF WaitInv, Stages
<1>10. FlagInv
  BY <1>1, <1>3 DEF FlagInv, Holds
<1>11. QED
  BY <1>4, <1>5, <1>6, <1>7, <1>8, <1>9, <1>10 DEF IInv

(* Every step of the plugin keeps the invariant.                           *)
LEMMA StepIInv == IInv /\ [Next]_vars => IInv'
<1> SUFFICES ASSUME IInv, [Next]_vars
             PROVE  IInv'
  OBVIOUS
<1>1. CASE \E k \in Kind : Send(k)
  BY <1>1, ClientStep
<1>2. CASE CloseStream
  BY <1>2, ClientStep
<1>3. CASE \E t \in Task : Wake(t)
  BY <1>3, WakeStep
<1>4. CASE RunReady
  <2>1. CASE RunMain
    BY <2>1, ReadBlocksStep, LeaveRunStep, PingStep, InitializeCacheStep, RunFailsStep,
       HandleInTaskStep DEF RunMain
  <2>2. CASE \E t \in Waiter : ResumeWait(t)
    BY <2>2, ResumeWaitStep
  <2>3. ASSUME NEW m \in Msg, RunHandle(m)
        PROVE  IInv'
    BY <2>3, StartHandleStep, HandleEnds, ShutdownStep DEF RunHandle
  <2>4. ASSUME NEW m \in Msg, RunExternal(m)
        PROVE  IInv'
    BY <2>4, ExternalEndsStep, SuspendExternalStep, StartImportStep DEF RunExternal
  <2>5. ASSUME NEW m \in Msg, RunImport(m)
        PROVE  IInv'
    BY <2>5, ImportEnds, GatherElementsStep DEF RunImport
  <2>6. ASSUME (\E m \in Msg : PassControl(m)) \/ RunTeardown
        PROVE  IInv'
    BY <2>6, InternalStep
  <2>7. QED
    BY <1>4, <2>1, <2>2, <2>3, <2>4, <2>5, <2>6 DEF RunReady
<1>5. CASE Exited \/ UNCHANGED vars
  <2>1. UNCHANGED <<wire, eof, read, active, open, ready, pc, cancelled, registered,
                    gathered, importing, answers>>
    BY <1>5 DEF Exited, vars
  <2>2. TypeOK'
    BY <2>1 DEF IInv, TypeOK
  <2>3. PlacesInv' /\ MessageInv'
    BY <2>1 DEF IInv, PlacesInv, MessageInv
  <2>4. AnswersInv' /\ RegistryInv' /\ FlagInv'
    BY <2>1 DEF IInv, AnswersInv, RepliesDue, RegistryInv, FlagInv, Holds
  <2>5. QueueInv' /\ HandlerFirstInv' /\ CloseInv'
    BY <2>1 DEF IInv, QueueInv, HandlerFirstInv, CloseInv, Unfinished
  <2>6. WaitInv' /\ ShutdownLastInv'
    BY <2>1 DEF IInv, WaitInv, ShutdownLastInv, Unfinished
  <2>7. QED
    BY <2>2, <2>3, <2>4, <2>5, <2>6 DEF IInv
<1>6. QED
  BY <1>1, <1>2, <1>3, <1>4, <1>5 DEF Next

(* The invariant holds throughout, for any number of messages of any kinds.*)
THEOREM Invariance == Spec => []IInv
<1>1. Init => IInv
  BY InitIInv
<1>2. IInv /\ [Next]_vars => IInv'
  BY StepIInv
<1>3. QED
  BY <1>1, <1>2, PTL DEF Spec

-----------------------------------------------------------------------------
(* What the variables hold.                                                *)
THEOREM TypeCorrect == Spec => []TypeOK
<1>1. IInv => TypeOK
  BY DEF IInv
<1>2. QED
  BY <1>1, Invariance, PTL

(* The shutdown message is the last one read: its handler is in the queue  *)
(* before Main, and stops the connection.                                  *)
THEOREM ShutdownReadLast == Spec => []NothingReadAfterShutdown
<1>1. IInv => NothingReadAfterShutdown
  BY DEF IInv, HandlerFirstInv, NothingReadAfterShutdown
<1>2. QED
  BY <1>1, Invariance, PTL

(* When wait_closed() has returned nothing is registered, nothing is       *)
(* unfinished and nothing is queued.                                       *)
THEOREM QuietWhenClosed == Spec => []ClosedMeansQuiet
<1>1. ASSUME IInv, pc[Main] = "closed"
      PROVE  registered = {} /\ ready = <<>> /\ Unfinished = {}
  <2>1. registered \cap ExternalTasks = {} /\ registered \cap InternalTasks = {}
        /\ registered \cap ConnectionTasks = {}
    BY <1>1, TaskSorts DEF IInv, WaitInv
  <2>2. registered = {}
    <3>1. registered \subseteq ExternalTasks \cup InternalTasks \cup ConnectionTasks
      BY <1>1 DEF IInv, TypeOK, Managed
    <3>2. QED
      BY <2>1, <3>1
  <2>3. Unfinished = {}
    BY <1>1, <2>2 DEF IInv, RegistryInv, Unfinished, Task
  <2>4. ready \in Seq(Task) /\ \A t \in Task : ~Queued(ready, t)
    BY <1>1, <2>3 DEF IInv, TypeOK, QueueInv
  <2>5. ready = <<>>
    <3>1. SUFFICES ASSUME ready # <<>>
                   PROVE  FALSE
      OBVIOUS
    <3>2. Head(ready) \in Task /\ Queued(ready, Head(ready))
      BY <1>1, <2>4, <3>1, TailQueue DEF IInv, QueueInv
    <3>3. QED
      BY <2>4, <3>2
  <2>6. QED
    BY <2>2, <2>3, <2>5
<1>2. IInv => ClosedMeansQuiet
  BY <1>1 DEF ClosedMeansQuiet
<1>3. QED
  BY <1>2, Invariance, PTL

-----------------------------------------------------------------------------
(* A step reads a message or none; nothing opens the plugin again; and the *)
(* step that reads a message which raises out of run() closes it.          *)
LEMMA ReadOrClose ==
  ASSUME IInv, [Next]_vars
  PROVE  \/ UNCHANGED read /\ (open' => open)
         \/ \E k : Take(k) /\ (k = "fatal" => ~open')
<1>1. CASE RunMain
  BY <1>1 DEF RunMain, ReadBlocks, LeaveRun, Ping, InitializeCache, RejectNotification,
     HandleInTask, TaskKinds, RunFails, CloseThenWait, stream, flags
<1>2. CASE ~RunMain
  BY <1>2 DEF Next, RunReady, RunHandle, RunExternal, RunImport, vars, stream, flags,
     Send, CloseStream, Wake, ResumeWait, StartHandle, FailHandle, Shutdown, FinishHandle,
     DropExternal, CancelExternal, RefuseImport, SuspendExternal, FinishExternal, StartImport,
     DropImport, GatherElements, FinishImport, PassControl, RunTeardown, Exited, CloseThenWait
<1>3. QED
  BY <1>1, <1>2

(* Messages that were read stay what they are.                             *)
LEMMA ReadGrows ==
  ASSUME IInv, [Next]_vars
  PROVE  \A n \in DOMAIN read : n \in DOMAIN read' /\ read'[n] = read[n]
  BY ReadOrClose, TakeFacts DEF Taken

(* A message that raises out of run() is the last one read.                *)
FatalInv == \A m \in DOMAIN read : read[m] = "fatal" => m = Len(read) /\ ~open

LEMMA FatalStep == IInv /\ FatalInv /\ [Next]_vars => FatalInv'
<1> SUFFICES ASSUME IInv, FatalInv, [Next]_vars
             PROVE  FatalInv'
  OBVIOUS
<1>1. CASE UNCHANGED read /\ (open' => open)
  BY <1>1 DEF FatalInv
<1>2. ASSUME NEW k, Take(k), k = "fatal" => ~open'
      PROVE  FatalInv'
  <2>1. PICK m \in Msg : Taken(k, m)
    BY <1>2, TakeFacts
  <2>2. /\ DOMAIN read' = DOMAIN read \cup {m}
        /\ read'[m] = k /\ Len(read') = m
        /\ \A n \in DOMAIN read : read'[n] = read[n] /\ read[n] # "fatal"
    BY <2>1 DEF Taken, FatalInv
  <2>3. QED
    BY <1>2, <2>2 DEF FatalInv
<1>3. QED
  BY <1>1, <1>2, ReadOrClose

LEMMA FatalIsLast == Spec => []FatalInv
<1>1. Init => FatalInv
  BY DEF Init, FatalInv
<1>2. QED
  BY <1>1, FatalStep, Invariance, PTL DEF Spec

(* When wait_closed() has returned every request that was read has its     *)
(* reply, but for one that raised out of run().                            *)
THEOREM AnsweredWhenClosed == Spec => []ClosedMeansAnswered
<1>1. ASSUME IInv, FatalInv, pc[Main] = "closed", NEW m \in DOMAIN read, IsRequest(read[m]),
             ~(read[m] = "fatal" /\ m = Len(read))
      PROVE  answers[m] > 0
  <2>1. /\ registered \cap ConnectionTasks = {}
        /\ m \in Msg /\ Handle(m) \in ConnectionTasks /\ Handle(m) \in Managed
    BY <1>1, StateFacts, TaskSorts DEF IInv, WaitInv
  <2>2. pc[Handle(m)] \in {"none", "done"}
    BY <1>1, <2>1 DEF IInv, RegistryInv
  <2>3. read[m] \in Inline \/ pc[Handle(m)] = "done"
    BY <1>1, <2>1, <2>2 DEF IInv, MessageInv
  <2>4. read[m] \notin Unanswered
    BY <1>1 DEF FatalInv, IsRequest, Unanswered
  <2>5. answers[m] = RepliesDue(m)
    BY <1>1, <2>1 DEF IInv, AnswersInv
  <2>6. QED
    BY <1>1, <2>3, <2>4, <2>5 DEF RepliesDue
<1>2. IInv /\ FatalInv => ClosedMeansAnswered
  BY <1>1 DEF ClosedMeansAnswered
<1>3. QED
  BY <1>2, Invariance, FatalIsLast, PTL

(* No message gets more replies than it should.                            *)
THEOREM AnsweredOnce == Spec => []OneAnswer
<1>1. ASSUME IInv, NEW m \in DOMAIN read
      PROVE  answers[m] <= CASE read[m] \in {"notify", "misfitNotify"} -> 0
                             [] read[m] = "badParams" -> 2
                             [] OTHER -> 1
  <2>1. answers[m] = RepliesDue(m)
    BY <1>1, StateFacts DEF IInv, AnswersInv
  <2>2. CASE read[m] \in {"notify", "misfitNotify"}
    BY <2>1, <2>2 DEF RepliesDue, Unanswered
  <2>3. CASE read[m] = "badParams"
    BY <2>1, <2>3 DEF RepliesDue, Inline, Unanswered
  <2>4. CASE read[m] \notin {"notify", "misfitNotify", "badParams"}
    BY <2>1, <2>4 DEF RepliesDue
  <2>5. QED
    BY <2>2, <2>3, <2>4
<1>2. IInv => OneAnswer
  BY <1>1 DEF OneAnswer
<1>3. QED
  BY <1>2, Invariance, PTL

(* _import_in_progress is set exactly while some import holds it, or was   *)
(* dropped.                                                                *)
THEOREM ImportFlagIsExact == Spec => []ImportFlagExact
<1>1. IInv => ImportFlagExact
  BY DEF IInv, FlagInv, Holds, ImportFlagExact
<1>2. QED
  BY <1>1, Invariance, PTL

(* Tasks of the external manager begin only in StartHandle and StartImport,*)
(* and neither is possible after close(): then no handler is new, and every*)
(* unfinished external task is cancelled.                                  *)
LEMMA NoNewWorkStep ==
  ASSUME IInv, [Next]_vars, ~open, NEW t \in ExternalTasks, pc[t] = "none"
  PROVE  pc'[t] = "none"
<1> USE TaskNames, TaskSorts, StateFacts
<1>1. /\ t \in Task /\ t # Main
      /\ \A m : t # Handle(m) /\ t # Tick(m)
      /\ t # Teardown
  OBVIOUS
<1>2. CASE UNCHANGED pc
  BY <1>2
<1>3. ASSUME NEW k, HandleInTask(k) \/ InitializeCache
      PROVE  pc'[t] = "none"
  BY <1>1, <1>3 DEF HandleInTask, InitializeCache
<1>4. CASE LeaveRun \/ (\E k : RunFails(k)) \/ (\E m \in Msg : Shutdown(m)) \/ \E w \in Waiter : ResumeWait(w)
  <2>1. PICK w \in Waiter : \E from, regs :
           \/ WaitFrom(w, from, regs, pc)
           \/ WaitFrom(w, from, regs, [pc EXCEPT ![Teardown] = "created"])
    BY <1>4 DEF LeaveRun, RunFails, Shutdown, ResumeWait, CloseThenWait
  <2>2. QED
    BY <1>1, <2>1 DEF WaitFrom
<1>5. ASSUME NEW m \in Msg, RunHandle(m), ~Shutdown(m)
      PROVE  pc'[t] = "none"
  <2>1. ~StartHandle(m)
    BY DEF StartHandle, IInv, HandlerFirstInv
  <2>2. QED
    BY <1>1, <1>5, <2>1 DEF RunHandle, FailHandle, FinishHandle
<1>6. ASSUME NEW m \in Msg, RunExternal(m)
      PROVE  pc'[t] = "none"
  <2>1. ~StartImport(m)
    <3>1. SUFFICES ASSUME StartImport(m)
                   PROVE  FALSE
      OBVIOUS
    <3>2. Turn(External(m)) /\ External(m) \notin cancelled
      BY <3>1 DEF StartImport, ExternalRuns
    <3>3. External(m) \in Unfinished
      BY <3>2, TurnFacts DEF IInv, QueueInv
    <3>4. QED
      BY <3>2, <3>3 DEF IInv, CloseInv
  <2>2. QED
    BY <1>1, <1>6, <2>1 DEF RunExternal, DropExternal, CancelExternal, RefuseImport,
       SuspendExternal, FinishExternal, ExternalRuns
<1>7. ASSUME NEW m \in Msg, RunImport(m)
      PROVE  pc'[t] = "none"
  BY <1>1, <1>7 DEF RunImport, DropImport, GatherElements, FinishImport
<1>8. CASE (\E m \in Msg : PassControl(m)) \/ RunTeardown
  BY <1>1, <1>8 DEF PassControl, RunTeardown
<1>9. QED
  BY <1>2, <1>3, <1>4, <1>5, <1>6, <1>7, <1>8
     DEF Next, RunReady, RunMain, RunHandle, Send, CloseStream, Wake, ReadBlocks, Ping,
         RejectNotification, Exited, vars

(* Nothing is started in the external manager after close().               *)
THEOREM NoNewWork == Spec => NoNewWorkAfterClose
<1>1. IInv /\ [Next]_vars =>
        [~open => \A t \in ExternalTasks : pc[t] = "none" => pc'[t] = "none"]_vars
  BY NoNewWorkStep
<1>2. QED
  BY <1>1, Invariance, PTL DEF Spec, NoNewWorkAfterClose

(* The handler of the shutdown request ends in ResumeWait only.            *)
LEMMA ShutdownEnds ==
  ASSUME IInv, [Next]_vars, NEW m \in DOMAIN read, read[m] = "shutdown",
         pc[Handle(m)] # "done", pc'[Handle(m)] = "done"
  PROVE  ResumeWait(Handle(m))
<1> USE TaskNames, TaskSorts, StateFacts
<1> DEFINE h == Handle(m)
<1>1. /\ m \in Msg /\ h \in Task /\ h # Main /\ h # Teardown
      /\ \A n : h # External(n) /\ h # Import(n) /\ h # Tick(n)
      /\ \A n : h = Handle(n) => n = m
      /\ pc[h] # "waiting"
  BY DEF IInv, MessageInv, Spawning
<1> HIDE DEF h
<1>2. ~UNCHANGED pc
  BY DEF h
<1>3. ASSUME NEW k, HandleInTask(k) \/ InitializeCache
      PROVE  FALSE
  BY <1>1, <1>3 DEF HandleInTask, InitializeCache, h
<1>4. ~LeaveRun /\ ~\E k : RunFails(k)
  <2>1. SUFFICES ASSUME LeaveRun \/ \E k : RunFails(k)
                 PROVE  FALSE
    OBVIOUS
  <2>2. PICK stage : Closed(Main, stage)
    BY <2>1, CloseEffect DEF LeaveRun, RunFails, Take
  <2>3. QED
    BY <1>1, <2>2 DEF Closed, h
<1>5. ASSUME NEW n \in Msg, Shutdown(n)
      PROVE  FALSE
  <2>1. /\ Turn(Handle(n)) /\ CloseThenWait(Handle(n)) /\ open
    BY <1>5 DEF Shutdown, IInv, HandlerFirstInv
  <2>2. PICK stage : Closed(Handle(n), stage)
    BY <2>1, CloseEffect
  <2>3. QED
    BY <1>1, <2>1, <2>2 DEF Closed, h
<1>6. ASSUME NEW w \in Waiter, ResumeWait(w), w # h
      PROVE  FALSE
  BY <1>1, <1>6 DEF ResumeWait, WaitFrom, h
<1>7. ASSUME NEW n \in Msg, StartHandle(n) \/ FailHandle(n) \/ FinishHandle(n)
      PROVE  FALSE
  BY <1>1, <1>7 DEF StartHandle, FailHandle, FinishHandle, h
<1>8. ASSUME NEW n \in Msg, RunExternal(n) \/ RunImport(n) \/ PassControl(n) \/ RunTeardown
      PROVE  FALSE
  <2>1. PICK a, b, x, y : /\ pc' = [pc EXCEPT ![a] = x] \/ pc' = [pc EXCEPT ![a] = x, ![b] = y]
                          /\ a # h /\ b # h
    BY <1>1, <1>8 DEF RunExternal, RunImport, PassControl, RunTeardown, DropExternal, CancelExternal,
       RefuseImport, SuspendExternal, FinishExternal, StartImport, DropImport, GatherElements,
       FinishImport
  <2>2. QED
    BY <1>1, <2>1 DEF h
<1>9. \E w \in Waiter : ResumeWait(w)
  BY <1>2, <1>3, <1>4, <1>5, <1>7, <1>8
     DEF Next, RunReady, RunMain, RunHandle, Send, CloseStream, Wake, ReadBlocks, Ping,
         RejectNotification, Exited, vars
<1>10. QED
  BY <1>6, <1>9 DEF h

(* The shutdown request gets its reply when its handler goes on after the  *)
(* last wait(): then no external task is unfinished, and every other       *)
(* handler was ahead of it in the queue and is through.                    *)
LEMMA ShutdownReplyStep ==
  ASSUME IInv, IInv', FatalInv, [Next]_vars, NEW m \in DOMAIN read, read[m] = "shutdown",
         answers[m] # answers'[m]
  PROVE  /\ ExternalTasks \cap Unfinished = {}
         /\ \A n \in DOMAIN read : IsRequest(read[n]) => answers'[n] > 0
<1> USE TaskNames, TaskSorts, StateFacts
<1> DEFINE h == Handle(m)
<1>1. /\ m \in Msg /\ h \in Waiter
      /\ answers[m] = RepliesDue(m)
      /\ answers'[m] = RepliesDue(m)'
  BY DEF IInv, AnswersInv
<1>2. \A n \in DOMAIN read : n \in DOMAIN read' /\ read'[n] = read[n]
  BY ReadGrows
<1>4. pc[h] # "done" /\ pc'[h] = "done"
  <2>1. RepliesDue(m) = IF pc[h] = "done" THEN 1 ELSE 0
    BY DEF RepliesDue, Inline, Unanswered
  <2>2. RepliesDue(m)' = IF pc'[h] = "done" THEN 1 ELSE 0
    BY <1>2 DEF RepliesDue, Inline, Unanswered
  <2>3. answers' = answers \/ \E n : answers' = Replied(n)
    <3>1. CASE RunMain
      BY <3>1 DEF RunMain, ReadBlocks, LeaveRun, Ping, InitializeCache, RejectNotification,
         RunFails, HandleInTask
    <3>2. ASSUME NEW w, ReplyIfDone(w)
          PROVE  answers' = answers \/ answers' = Replied(w[2])
      BY <3>2 DEF ReplyIfDone
    <3>3. CASE (\E w \in Waiter : ResumeWait(w)) \/ \E n \in Msg : Shutdown(n)
      BY <3>2, <3>3 DEF ResumeWait, Shutdown
    <3>4. ASSUME NEW n \in Msg, StartHandle(n) \/ FailHandle(n) \/ FinishHandle(n)
          PROVE  answers' = answers \/ answers' = Replied(n)
      BY <3>4 DEF StartHandle, FailHandle, FinishHandle, Outcome
    <3>5. ASSUME NEW n \in Msg, RunExternal(n) \/ RunImport(n) \/ PassControl(n) \/ RunTeardown
          PROVE  answers' = answers
      BY <3>5 DEF RunExternal, RunImport, DropExternal, CancelExternal, RefuseImport,
         SuspendExternal, FinishExternal, StartImport, DropImport, GatherElements, FinishImport,
         PassControl, RunTeardown
    <3>6. CASE (\E k : Send(k)) \/ CloseStream \/ (\E t : Wake(t)) \/ Exited \/ UNCHANGED vars \/ RunTeardown
      BY <3>6 DEF Send, CloseStream, Wake, Exited, vars, RunTeardown
    <3>7. QED
      BY <3>1, <3>3, <3>4, <3>5, <3>6 DEF Next, RunReady, RunHandle
  <2>4. answers \in [Msg -> 0..2]
    BY DEF IInv, TypeOK
  <2>5. answers'[m] >= answers[m]
    BY <2>3, <2>4, <1>1 DEF Replied
  <2>6. QED
    BY <1>1, <2>1, <2>2, <2>5
<1>5. ResumeWait(h)
  BY <1>4, ShutdownEnds
<1>6. /\ Turn(h) /\ pc[h] \in Stages
      /\ WaitFrom(h, pc[h], registered, pc)
      /\ UNCHANGED read
  BY <1>5 DEF ResumeWait, stream, Stages
<1>7. PICK stage \in Stages \cup {"closed", "done"} : Waits(h, pc[h], registered, pc, stage)
  BY <1>1, <1>6, WaitFromFacts
<1>8. stage = "done" /\ \A u \in Task : u # h => pc'[u] = pc[u]
  BY <1>1, <1>4, <1>7 DEF Waits
<1>9. ExternalTasks \cap Unfinished = {}
  <2>1. registered \cap ExternalTasks = {}
    BY <1>1, <1>6, <1>7, <1>8 DEF Waits, Stages, IInv, WaitInv
  <2>2. QED
    BY <2>1 DEF IInv, RegistryInv, Unfinished
<1>10. ASSUME NEW n \in DOMAIN read, IsRequest(read[n])
       PROVE  answers'[n] > 0
  <2>1. n \in Msg /\ read'[n] = read[n] /\ answers'[n] = RepliesDue(n)'
    BY <1>2 DEF IInv, AnswersInv
  <2>2. read[n] \notin Unanswered
    <3>1. m = Len(read)
      BY DEF IInv, HandlerFirstInv
    <3>2. QED
      BY <1>10, <3>1 DEF IsRequest, FatalInv, Unanswered
  <2>3. CASE read[n] \in Inline \cup {"badParams"}
    BY <1>2, <2>1, <2>2, <2>3 DEF RepliesDue
  <2>4. CASE read[n] = "shutdown"
    <3>1. n = m
      BY <2>4 DEF IInv, HandlerFirstInv
    <3>2. QED
      BY <1>2, <1>4, <2>1, <2>2, <3>1 DEF RepliesDue
  <2>5. CASE read[n] \in {"query", "import", "misfit"}
    <3>1. pc[Handle(n)] \notin Stages \cup {"none"}
      BY <2>1, <2>5 DEF IInv, MessageInv, Inline
    <3>2. pc[Handle(n)] # "created"
      BY <1>1, <1>6, <2>1, WaitersClosed DEF IInv, HandlerFirstInv
    <3>3. pc[Handle(n)] # "waiting"
      BY <1>6, <2>1, TurnFacts DEF IInv, ShutdownLastInv
    <3>4. pc[Handle(n)] = "done" /\ n # m
      BY <2>1, <2>5, <3>1, <3>2, <3>3 DEF IInv, PlacesInv, Stages
    <3>5. pc'[Handle(n)] = "done"
      BY <1>8, <2>1, <3>4
    <3>6. QED
      BY <1>2, <2>1, <2>2, <3>5 DEF RepliesDue
  <2>6. read[n] \in Kinds
    BY KindAssumption DEF IInv, TypeOK
  <2>7. QED
    BY <1>10, <2>3, <2>4, <2>5, <2>6 DEF Kinds, Inline, IsRequest
<1>11. QED
  BY <1>9, <1>10

(* The shutdown request is acknowledged last.                              *)
THEOREM ShutdownLast == Spec => ShutdownAnsweredLast
<1>1. IInv /\ IInv' /\ FatalInv /\ [Next]_vars =>
        [\A m \in DOMAIN read :
            read[m] = "shutdown" /\ answers[m] # answers'[m] =>
               /\ ExternalTasks \cap Unfinished = {}
               /\ \A n \in DOMAIN read : IsRequest(read[n]) => answers'[n] > 0]_vars
  BY ShutdownReplyStep
<1>2. QED
  BY <1>1, Invariance, FatalIsLast, PTL DEF Spec, ShutdownAnsweredLast

-----------------------------------------------------------------------------
(* The state of TaskManager that the plugin's state stands for.            *)
MState == [t \in ExternalTasks |-> IF pc[t] = "waiting" THEN "running" ELSE pc[t]]
MTasks == registered \cap ExternalTasks
MWaiter == [t \in Waiter |->
              CASE pc[t] = "external" -> "gathering"
                [] pc[t] \in {"internal", "connection", "closed"} -> "returned"
                [] pc[t] = "done" /\ read[t[2]] = "shutdown" -> "returned"
                [] OTHER -> "idle"]
MGathered == [t \in Waiter |-> IF pc[t] = "external" THEN gathered[t] ELSE {}]

(* How far a coroutine is through wait(), case by case.                    *)
Through(t) == \/ pc[t] \in {"internal", "connection", "closed"}
              \/ \E m \in DOMAIN read : t = Handle(m) /\ pc[t] = "done" /\ read[m] = "shutdown"

Progress == [t \in Waiter |-> IF pc[t] = "external" THEN "gathering"
                              ELSE IF Through(t) THEN "returned"
                              ELSE "idle"]

(* The view of the waiters, in terms of Through.                           *)
LEMMA WaiterView == IInv => MWaiter = Progress
<1> SUFFICES ASSUME IInv
             PROVE  MWaiter = Progress
  OBVIOUS
<1> USE TaskNames, TaskSorts, StateFacts
<1>1. ASSUME NEW t \in Waiter, pc[t] = "done"
      PROVE  read[t[2]] = "shutdown" <=>
                \E m \in DOMAIN read : t = Handle(m) /\ read[m] = "shutdown"
  <2>1. PICK m \in Msg : t = Handle(m)
    BY <1>1 DEF IInv, PlacesInv, Stages, Waiter, ConnectionTasks
  <2>2. m \in DOMAIN read /\ t[2] = m
    BY <1>1, <2>1 DEF IInv, MessageInv
  <2>3. QED
    BY <2>1, <2>2
<1>2. ASSUME NEW t \in Waiter
      PROVE  (CASE pc[t] = "external" -> "gathering"
                [] pc[t] \in {"internal", "connection", "closed"} -> "returned"
                [] pc[t] = "done" /\ read[t[2]] = "shutdown" -> "returned"
                [] OTHER -> "idle")
             = IF pc[t] = "external" THEN "gathering"
               ELSE IF Through(t) THEN "returned" ELSE "idle"
  BY <1>1 DEF Through
<1>3. QED
  BY <1>2 DEF MWaiter, Progress

(* The same after a step.                                                  *)
LEMMA WaiterViewNext == (IInv => MWaiter = Progress)'
  BY WaiterView, PTL

(* Task w begins a wait() or looks at the manager again.                   *)
WaitMoves(w) ==
    /\ MWaiter' = [MWaiter EXCEPT ![w] = IF MTasks = {} THEN "returned" ELSE "gathering"]
    /\ MGathered' = [MGathered EXCEPT ![w] = MTasks]

(* The external manager is not concerned.                                  *)
TasksStay == MState' = MState /\ MTasks' = MTasks
WaitsStay == MWaiter' = MWaiter /\ MGathered' = MGathered

(* Which of the plugin's tasks are live, in the words of TaskManager.      *)
LEMMA LiveView ==
  ASSUME IInv
  PROVE  ExternalTasks \cap Unfinished = {t \in ExternalTasks : MState[t] \in {"created", "running"}}
<1>1. \A t \in ExternalTasks : pc[t] \in {"none", "created", "waiting", "done", "dropped"}
  BY DEF IInv, PlacesInv, Ended, ExternalTasks
<1>2. QED
  BY <1>1, TaskSorts DEF MState, Unfinished

(* The life cycle of one task of the manager goes on.                      *)
LEMMA StateView ==
  ASSUME NEW t \in ExternalTasks, NEW s \in {"created", "done", "dropped"},
         \A u \in ExternalTasks : pc'[u] = IF u = t THEN s ELSE pc[u]
  PROVE  MState' = [MState EXCEPT ![t] = s]
  BY DEF MState

(* No coroutine begins a wait(), goes on with it or leaves it.             *)
LEMMA WaitsStayWhen ==
  ASSUME IInv, IInv', NEW w \in Waiter,
         UNCHANGED gathered,
         \A n \in DOMAIN read : n \in DOMAIN read' /\ read'[n] = read[n],
         \A u \in Waiter : u # w => pc'[u] = pc[u],
         pc'[w] = pc[w] \/ (/\ pc[w] \notin Stages \cup {"closed", "done"}
                            /\ pc'[w] \notin Stages \cup {"closed"}
                            /\ pc'[w] = "done" => \E m \in DOMAIN read : w = Handle(m) /\ read[m] # "shutdown")
  PROVE  WaitsStay
<1> USE TaskNames, TaskSorts, StateFacts
<1>1. \A u \in Waiter : /\ pc'[u] = "external" <=> pc[u] = "external"
                        /\ pc[u] = "done" => \A m \in Msg : u = Handle(m) => m \in DOMAIN read
  BY DEF Stages, IInv, MessageInv
<1>2. ASSUME NEW u \in Waiter
      PROVE  Through(u)' <=> Through(u)
  <2>1. CASE pc'[u] = pc[u]
    BY <1>1, <2>1 DEF Through
  <2>2. CASE pc'[u] # pc[u]
    BY <2>2 DEF Through, Stages
  <2>3. QED
    BY <2>1, <2>2
<1>3. Progress' = Progress
  BY <1>1, <1>2 DEF Progress
<1>4. MWaiter' = MWaiter
  BY <1>3, WaiterView, WaiterViewNext
<1>5. MGathered' = MGathered
  BY <1>1 DEF MGathered
<1>6. QED
  BY <1>4, <1>5 DEF WaitsStay

(* Task w begins a wait() or looks at the manager again.                   *)
LEMMA WaitMovesWhen ==
  ASSUME IInv, IInv', NEW w \in Waiter, NEW stage \in Stages \cup {"closed", "done"},
         \A n \in DOMAIN read : n \in DOMAIN read' /\ read'[n] = read[n],
         \A u \in Waiter : u # w => pc'[u] = pc[u] /\ gathered'[u] = gathered[u],
         pc'[w] = stage,
         stage = "done" => \E m \in DOMAIN read : w = Handle(m) /\ read[m] = "shutdown",
         stage = "external" => MTasks # {} /\ gathered'[w] = MTasks,
         stage # "external" => MTasks = {}
  PROVE  WaitMoves(w)
<1>1. \A u \in Waiter : pc[u] = "done" => \A m \in Msg : u = Handle(m) => m \in DOMAIN read
  BY TaskNames, TaskSorts, StateFacts DEF Stages, IInv, MessageInv
<1>2. ASSUME NEW u \in Waiter, u # w
      PROVE  Through(u)' <=> Through(u)
  BY <1>1, <1>2, TaskNames, TaskSorts, StateFacts DEF Through
<1>3. stage # "external" => Through(w)'
  BY DEF Through, Stages
<1>4. Progress' = [Progress EXCEPT ![w] = IF MTasks = {} THEN "returned" ELSE "gathering"]
  <2>1. \A u \in Waiter : Progress'[u] = IF u # w THEN Progress[u]
                                       ELSE IF MTasks = {} THEN "returned" ELSE "gathering"
    BY <1>2, <1>3 DEF Progress
  <2>2. QED
    BY <2>1 DEF Progress
<1>5. MGathered' = [MGathered EXCEPT ![w] = MTasks]
  <2>1. \A u \in Waiter : MGathered'[u] = IF u # w THEN MGathered[u] ELSE MTasks
    BY DEF MGathered
  <2>2. QED
    BY <2>1 DEF MGathered
<1>6. QED
  BY <1>4, <1>5, WaiterView, WaiterViewNext DEF WaitMoves

(* The actions of TaskManager, on what the plugin's state stands for:      *)
(* nothing happens in the manager.                                         *)
LEMMA Stutters ==
  ASSUME TasksStay, WaitsStay, UNCHANGED cancelled
  PROVE  UNCHANGED TM!vars
  BY DEF TM!vars, TasksStay, WaitsStay, MState, MTasks, MWaiter, MGathered

(* A task is created.                                                      *)
LEMMA Creates ==
  ASSUME NEW t \in ExternalTasks, MState[t] = "none",
         MState' = [MState EXCEPT ![t] = "created"], MTasks' = MTasks \cup {t},
         WaitsStay, UNCHANGED cancelled
  PROVE  TM!Next
<1>1. TM!CreateTask(t)
  BY DEF TM!CreateTask, WaitsStay, MState, MTasks, MWaiter, MGathered
<1>2. QED
  BY <1>1 DEF TM!Next

(* A task runs up to its next await.                                       *)
LEMMA Steps ==
  ASSUME NEW t \in ExternalTasks, MState[t] \in {"created", "running"}, t \notin cancelled,
         MState' = [u \in ExternalTasks |-> IF u = t THEN "running" ELSE MState[u]],
         MTasks' = MTasks, WaitsStay, UNCHANGED cancelled
  PROVE  TM!Next
<1>1. TM!StepTask(t, {})
  BY DEF TM!StepTask, TM!Live, WaitsStay, MState, MTasks, MWaiter, MGathered
<1>2. QED
  BY <1>1 DEF TM!Next

(* Task t makes its last run and leaves the tasks `spawned` behind.        *)
Finishing(t, spawned) ==
    /\ MState[t] \in {"created", "running"} /\ t \notin cancelled
    /\ \A u \in spawned : MState[u] = "none"
    /\ MState' = [u \in ExternalTasks |-> IF u = t THEN "done"
                                          ELSE IF u \in spawned THEN "created" ELSE MState[u]]
    /\ MTasks' = (MTasks \cup spawned) \ {t}
    /\ UNCHANGED cancelled

(* A task ends.                                                            *)
LEMMA Finishes ==
  ASSUME NEW t \in ExternalTasks, NEW spawned \in SUBSET ExternalTasks,
         Finishing(t, spawned), WaitsStay
  PROVE  TM!Next
<1>1. TM!FinishTask(t, spawned)
  BY DEF Finishing, TM!FinishTask, TM!Live, WaitsStay, MState, MTasks, MWaiter, MGathered
<1>2. QED
  BY <1>1 DEF TM!Next

(* A running task is cancelled.                                            *)
LEMMA EndsCancelled ==
  ASSUME NEW t \in ExternalTasks, MState[t] = "running", t \in cancelled,
         MState' = [MState EXCEPT ![t] = "done"], MTasks' = MTasks \ {t},
         WaitsStay, cancelled' = cancelled \ {t}
  PROVE  TM!Next
<1>1. TM!EndCancelled(t)
  BY DEF TM!EndCancelled, WaitsStay, MState, MTasks, MWaiter, MGathered
<1>2. QED
  BY <1>1 DEF TM!Next

(* A task is cancelled before its first run.                               *)
LEMMA Drops ==
  ASSUME NEW t \in ExternalTasks, MState[t] = "created", t \in cancelled,
         MState' = [MState EXCEPT ![t] = "dropped"], MTasks' = MTasks,
         WaitsStay, cancelled' = cancelled \ {t}
  PROVE  TM!Next
<1>1. TM!DropTask(t)
  BY DEF TM!DropTask, WaitsStay, MState, MTasks, MWaiter, MGathered
<1>2. QED
  BY <1>1 DEF TM!Next

(* A coroutine begins to wait, possibly after cancelling the tasks.        *)
LEMMA BeginsWait ==
  ASSUME IInv, NEW w \in Waiter, MWaiter[w] = "idle", TasksStay, WaitMoves(w),
         \/ UNCHANGED cancelled
         \/ cancelled' = cancelled \cup (MTasks \cap (ExternalTasks \cap Unfinished))
  PROVE  TM!Next
<1>1. CASE UNCHANGED cancelled
  <2>1. TM!BeginWait(w)
    BY <1>1 DEF TM!BeginWait, TM!CheckTasks, TasksStay, WaitMoves, MState, MTasks, MWaiter, MGathered
  <2>2. QED
    BY <2>1 DEF TM!Next
<1>2. CASE cancelled' = cancelled \cup (MTasks \cap (ExternalTasks \cap Unfinished))
  <2>1. cancelled' = TM!CancelRequested
    BY <1>2, LiveView DEF TM!CancelRequested, TM!Live, MState, MTasks
  <2>2. TM!CancelAndWait(w)
    BY <2>1 DEF TM!CancelAndWait, TM!CheckTasks, TasksStay, WaitMoves, MState, MTasks, MWaiter, MGathered
  <2>3. QED
    BY <2>2 DEF TM!Next
<1>3. QED
  BY <1>1, <1>2

(* A coroutine goes on waiting, or is through.                             *)
LEMMA ResumesWait ==
  ASSUME IInv, NEW w \in Waiter, MWaiter[w] = "gathering", TasksStay, WaitMoves(w),
         UNCHANGED cancelled, MGathered[w] \cap Unfinished = {}
  PROVE  TM!Next
<1>1. MGathered[w] \cap TM!Live = {}
  BY LiveView DEF TM!Live, MState
<1>2. TM!ResumeWait(w)
  BY <1>1 DEF TM!ResumeWait, TM!CheckTasks, TasksStay, WaitMoves, MState, MTasks, MWaiter, MGathered
<1>3. QED
  BY <1>2 DEF TM!Next

(* A step of the connection's or an internal task that is not about a      *)
(* wait() does not concern the manager.                                    *)
LEMMA NotConcerned ==
  ASSUME IInv, IInv', [Next]_vars, NEW x \in Task \ ExternalTasks,
         \A u \in Task : u # x => pc'[u] = pc[u],
         registered' \cap ExternalTasks = registered \cap ExternalTasks,
         UNCHANGED <<cancelled, gathered>>,
         \/ x \notin Waiter
         \/ pc'[x] = pc[x]
         \/ /\ pc[x] \notin Stages \cup {"closed", "done"}
            /\ pc'[x] \notin Stages \cup {"closed"}
            /\ pc'[x] = "done" => \E m \in DOMAIN read : x = Handle(m) /\ read[m] # "shutdown"
  PROVE  UNCHANGED TM!vars
<1>1. TasksStay
  BY TaskSorts DEF TasksStay, MState, MTasks
<1>2. PICK w \in Waiter : w = IF x \in Waiter THEN x ELSE Main
  BY TaskSorts
<1>3. \A u \in Waiter : u # w => pc'[u] = pc[u]
  BY <1>2, TaskSorts
<1>4. pc'[w] = pc[w] \/ (/\ pc[w] \notin Stages \cup {"closed", "done"}
                         /\ pc'[w] \notin Stages \cup {"closed"}
                         /\ pc'[w] = "done" => \E m \in DOMAIN read : w = Handle(m) /\ read[m] # "shutdown")
  BY <1>2, TaskSorts
<1>5. WaitsStay
  BY <1>3, <1>4, ReadGrows, WaitsStayWhen
<1>6. QED
  BY <1>1, <1>5, Stutters

(* A step of an external task does not move any wait().                    *)
LEMMA NobodyWaits ==
  ASSUME IInv, IInv', [Next]_vars, \A u \in Waiter : pc'[u] = pc[u], UNCHANGED gathered
  PROVE  WaitsStay
<1>1. Main \in Waiter /\ \A n \in DOMAIN read : n \in DOMAIN read' /\ read'[n] = read[n]
  BY TaskSorts, ReadGrows
<1>2. QED
  BY <1>1, WaitsStayWhen

(* The steps of the external tasks that the handlers created.              *)
LEMMA ExternalImplements ==
  ASSUME IInv, IInv', [Next]_vars, NEW m \in Msg, RunExternal(m)
  PROVE  TM!Next
<1> USE TaskNames, TaskSorts, StateFacts
<1> DEFINE e == External(m)
<1>1. /\ e \in ExternalTasks /\ e \in Task /\ e \in Managed
      /\ Import(m) \in ExternalTasks /\ Import(m) # e
      /\ Turn(e) /\ pc[e] \in {"created", "waiting"}
      /\ UNCHANGED gathered
  BY TurnFacts DEF RunExternal, DropExternal, CancelExternal, RefuseImport, SuspendExternal,
     FinishExternal, StartImport, ExternalRuns, IInv, PlacesInv, Ended
<1>2. pc \in [Task -> PC] /\ ExternalTasks \subseteq Task
  OBVIOUS
<1>3. WaitsStay
  <2>1. \A u \in Waiter : u # e /\ u # Import(m) /\ u \in Task
    OBVIOUS
  <2>2. \A u \in Waiter : pc'[u] = pc[u]
    BY <1>1, <2>1 DEF RunExternal, DropExternal, CancelExternal, RefuseImport, SuspendExternal,
       FinishExternal, StartImport
  <2>3. QED
    BY <1>1, <2>2, NobodyWaits
<1>4. CASE DropExternal(m)
  <2>1. /\ MState[e] = "created" /\ e \in cancelled
        /\ MState' = [MState EXCEPT ![e] = "dropped"] /\ MTasks' = MTasks
        /\ cancelled' = cancelled \ {e}
    BY <1>1, <1>2, <1>4 DEF DropExternal, MState, MTasks
  <2>2. QED
    BY <1>1, <1>3, <2>1, Drops
<1>5. CASE CancelExternal(m)
  <2>1. /\ MState[e] = "running" /\ e \in cancelled
        /\ MState' = [MState EXCEPT ![e] = "done"] /\ MTasks' = MTasks \ {e}
        /\ cancelled' = cancelled \ {e}
    BY <1>1, <1>2, <1>5 DEF CancelExternal, Deregistered, MState, MTasks
  <2>2. QED
    BY <1>1, <1>3, <2>1, EndsCancelled
<1>6. CASE SuspendExternal(m)
  <2>1. /\ MState[e] \in {"created", "running"} /\ e \notin cancelled
        /\ MState' = [u \in ExternalTasks |-> IF u = e THEN "running" ELSE MState[u]]
        /\ MTasks' = MTasks /\ UNCHANGED cancelled
    BY <1>1, <1>2, <1>6 DEF SuspendExternal, ExternalRuns, MState, MTasks
  <2>2. QED
    BY <1>1, <1>3, <2>1, Steps
<1>7. CASE RefuseImport(m) \/ FinishExternal(m)
  <2>1. Finishing(e, {})
    BY <1>1, <1>2, <1>7
       DEF RefuseImport, FinishExternal, ExternalRuns, Deregistered, Finishing, MState, MTasks
  <2>2. QED
    BY <1>1, <1>3, <2>1, Finishes
<1>8. CASE StartImport(m)
  <2>1. pc[Import(m)] = "none"
    BY <1>1 DEF IInv, MessageInv
  <2>2. Finishing(e, {Import(m)})
    BY <1>1, <1>2, <1>8, <2>1
       DEF StartImport, ExternalRuns, Deregistered, Finishing, MState, MTasks
  <2>3. QED
    BY <1>1, <1>3, <2>2, Finishes
<1>9. QED
  BY <1>4, <1>5, <1>6, <1>7, <1>8 DEF RunExternal

(* The steps of the imports.                                               *)
LEMMA ImportImplements ==
  ASSUME IInv, IInv', [Next]_vars, NEW m \in Msg, RunImport(m)
  PROVE  TM!Next
<1> USE TaskNames, TaskSorts, StateFacts
<1> DEFINE i == Import(m)
<1>1. /\ i \in ExternalTasks /\ i \in Task /\ i \in Managed
      /\ Turn(i) /\ pc[i] \in {"created", "waiting"}
      /\ UNCHANGED gathered
  BY DEF RunImport, DropImport, GatherElements, FinishImport
<1>2. pc \in [Task -> PC] /\ ExternalTasks \subseteq Task
  OBVIOUS
<1>3. WaitsStay
  <2>1. \A u \in Waiter : u # i /\ u \in Task
    OBVIOUS
  <2>2. \A u \in Waiter : pc'[u] = pc[u]
    BY <1>1, <2>1 DEF RunImport, DropImport, GatherElements, FinishImport
  <2>3. QED
    BY <1>1, <2>2, NobodyWaits
<1>4. CASE DropImport(m)
  <2>1. /\ MState[i] = "created" /\ i \in cancelled
        /\ MState' = [MState EXCEPT ![i] = "dropped"] /\ MTasks' = MTasks
        /\ cancelled' = cancelled \ {i}
    BY <1>1, <1>2, <1>4 DEF DropImport, MState, MTasks
  <2>2. QED
    BY <1>1, <1>3, <2>1, Drops
<1>5. CASE GatherElements(m)
  <2>1. /\ MState[i] \in {"created", "running"} /\ i \notin cancelled
        /\ MState' = [u \in ExternalTasks |-> IF u = i THEN "running" ELSE MState[u]]
        /\ MTasks' = MTasks /\ UNCHANGED cancelled
    BY <1>1, <1>2, <1>5 DEF GatherElements, MState, MTasks
  <2>2. QED
    BY <1>1, <1>3, <2>1, Steps
<1>6. CASE FinishImport(m) /\ i \in cancelled
  <2>1. /\ MState[i] = "running"
        /\ MState' = [MState EXCEPT ![i] = "done"] /\ MTasks' = MTasks \ {i}
        /\ cancelled' = cancelled \ {i}
    BY <1>1, <1>2, <1>6 DEF FinishImport, Deregistered, MState, MTasks
  <2>2. QED
    BY <1>1, <1>3, <1>6, <2>1, EndsCancelled
<1>7. CASE FinishImport(m) /\ i \notin cancelled
  <2>1. Finishing(i, {})
    BY <1>1, <1>2, <1>7 DEF FinishImport, Deregistered, Finishing, MState, MTasks
  <2>2. QED
    BY <1>1, <1>3, <2>1, Finishes
<1>8. QED
  BY <1>4, <1>5, <1>6, <1>7 DEF RunImport

(* The handlers that create an external task, answer it, or fail.          *)
LEMMA HandleImplements ==
  ASSUME IInv, IInv', [Next]_vars, NEW m \in Msg,
         StartHandle(m) \/ FailHandle(m) \/ FinishHandle(m)
  PROVE  [TM!Next]_(TM!vars)
<1> USE TaskNames, TaskSorts, StateFacts
<1> DEFINE h == Handle(m)
           e == External(m)
<1>1. /\ h \in Task \ ExternalTasks /\ h \in Waiter /\ e \in ExternalTasks /\ e \in Task
      /\ h # e /\ pc \in [Task -> PC] /\ pc[h] \in {"created", "waiting"}
      /\ m \in DOMAIN read /\ read[m] # "shutdown"
  BY DEF StartHandle, FailHandle, FinishHandle, IInv, MessageInv, Spawning
<1>2. CASE StartHandle(m)
  <2>1. pc[e] = "none"
    BY <1>2 DEF StartHandle, IInv, MessageInv
  <2>2. \A u \in Waiter : u # e /\ u \in Task
    OBVIOUS
  <2>3. /\ \A u \in Waiter : u # h => pc'[u] = pc[u]
        /\ pc[h] = "created" /\ pc'[h] = "waiting" /\ UNCHANGED gathered
    BY <1>1, <1>2, <2>2 DEF StartHandle
  <2>4. WaitsStay
    <3>1. \A n \in DOMAIN read : n \in DOMAIN read' /\ read'[n] = read[n]
      BY ReadGrows
    <3>2. QED
      BY <1>1, <2>3, <3>1, WaitsStayWhen DEF Stages
  <2>5. /\ MState[e] = "none"
        /\ MState' = [MState EXCEPT ![e] = "created"] /\ MTasks' = MTasks \cup {e}
        /\ UNCHANGED cancelled
    <3>1. /\ \A u \in ExternalTasks : u # h /\ u \in Task
          /\ pc' = [pc EXCEPT ![h] = "waiting", ![e] = "created"]
          /\ registered' = registered \cup {e} /\ UNCHANGED cancelled
      BY <1>2 DEF StartHandle
    <3>2. \A u \in ExternalTasks : pc'[u] = IF u = e THEN "created" ELSE pc[u]
      BY <1>1, <3>1
    <3>3. MState[e] = "none" /\ MTasks' = MTasks \cup {e}
      BY <1>1, <2>1, <3>1 DEF MState, MTasks
    <3>4. MState' = [MState EXCEPT ![e] = "created"]
      BY <1>1, <3>2, StateView
    <3>5. QED
      BY <3>1, <3>3, <3>4
  <2>6. QED
    BY <1>1, <2>4, <2>5, Creates
<1>3. CASE FailHandle(m) \/ FinishHandle(m)
  <2>1. /\ \A u \in Task : u # h => pc'[u] = pc[u]
        /\ pc'[h] = "done"
        /\ registered' \cap ExternalTasks = registered \cap ExternalTasks
        /\ UNCHANGED <<cancelled, gathered>>
    BY <1>1, <1>3 DEF FailHandle, FinishHandle, Deregistered
  <2>2. QED
    BY <1>1, <2>1, NotConcerned DEF Stages
<1>4. QED
  BY <1>2, <1>3

(* close(), and the wait() on the external manager that follows it.        *)
LEMMA CloseImplements ==
  ASSUME IInv, IInv', [Next]_vars, NEW t \in Waiter, Closes(t), CloseThenWait(t)
  PROVE  TM!Next
<1> USE TaskNames, TaskSorts, StateFacts
<1>1. PICK stage : Closed(t, stage)
  BY CloseEffect DEF Closes
<1>2. /\ stage \in Stages \cup {"closed", "done"}
      /\ stage = "done" => open
      /\ open => stage \in {"external", "internal"}
  <2>1. /\ stage \in Stages \cup (IF t = Main THEN {"closed"} ELSE {"done"})
        /\ open => stage \in {"external", "internal"}
    BY <1>1 DEF Closed, Waits
  <2>2. t # Main => open
    BY DEF Closes, IInv, HandlerFirstInv
  <2>3. QED
    BY <2>1, <2>2 DEF Stages
<1>3. /\ \A u \in Task : pc'[u] = IF u = t THEN stage
                                  ELSE IF u = Teardown /\ open THEN "created" ELSE pc[u]
      /\ cancelled' = ExternalTasks \cap Unfinished
      /\ Waits(t, "external", IF open THEN registered \cup {Teardown} ELSE registered,
               IF open THEN [pc EXCEPT ![Teardown] = "created"] ELSE pc, stage)
  BY <1>1 DEF Closed
<1>4. /\ t \notin ExternalTasks /\ Teardown \notin ExternalTasks /\ Teardown \notin Waiter
      /\ \A u \in ExternalTasks \cup Waiter : u \in Task
      /\ t \in Task
  OBVIOUS
<1>5. TasksStay
  <2>1. \A u \in ExternalTasks : pc'[u] = pc[u]
    BY <1>3, <1>4
  <2>2. registered' \cap ExternalTasks = registered \cap ExternalTasks
    BY <1>3, <1>4 DEF Waits
  <2>3. QED
    BY <2>1, <2>2 DEF TasksStay, MState, MTasks
<1>6. WaitMoves(t)
  <2>1. \A n \in DOMAIN read : n \in DOMAIN read' /\ read'[n] = read[n]
    BY ReadGrows
  <2>2. \A u \in Waiter : u # t => pc'[u] = pc[u] /\ gathered'[u] = gathered[u]
    <3>1. gathered \in [Waiter -> SUBSET Managed]
      BY DEF IInv, TypeOK
    <3>2. QED
      BY <1>3, <1>4, <3>1 DEF Waits
  <2>3. pc'[t] = stage /\ stage # "done"
    BY <1>2, <1>3, <1>4
  <2>4. stage = "external" => MTasks # {} /\ gathered'[t] = MTasks
    <3>1. gathered \in [Waiter -> SUBSET Managed]
      BY DEF IInv, TypeOK
    <3>2. QED
      BY <1>3, <1>4, <3>1 DEF Waits, MTasks, TasksOf
  <2>5. stage # "external" => MTasks = {}
    BY <1>3, <1>4 DEF Waits, MTasks
  <2>6. QED
    BY <1>2, <2>1, <2>2, <2>3, <2>4, <2>5, WaitMovesWhen
<1>7. MWaiter[t] = "idle"
  <2>1. pc[t] \in {"reading", "created"}
    BY DEF Closes
  <2>2. QED
    BY <2>1 DEF MWaiter
<1>8. \/ UNCHANGED cancelled
      \/ cancelled' = cancelled \cup (MTasks \cap (ExternalTasks \cap Unfinished))
  <2>1. CASE open
    <3>1. cancelled = {} /\ ExternalTasks \cap Unfinished \subseteq MTasks
      BY <2>1 DEF IInv, CloseInv, RegistryInv, Unfinished, MTasks
    <3>2. QED
      BY <1>3, <3>1
  <2>2. CASE ~open
    BY <1>3, <2>2 DEF IInv, CloseInv
  <2>3. QED
    BY <2>1, <2>2
<1>9. QED
  BY <1>5, <1>6, <1>7, <1>8, BeginsWait

(* wait() goes on: the one on the external manager, or a later one.        *)
LEMMA ResumeImplements ==
  ASSUME IInv, IInv', [Next]_vars, NEW t \in Waiter, ResumeWait(t)
  PROVE  [TM!Next]_(TM!vars)
<1> USE TaskNames, TaskSorts, StateFacts
<1>1. /\ Turn(t) /\ pc[t] \in Stages
      /\ WaitFrom(t, pc[t], registered, pc)
      /\ UNCHANGED <<read, cancelled>>
  BY DEF ResumeWait, stream, Stages
<1>2. PICK stage \in Stages \cup {"closed", "done"} : Waits(t, pc[t], registered, pc, stage)
  BY <1>1, WaitFromFacts
<1>3. /\ t \notin ExternalTasks /\ t \in Task
      /\ \A u \in ExternalTasks \cup Waiter : u \in Task
      /\ gathered \in [Waiter -> SUBSET Managed]
  BY DEF IInv, TypeOK
<1>4. /\ \A u \in Task : pc'[u] = IF u = t THEN stage ELSE pc[u]
      /\ registered' \cap ExternalTasks = registered \cap ExternalTasks
      /\ \A u \in Waiter : u # t => gathered'[u] = gathered[u]
      /\ stage \in Stages \cup (IF t = Main THEN {"closed"} ELSE {"done"})
  BY <1>2, <1>3 DEF Waits
<1>5. TasksStay
  <2>1. \A u \in ExternalTasks : pc'[u] = pc[u]
    BY <1>3, <1>4
  <2>2. QED
    BY <1>4, <2>1 DEF TasksStay, MState, MTasks
<1>6. stage = "done" => \E m \in DOMAIN read : t = Handle(m) /\ read[m] = "shutdown"
  <2>1. SUFFICES ASSUME stage = "done"
                 PROVE  \E m \in DOMAIN read : t = Handle(m) /\ read[m] = "shutdown"
    OBVIOUS
  <2>2. PICK m \in Msg : t = Handle(m)
    BY <1>4, <2>1 DEF Waiter, ConnectionTasks, Stages
  <2>3. QED
    BY <1>1, <2>2 DEF IInv, MessageInv, Stages
<1>7. CASE pc[t] = "external"
  <2>1. /\ stage = "external" => MTasks # {} /\ gathered'[t] = MTasks
        /\ stage # "external" => MTasks = {}
    BY <1>2, <1>3, <1>7 DEF Waits, MTasks, TasksOf
  <2>2. WaitMoves(t)
    BY <1>1, <1>3, <1>4, <1>6, <2>1, WaitMovesWhen
  <2>3. MWaiter[t] = "gathering"
    BY <1>7 DEF MWaiter
  <2>4. gathered[t] \cap Unfinished = {}
    BY <1>1, TurnFacts DEF IInv, WaitInv
  <2>5. MGathered[t] = gathered[t]
    BY <1>7 DEF MGathered
  <2>6. MGathered[t] \cap Unfinished = {}
    BY <2>4, <2>5
  <2>7. QED
    BY <1>1, <1>5, <2>2, <2>3, <2>6, ResumesWait
<1>8. CASE pc[t] # "external"
  <2>1. stage # "external"
    BY <1>2, <1>8 DEF Waits
  <2>2. MGathered' = MGathered
    BY <1>3, <1>4, <1>8, <2>1 DEF MGathered
  <2>3. ASSUME NEW u \in Waiter
        PROVE  Through(u)' <=> Through(u)
    <3>1. CASE u = t
      <4>1. Through(u)
        BY <1>1, <1>8, <3>1 DEF Through, Stages
      <4>2. Through(u)'
        BY <1>1, <1>3, <1>4, <1>6, <2>1, <3>1 DEF Through, Stages
      <4>3. QED
        BY <4>1, <4>2
    <3>2. CASE u # t
      BY <1>1, <1>3, <1>4, <3>2 DEF Through
    <3>3. QED
      BY <3>1, <3>2
  <2>4. \A u \in Waiter : pc'[u] = "external" <=> pc[u] = "external"
    BY <1>3, <1>4, <1>8, <2>1
  <2>5. Progress' = Progress
    BY <2>3, <2>4 DEF Progress
  <2>6. WaitsStay
    BY <2>2, <2>5, WaiterView, WaiterViewNext DEF WaitsStay
  <2>7. QED
    BY <1>1, <1>5, <2>6, Stutters
<1>9. QED
  BY <1>7, <1>8

(* Every step of the plugin is one of the manager, or does not concern it. *)
LEMMA ManagerStep == IInv /\ IInv' /\ [Next]_vars => [TM!Next]_(TM!vars)
<1> SUFFICES ASSUME IInv, IInv', [Next]_vars
             PROVE  [TM!Next]_(TM!vars)
  OBVIOUS
<1>1. Main \in Task \ ExternalTasks /\ Main \in Waiter
  BY TaskNames, TaskSorts
<1>2. CASE UNCHANGED <<pc, cancelled, registered, gathered>>
  BY <1>1, <1>2, NotConcerned
<1>3. ASSUME NEW k \in Kinds, HandleInTask(k) \/ InitializeCache
      PROVE  UNCHANGED TM!vars
  <2>1. PICK m \in Msg : \E j : Taken(j, m)
    BY <1>3, TakeFacts DEF HandleInTask, InitializeCache
  <2>2. m = NextMsg /\ pc[Handle(m)] = "none" /\ pc[Tick(m)] = "none"
    BY <2>1 DEF Taken
  <2>3. PICK x \in {Handle(m), Tick(m)} :
           /\ pc' = [pc EXCEPT ![x] = "created"]
           /\ registered' = registered \cup {x}
           /\ UNCHANGED <<cancelled, gathered>>
    BY <1>3, <2>2 DEF HandleInTask, InitializeCache
  <2>4. /\ x \in Task \ ExternalTasks /\ pc[x] = "none" /\ pc'[x] = "created"
        /\ \A u \in Task : u # x => pc'[u] = pc[u]
        /\ registered' \cap ExternalTasks = registered \cap ExternalTasks
    BY <2>2, <2>3, TaskNames, TaskSorts, StateFacts
  <2>5. QED
    BY <2>3, <2>4, NotConcerned DEF Stages
<1>4. CASE LeaveRun
  <2>1. Closes(Main) /\ CloseThenWait(Main)
    BY <1>4, MainTurn DEF LeaveRun, Closes
  <2>2. QED
    BY <1>1, <2>1, CloseImplements
<1>5. ASSUME NEW k, RunFails(k)
      PROVE  [TM!Next]_(TM!vars)
  <2>1. Closes(Main) /\ CloseThenWait(Main)
    BY <1>5, MainTurn DEF RunFails, Take, Closes
  <2>2. QED
    BY <1>1, <2>1, CloseImplements
<1>6. ASSUME NEW t \in Waiter, ResumeWait(t)
      PROVE  [TM!Next]_(TM!vars)
  BY <1>6, ResumeImplements
<1>7. ASSUME NEW m \in Msg, Shutdown(m)
      PROVE  TM!Next
  <2>1. Handle(m) \in Waiter /\ CloseThenWait(Handle(m))
    BY <1>7, TaskNames, TaskSorts DEF Shutdown, Waiter
  <2>2. Closes(Handle(m))
    BY <1>7 DEF Shutdown, Closes, IInv, HandlerFirstInv, MessageInv
  <2>3. QED
    BY <2>1, <2>2, CloseImplements
<1>8. ASSUME NEW m \in Msg, StartHandle(m) \/ FailHandle(m) \/ FinishHandle(m)
      PROVE  [TM!Next]_(TM!vars)
  BY <1>8, HandleImplements
<1>9. ASSUME NEW m \in Msg, RunExternal(m) \/ RunImport(m)
      PROVE  TM!Next
  BY <1>9, ExternalImplements, ImportImplements
<1>10. CASE (\E m \in Msg : PassControl(m)) \/ RunTeardown
  <2>1. PICK x \in InternalTasks :
           /\ \A u \in Task : u # x => pc'[u] = pc[u]
           /\ registered' \in {registered, registered \ {x}}
           /\ UNCHANGED <<cancelled, gathered>>
    BY <1>10, TaskSorts, StateFacts DEF PassControl, RunTeardown, Deregistered
  <2>2. x \in Task \ ExternalTasks /\ x \notin Waiter
    BY TaskNames, TaskSorts
  <2>3. registered' \cap ExternalTasks = registered \cap ExternalTasks
    BY <2>1, <2>2
  <2>4. QED
    BY <2>1, <2>2, <2>3, NotConcerned
<1>11. QED
  BY <1>2, <1>3, <1>4, <1>5, <1>6, <1>7, <1>8, <1>9, <1>10
     DEF Next, RunReady, RunMain, RunHandle, Send, CloseStream, Wake, ReadBlocks, Ping,
         RejectNotification, Exited, TaskKinds, Kinds, vars

(* The plugin's external task manager is a TaskManager.                    *)
THEOREM ManagerImplemented == Spec => ExternalManagerImplemented
<1>1. Init => TM!Init
  BY TaskNames, TaskSorts DEF Init, TM!Init
<1>2. QED
  BY <1>1, ManagerStep, Invariance, PTL DEF Spec, ExternalManagerImplemented, TM!Spec

-----------------------------------------------------------------------------
(* The theorems about TaskManager, of the manager inside the plugin.       *)
Manager == INSTANCE TaskManager_proofs WITH
    Task <- ExternalTasks,
    Waiter <- Waiter,
    state <- [t \in ExternalTasks |-> IF pc[t] = "waiting" THEN "running" ELSE pc[t]],
    cancelled <- cancelled,
    tasks <- registered \cap ExternalTasks,
    waiter <- [t \in Waiter |->
                 CASE pc[t] = "external" -> "gathering"
                   [] pc[t] \in {"internal", "connection", "closed"} -> "returned"
                   [] pc[t] = "done" /\ read[t[2]] = "shutdown" -> "returned"
                   [] OTHER -> "idle"],
    gathered <- [t \in Waiter |-> IF pc[t] = "external" THEN gathered[t] ELSE {}]

(* It is the TaskManager that GalaxyPlugin instantiates.                   *)
LEMMA SameManager ==
  /\ TM!Init <=> Manager!Init
  /\ TM!Next <=> Manager!Next
  /\ TM!vars = Manager!vars
<1>1. TM!Init <=> Manager!Init
  BY DEF TM!Init, Manager!Init
<1>2. TM!Next <=> Manager!Next
  BY Zenon
     DEF TM!Next, TM!CreateTask, TM!StepTask, TM!FinishTask, TM!EndCancelled, TM!CatchCancelled,
         TM!DropTask, TM!Cancel, TM!BeginWait, TM!CancelAndWait, TM!ResumeWait, TM!CheckTasks,
         TM!CancelRequested, TM!Live,
         Manager!Next, Manager!CreateTask, Manager!StepTask, Manager!FinishTask,
         Manager!EndCancelled, Manager!CatchCancelled, Manager!DropTask, Manager!Cancel,
         Manager!BeginWait, Manager!CancelAndWait, Manager!ResumeWait, Manager!CheckTasks,
         Manager!CancelRequested, Manager!Live
<1>3. TM!vars = Manager!vars
  BY DEF TM!vars, Manager!vars
<1>4. QED
  BY <1>1, <1>2, <1>3

(* Whoever closes the plugin gets through its wait() for the external      *)
(* manager only at a moment when no task of that manager is unfinished.    *)
(* This is not proved again: it follows from the refinement and from what  *)
(* is proved about TaskManager.                                            *)
THEOREM ExternalWaitIsSound == Spec => TM!WaitReturnsOnlyWhenQuiet
<1> DEFINE Returns(live) == \A w \in Waiter :
             MWaiter[w] # "returned" /\ MWaiter'[w] = "returned" => live = {}
<1>1. [TM!Next]_(TM!vars) <=> [Manager!Next]_(Manager!vars)
  BY SameManager DEF TM!vars, Manager!vars
<1>2. TM!Spec => Manager!Spec
  BY <1>1, SameManager, PTL DEF TM!Spec, Manager!Spec
<1>3. Manager!Spec => Manager!WaitReturnsOnlyWhenQuiet
  BY Manager!WaitIsSound
<1>4. [Returns(Manager!Live')]_(Manager!vars) <=> [Returns(TM!Live')]_(TM!vars)
  <2>1. Manager!Live' = TM!Live'
    BY DEF TM!Live, Manager!Live
  <2>2. UNCHANGED Manager!vars <=> UNCHANGED TM!vars
    BY DEF TM!vars, Manager!vars
  <2>3. QED
    BY <2>1, <2>2
<1>5. Manager!WaitReturnsOnlyWhenQuiet => TM!WaitReturnsOnlyWhenQuiet
  BY <1>4, PTL DEF Manager!WaitReturnsOnlyWhenQuiet, TM!WaitReturnsOnlyWhenQuiet, MWaiter
<1>6. QED
  BY <1>2, <1>3, <1>5, ManagerImplemented, PTL DEF ExternalManagerImplemented

=============================================================================
