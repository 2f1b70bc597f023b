------------------------ MODULE TransferQueueProofs ------------------------
(***************************************************************************)
(* Inv of TransferQueueInv is inductive, and the safety properties of      *)
(* TransferQueue follow from it, for every set of tasks and configurations *)
(* and every limit; so does that the queue implements TransferService.     *)
(***************************************************************************)
EXTENDS TransferQueueInv, TransferRefinement, TLAPS, SequenceTheorems, FiniteSetTheorems

-----------------------------------------------------------------------------
(* Sequences: what the four operations on the queues keep.                 *)

\* Appending adds the new element and nothing else.
LEMMA AppendContains ==
    ASSUME NEW S, NEW s \in Seq(S), NEW e \in S, NEW x
    PROVE  Contains(Append(s, e), x) <=> Contains(s, x) \/ x = e
  BY DEF Contains

\* Receiving removes the head and nothing else.
LEMMA TailContains ==
    ASSUME NEW S, NEW s \in Seq(S), s # <<>>, NEW x
    PROVE  Contains(s, x) <=> x = Head(s) \/ Contains(Tail(s), x)
  <1>1. /\ Tail(s) \in Seq(S)
        /\ Len(Tail(s)) = Len(s) - 1
        /\ \A i \in 1..Len(Tail(s)) : Tail(s)[i] = s[i + 1]
    BY HeadTailProperties
  <1>2. Head(s) = s[1] /\ Len(s) \in Nat \ {0}
    OBVIOUS
  <1>3. ASSUME Contains(s, x), x # Head(s)
        PROVE  Contains(Tail(s), x)
    <2>1. PICK i \in 1..Len(s) : s[i] = x
      BY <1>3 DEF Contains
    <2>2. i - 1 \in 1..Len(Tail(s)) /\ Tail(s)[i - 1] = x
      BY <2>1, <1>1, <1>2, <1>3
    <2> QED  BY <2>2 DEF Contains
  <1>4. ASSUME Contains(Tail(s), x)
        PROVE  Contains(s, x)
    BY <1>4, <1>1, <1>2 DEF Contains
  <1> QED  BY <1>2, <1>3, <1>4 DEF Contains

\* An element stays unique when another one, or a new one, is appended.
LEMMA AppendOnce ==
    ASSUME NEW S, NEW s \in Seq(S), NEW e \in S, NEW x,
           Once(s, x), x # e \/ ~Contains(s, x)
    PROVE  Once(Append(s, e), x)
  BY DEF Once, Contains

\* An element stays unique when the head goes; if it was the head it is gone.
LEMMA TailOnce ==
    ASSUME NEW S, NEW s \in Seq(S), s # <<>>, NEW x, Once(s, x)
    PROVE  /\ Once(Tail(s), x)
           /\ x = Head(s) => ~Contains(Tail(s), x)
  <1>1. /\ Tail(s) \in Seq(S)
        /\ Len(Tail(s)) = Len(s) - 1
        /\ \A i \in 1..Len(Tail(s)) : Tail(s)[i] = s[i + 1]
    BY HeadTailProperties
  <1>2. Head(s) = s[1] /\ Len(s) \in Nat \ {0}
    OBVIOUS
  <1>3. Once(Tail(s), x)
    <2> SUFFICES ASSUME NEW i \in 1..Len(Tail(s)), NEW j \in 1..Len(Tail(s)),
                        Tail(s)[i] = x, Tail(s)[j] = x
                 PROVE  i = j
      BY DEF Once
    <2>1. i + 1 \in 1..Len(s) /\ j + 1 \in 1..Len(s) /\ s[i + 1] = x /\ s[j + 1] = x
      BY <1>1, <1>2
    <2> QED  BY <2>1 DEF Once
  <1>4. ASSUME x = Head(s), Contains(Tail(s), x)
        PROVE  FALSE
    <2>1. PICK i \in 1..Len(Tail(s)) : Tail(s)[i] = x
      BY <1>4 DEF Contains
    <2>2. 1 \in 1..Len(s) /\ i + 1 \in 1..Len(s) /\ s[1] = x /\ s[i + 1] = x
      BY <2>1, <1>1, <1>2, <1>4
    <2> QED  BY <2>2 DEF Once
  <1> QED  BY <1>3, <1>4

\* RemoveAt shifts what is behind the index.
LEMMA RemoveAtProperties ==
    ASSUME NEW S, NEW s \in Seq(S), NEW i \in 1..Len(s)
    PROVE  /\ RemoveAt(s, i) \in Seq(S)
           /\ Len(RemoveAt(s, i)) = Len(s) - 1
           /\ \A j \in 1..Len(s) - 1 :
                RemoveAt(s, i)[j] = IF j < i THEN s[j] ELSE s[j + 1]
  <1> DEFINE a == SubSeq(s, 1, i - 1)
             b == SubSeq(s, i + 1, Len(s))
  <1>0. Len(s) \in Nat /\ i \in Nat
    OBVIOUS
  <1>1. /\ a \in Seq(S)
        /\ Len(a) = i - 1
        /\ \A j \in 1..i - 1 : a[j] = s[j]
    BY <1>0
  <1>2. /\ b \in Seq(S)
        /\ Len(b) = Len(s) - i
        /\ \A j \in 1..Len(s) - i : b[j] = s[j + i]
    BY <1>0
  <1>3. /\ a \o b \in Seq(S)
        /\ Len(a \o b) = Len(s) - 1
        /\ \A j \in 1..Len(s) - 1 : (a \o b)[j] = IF j < i THEN a[j] ELSE b[j - i + 1]
    <2> HIDE DEF a, b
    <2>1. /\ a \o b \in Seq(S)
          /\ Len(a \o b) = Len(a) + Len(b)
          /\ \A j \in 1..Len(a) + Len(b) :
               (a \o b)[j] = IF j <= Len(a) THEN a[j] ELSE b[j - Len(a)]
      BY <1>1, <1>2, ConcatProperties
    <2> QED  BY <1>0, <1>1, <1>2, <2>1
  <1>4. RemoveAt(s, i) = a \o b
    BY DEF RemoveAt
  <1>5. \A j \in 1..Len(s) - 1 : (a \o b)[j] = IF j < i THEN s[j] ELSE s[j + 1]
    <2> HIDE DEF a, b
    <2> QED  BY <1>0, <1>1, <1>2, <1>3
  <1> HIDE DEF a, b
  <1> QED  BY <1>3, <1>4, <1>5

\* Removing the one occurrence of an element removes it and nothing else.
LEMMA RemoveAtOnce ==
    ASSUME NEW S, NEW s \in Seq(S), NEW i \in 1..Len(s), NEW x
    PROVE  /\ Contains(RemoveAt(s, i), x) => Contains(s, x)
           /\ Contains(s, x) /\ x # s[i] => Contains(RemoveAt(s, i), x)
           /\ Once(s, x) => Once(RemoveAt(s, i), x)
           /\ Once(s, x) /\ x = s[i] => ~Contains(RemoveAt(s, i), x)
  <1> DEFINE r == RemoveAt(s, i)
  <1>1. /\ r \in Seq(S)
        /\ Len(r) = Len(s) - 1
        /\ \A j \in 1..Len(s) - 1 : r[j] = IF j < i THEN s[j] ELSE s[j + 1]
    BY RemoveAtProperties
  <1>2. Len(s) \in Nat
    OBVIOUS
  <1> HIDE DEF r
  <1>3. Contains(r, x) => Contains(s, x)
    BY <1>1, <1>2 DEF Contains
  <1>4. ASSUME Contains(s, x), x # s[i]
        PROVE  Contains(r, x)
    <2>1. PICK j \in 1..Len(s) : s[j] = x
      BY <1>4 DEF Contains
    <2>2. CASE j < i
      <3>1. j \in 1..Len(r) /\ r[j] = x
        BY <1>1, <1>2, <2>1, <2>2
      <3> QED  BY <3>1 DEF Contains
    <2>3. CASE j > i
      <3>1. j - 1 \in 1..Len(r) /\ r[j - 1] = x
        BY <1>1, <1>2, <2>1, <2>3
      <3> QED  BY <3>1 DEF Contains
    <2> QED  BY <2>1, <2>2, <2>3, <1>4, <1>2
  <1>5. Once(s, x) => Once(r, x)
    BY <1>1, <1>2 DEF Once
  <1>6. Once(s, x) /\ x = s[i] => ~Contains(r, x)
    BY <1>1, <1>2 DEF Once, Contains
  <1> QED  BY <1>3, <1>4, <1>5, <1>6 DEF r

-----------------------------------------------------------------------------
(* The channel.                                                            *)

\* Commands of different kinds, or about different tasks, are different.
LEMMA CommandsDistinct ==
    ASSUME NEW t, NEW u, NEW c
    PROVE  /\ EnqueueCommand(t) = EnqueueCommand(u) <=> t = u
           /\ TaskDoneCommand(t) = TaskDoneCommand(u) <=> t = u
           /\ EnqueueCommand(t) # SetConfigCommand(c)
           /\ EnqueueCommand(t) # CancelCommand(u)
           /\ EnqueueCommand(t) # TaskDoneCommand(u)
           /\ TaskDoneCommand(t) # SetConfigCommand(c)
           /\ TaskDoneCommand(t) # CancelCommand(u)
  <1>1. /\ EnqueueCommand(t).kind = "Enqueue" /\ EnqueueCommand(t).task = t
        /\ EnqueueCommand(u).task = u
        /\ TaskDoneCommand(t).kind = "TaskDone" /\ TaskDoneCommand(t).task = t
        /\ TaskDoneCommand(u).kind = "TaskDone" /\ TaskDoneCommand(u).task = u
        /\ CancelCommand(u).kind = "Cancel"
        /\ SetConfigCommand(c).kind = "SetConfig"
    BY DEF EnqueueCommand, TaskDoneCommand, CancelCommand, SetConfigCommand
  <1> QED  BY <1>1

\* The head of the channel, by its kind.
LEMMA HeadOfKind ==
    ASSUME commands \in Seq(QueueCommand), commands # <<>>
    PROVE  /\ Head(commands) \in QueueCommand
           /\ Head(commands).kind = "SetConfig" => Head(commands).config \in Config
           /\ Head(commands).kind # "SetConfig" => Head(commands).task \in Task
           /\ Head(commands).kind = "Enqueue" <=>
                Head(commands) = EnqueueCommand(Head(commands).task)
           /\ Head(commands).kind = "TaskDone" =>
                Head(commands) = TaskDoneCommand(Head(commands).task)
  <1> DEFINE h == Head(commands)
  <1>1. h \in QueueCommand
    OBVIOUS
  <1> HIDE DEF h
  <1>2. CASE \E c \in Config : h = SetConfigCommand(c)
    BY <1>2 DEF SetConfigCommand, EnqueueCommand, h
  <1>3. CASE \E t \in Task : h = EnqueueCommand(t)
    BY <1>3 DEF EnqueueCommand, h
  <1>4. CASE \E t \in Task : h = CancelCommand(t)
    BY <1>4 DEF CancelCommand, EnqueueCommand, h
  <1>5. CASE \E t \in Task : h = TaskDoneCommand(t)
    BY <1>5 DEF TaskDoneCommand, EnqueueCommand, h
  <1> QED  BY <1>1, <1>2, <1>3, <1>4, <1>5 DEF QueueCommand

\* What a handler knows after it has taken its command from the channel.
LEMMA ReceiveFacts ==
    ASSUME Inv, NEW kind, Receive(kind)
    PROVE  /\ commands' \in Seq(QueueCommand)
           /\ kind = "SetConfig" => Head(commands).config \in Config
           /\ kind # "SetConfig" => Head(commands).task \in Task
           /\ \A t : Contains(commands', TaskDoneCommand(t)) =>
                       Contains(commands, TaskDoneCommand(t))
           /\ \A t : InChannel(t)' => InChannel(t)
           /\ \A t : InChannel(t) =>
                InChannel(t)' \/ (kind = "Enqueue" /\ t = Head(commands).task)
           /\ \A t \in Task : Once(commands', EnqueueCommand(t))
           /\ \A t : kind = "Enqueue" /\ t = Head(commands).task
                       => InChannel(t) /\ ~InChannel(t)'
           /\ kind = "TaskDone" => worker[Head(commands).task] = "gone"
  <1> DEFINE h == Head(commands)
  <1>1. /\ commands \in Seq(QueueCommand)
        /\ commands # <<>>
        /\ h.kind = kind
        /\ commands' = Tail(commands)
    BY DEF Inv, TypeOK, Receive
  <1>2. commands' \in Seq(QueueCommand)
    BY <1>1
  <1>3. \A e : Contains(commands, e) <=> e = h \/ Contains(commands', e)
    BY <1>1, TailContains
  <1>4. /\ kind = "SetConfig" => h.config \in Config
        /\ kind # "SetConfig" => h.task \in Task
        /\ kind = "Enqueue" <=> h = EnqueueCommand(h.task)
        /\ kind = "TaskDone" => h = TaskDoneCommand(h.task)
    BY <1>1, HeadOfKind
  <1> HIDE DEF h
  <1>5. ASSUME NEW t, h = EnqueueCommand(t)
        PROVE  kind = "Enqueue" /\ t = h.task
    BY <1>1, <1>5 DEF EnqueueCommand
  <1>6. \A t \in Task : Once(commands, EnqueueCommand(t))
    BY DEF Inv, QueuedOnce
  <1>7. \A t \in Task : Once(commands', EnqueueCommand(t))
    BY <1>1, <1>6, TailOnce
  <1>8. kind = "Enqueue" => ~Contains(commands', h)
    BY <1>1, <1>4, <1>6, TailOnce DEF h
  <1>9. kind = "TaskDone" => worker[h.task] = "gone"
    BY <1>3, <1>4 DEF Inv, DoneIsLast
  <1>10. /\ \A t : Contains(commands', TaskDoneCommand(t)) =>
                     Contains(commands, TaskDoneCommand(t))
         /\ \A t : InChannel(t)' => InChannel(t)
         /\ \A t : InChannel(t) => InChannel(t)' \/ (kind = "Enqueue" /\ t = h.task)
         /\ \A t : kind = "Enqueue" /\ t = h.task => InChannel(t) /\ ~InChannel(t)'
    BY <1>3, <1>4, <1>5, <1>8 DEF InChannel
  <1> QED
    BY <1>2, <1>4, <1>7, <1>9, <1>10 DEF h

\* What a sender knows after it has put its command into the channel.
LEMMA SendFacts ==
    ASSUME Inv, NEW command \in QueueCommand,
           commands' = Append(commands, command)
    PROVE  /\ commands' \in Seq(QueueCommand)
           /\ \A e : Contains(commands', e) <=> Contains(commands, e) \/ e = command
           /\ \A t \in Task : command # EnqueueCommand(t) \/ ~InChannel(t)
                                => Once(commands', EnqueueCommand(t))
  <1>1. commands \in Seq(QueueCommand)
    BY DEF Inv, TypeOK
  <1>2. \A t \in Task : Once(commands, EnqueueCommand(t))
    BY DEF Inv, QueuedOnce
  <1> QED  BY <1>1, <1>2, AppendContains, AppendOnce DEF InChannel

-----------------------------------------------------------------------------
(* The initial state.                                                      *)

\* Scheduler::spawn, with no command sent and no thread started, satisfies Inv.
LEMMA InitInv == Init => Inv
  <1> SUFFICES ASSUME Init PROVE Inv
    OBVIOUS
  <1> USE DEF Init
  <1>1. TypeOK
    BY DEF TypeOK, Phase
  <1>2. Cardinality(running) = 0 /\ IsFiniteSet(running)
    BY FS_EmptySet
  <1>3. SlotsBounded
    BY <1>2, ConcurrencyAssumption DEF SlotsBounded
  <1>4. \A t : ~InChannel(t) /\ ~InLine(t) /\ ~Contains(commands, TaskDoneCommand(t))
    BY DEF InChannel, InLine, Contains
  <1>5. \A t : Once(commands, EnqueueCommand(t)) /\ Once(pending, t)
    BY DEF Once
  <1>6. Settled /\ AliveHasSlot /\ RejectedForGood /\ SomePlace
    BY DEF Settled, AliveHasSlot, Alive, RejectedForGood, SomePlace
  <1>7. DoneIsLast /\ QueuedIsFresh /\ QueuedOnce
    BY <1>4, <1>5 DEF DoneIsLast, QueuedIsFresh, QueuedOnce, Fresh
  <1>8. LineHasConfig /\ WorkConserving /\ OneHonestReport
    BY DEF LineHasConfig, WorkConserving, OneHonestReport
  <1> QED  BY <1>1, <1>3, <1>6, <1>7, <1>8 DEF Inv

-----------------------------------------------------------------------------
(* Dispatch.  Since no request waits while a slot is free, one command can *)
(* start one transfer at most: the loop takes one turn or none.            *)

\* dispatch takes a turn if somebody waits and a slot is free, never two.
LEMMA TurnsValue ==
    ASSUME NEW waiting \in Seq(Task), NEW slots, IsFiniteSet(slots),
           Cardinality(slots) <= MaxConcurrent,
           Len(waiting) <= 1 \/ Cardinality(slots) >= MaxConcurrent - 1
    PROVE  Turns(waiting, slots) =
             IF waiting = <<>> \/ Cardinality(slots) = MaxConcurrent THEN 0 ELSE 1
  <1>1. Cardinality(slots) \in Nat
    BY FS_CardinalityType
  <1>2. Len(waiting) \in Nat /\ (Len(waiting) = 0 <=> waiting = <<>>)
    OBVIOUS
  <1> QED  BY <1>1, <1>2, ConcurrencyAssumption DEF Turns

\* The outcome of dispatch: nothing, or the front of the line has a slot and,
\* if it could be spawned, a thread.
LEMMA DispatchOutcome ==
    ASSUME TypeOK,
           NEW waiting \in Seq(Task), NEW slots, IsFiniteSet(slots),
           Cardinality(slots) <= MaxConcurrent,
           Len(waiting) <= 1 \/ Cardinality(slots) >= MaxConcurrent - 1,
           waiting # <<>> => cfg # NoConfig,
           Dispatch(waiting, slots)
    PROVE  \/ /\ waiting = <<>> \/ Cardinality(slots) = MaxConcurrent
              /\ pending' = waiting
              /\ running' = slots
              /\ UNCHANGED <<worker, server>>
           \/ /\ waiting # <<>>
              /\ Cardinality(slots) < MaxConcurrent
              /\ pending' = Tail(waiting)
              /\ running' = slots \cup {Head(waiting)}
              /\ worker' \in [Task -> Phase]
              /\ server' \in [Task -> Config \cup {NoConfig}]
              /\ \A t \in Task : \/ worker'[t] = worker[t]
                                 \/ t = Head(waiting) /\ worker'[t] = "started"
  <1> DEFINE n == Turns(waiting, slots)
             batch == {waiting[i] : i \in 1..n}
  <1>0. /\ n = IF waiting = <<>> \/ Cardinality(slots) = MaxConcurrent THEN 0 ELSE 1
        /\ Cardinality(slots) \in Nat
    BY TurnsValue, FS_CardinalityType
  <1>1. CASE cfg = NoConfig
    <2>1. waiting = <<>> /\ n = 0
      BY <1>1, <1>0
    <2> QED  BY <1>1, <2>1 DEF Dispatch
  <1>2. CASE cfg # NoConfig
    <2>1. PICK unborn :
            /\ pending' = SubSeq(waiting, n + 1, Len(waiting))
            /\ running' = slots \cup batch
            /\ worker' = [t \in Task |-> IF t \in batch \ unborn
                                         THEN "started" ELSE worker[t]]
            /\ server' = [t \in Task |-> IF t \in batch \ unborn
                                         THEN cfg ELSE server[t]]
      BY <1>2 DEF Dispatch
    <2>2. CASE n = 0
      <3>1. batch = {}
        BY <2>2
      <3> HIDE DEF n, batch
      <3>2. pending' = waiting
        BY <2>1, <2>2, SubSeqFull
      <3>3. running' = slots
        BY <2>1, <3>1
      <3>4. worker' = [t \in Task |-> worker[t]] /\ server' = [t \in Task |-> server[t]]
        BY <2>1, <3>1
      <3>5. worker' = worker /\ server' = server
        BY <3>4 DEF TypeOK
      <3> QED  BY <1>0, <2>2, <3>2, <3>3, <3>5
    <2>3. CASE n = 1
      <3>1. batch = {Head(waiting)}
        BY <2>3
      <3>2. waiting # <<>> /\ Cardinality(slots) < MaxConcurrent
        BY <1>0, <2>3, ConcurrencyAssumption
      <3> HIDE DEF n, batch
      <3>3. pending' = Tail(waiting)
        BY <2>1, <2>3, <3>2, TailIsSubSeq
      <3>4. /\ worker' \in [Task -> Phase]
            /\ server' \in [Task -> Config \cup {NoConfig}]
        BY <2>1 DEF TypeOK, Phase
      <3>5. \A t \in Task : \/ worker'[t] = worker[t]
                            \/ t = Head(waiting) /\ worker'[t] = "started"
        BY <2>1, <3>1
      <3> QED  BY <2>1, <3>1, <3>2, <3>3, <3>4, <3>5
    <2> QED  BY <1>0, <2>2, <2>3
  <1> QED  BY <1>1, <1>2

\* A handler that ends in dispatch keeps the invariant, if what it hands to
\* dispatch is the line and the slots as the command has changed them.
LEMMA DispatchKeepsInv ==
    ASSUME Inv,
           NEW waiting \in Seq(Task), NEW slots \in SUBSET running,
           Dispatch(waiting, slots),
           UNCHANGED <<cfg, cancelled, rejected, outcome, reports, submitted>>,
           commands' \in Seq(QueueCommand),
           \A t : Contains(commands', TaskDoneCommand(t)) =>
                    Contains(commands, TaskDoneCommand(t)),
           \A t : InChannel(t)' => InChannel(t),
           \A t \in Task : Once(commands', EnqueueCommand(t)),
           Len(waiting) <= 1 \/ Cardinality(slots) >= MaxConcurrent - 1,
           waiting # <<>> => cfg # NoConfig,
           \A t \in Task : Alive(t) => t \in slots,
           \A t \in running \ slots : reports[t] # <<>>,
           \A t \in Task : Contains(waiting, t) => t \in submitted /\ Fresh(t),
           \A t \in Task : Once(waiting, t),
           \A t \in Task : ~(Contains(waiting, t) /\ InChannel(t)'),
           \A t \in Task : InChannel(t) \/ InLine(t) =>
                             InChannel(t)' \/ Contains(waiting, t)
    PROVE  Inv'
  <1> DEFINE head == Head(waiting)
  <1>1. /\ IsFiniteSet(slots)
        /\ Cardinality(slots) \in Nat
        /\ Cardinality(slots) <= MaxConcurrent
        /\ MaxConcurrent \in Nat
    BY FS_Subset, FS_CardinalityType, ConcurrencyAssumption DEF Inv, SlotsBounded
  <1>2. CASE /\ waiting = <<>> \/ Cardinality(slots) = MaxConcurrent
             /\ pending' = waiting
             /\ running' = slots
             /\ UNCHANGED <<worker, server>>
    <2>1. TypeOK'
      BY <1>2 DEF Inv, TypeOK
    <2>2. Settled' /\ AliveHasSlot' /\ DoneIsLast'
      BY <1>2 DEF Inv, Settled, AliveHasSlot, Alive, DoneIsLast
    <2>3. SlotsBounded' /\ WorkConserving' /\ LineHasConfig'
      BY <1>1, <1>2 DEF SlotsBounded, WorkConserving, LineHasConfig
    <2>4. \A t : InLine(t)' <=> Contains(waiting, t)
      BY <1>2 DEF InLine
    <2>5. QueuedIsFresh'
      BY <1>2, <2>4 DEF Inv, QueuedIsFresh, Fresh
    <2>6. QueuedOnce'
      BY <1>2, <2>4 DEF QueuedOnce
    <2>7. RejectedForGood' /\ OneHonestReport'
      BY <1>2 DEF Inv, RejectedForGood, OneHonestReport
    <2>8. SomePlace'
      BY <1>2, <2>4 DEF Inv, TypeOK, SomePlace
    <2> QED  BY <2>1, <2>2, <2>3, <2>5, <2>6, <2>7, <2>8 DEF Inv
  <1>3. CASE /\ waiting # <<>>
             /\ Cardinality(slots) < MaxConcurrent
             /\ pending' = Tail(waiting)
             /\ running' = slots \cup {head}
             /\ worker' \in [Task -> Phase]
             /\ server' \in [Task -> Config \cup {NoConfig}]
             /\ \A t \in Task : \/ worker'[t] = worker[t]
                                \/ t = head /\ worker'[t] = "started"
    <2>1. /\ head \in Task
          /\ Tail(waiting) \in Seq(Task)
          /\ \A t : Contains(waiting, t) <=> t = head \/ Contains(Tail(waiting), t)
          /\ \A t \in Task : Once(Tail(waiting), t)
          /\ ~Contains(Tail(waiting), head)
      BY <1>3, TailContains, TailOnce
    <2> HIDE DEF head
    <2>2. head \in submitted /\ Fresh(head) /\ ~InChannel(head)'
      BY <2>1
    <2>3. head \notin slots
      BY <2>2 DEF Fresh
    <2>4. \A t : InLine(t)' <=> Contains(Tail(waiting), t)
      BY <1>3 DEF InLine
    <2>5. \A t \in Task : t # head => worker'[t] = worker[t]
      BY <1>3
    <2>6. TypeOK'
      BY <1>3, <2>1 DEF Inv, TypeOK
    <2>7. Settled'
      BY <1>3, <2>2 DEF Inv, Settled, Fresh
    <2>8. AliveHasSlot'
      BY <1>3, <2>5 DEF AliveHasSlot, Alive
    <2>9. DoneIsLast'
      <3>1. worker[head] # "gone"
        BY <2>2 DEF Fresh
      <3> QED  BY <2>1, <2>5, <3>1 DEF Inv, DoneIsLast
    <2>10. /\ IsFiniteSet(running')
           /\ Cardinality(running') = Cardinality(slots) + 1
      BY <1>1, <1>3, <2>3, FS_AddElement
    <2>11. SlotsBounded'
      BY <1>1, <1>3, <2>10 DEF SlotsBounded
    <2>12. WorkConserving'
      <3>1. ASSUME pending' # <<>>
            PROVE  Cardinality(slots) = MaxConcurrent - 1
        <4>1. Len(waiting) > 1
          BY <1>3, <3>1
        <4> QED  BY <1>1, <1>3, <4>1
      <3> QED  BY <1>1, <2>10, <3>1 DEF WorkConserving
    <2>13. LineHasConfig'
      BY <1>3 DEF LineHasConfig
    <2>14. QueuedIsFresh'
      <3> SUFFICES ASSUME NEW t \in Task
                   PROVE  /\ t \notin submitted => Fresh(t)'
                          /\ InChannel(t)' \/ InLine(t)' => t \in submitted /\ Fresh(t)'
        BY DEF QueuedIsFresh
      <3>1. t # head /\ Fresh(t) => Fresh(t)'
        BY <1>3, <2>5 DEF Fresh
      <3>2. t \notin submitted => t # head /\ Fresh(t)
        BY <2>2 DEF Inv, QueuedIsFresh
      <3>3. InChannel(t)' \/ InLine(t)' => t # head /\ t \in submitted /\ Fresh(t)
        BY <2>1, <2>2, <2>4 DEF Inv, QueuedIsFresh
      <3> QED  BY <3>1, <3>2, <3>3
    <2>15. QueuedOnce'
      BY <1>3, <2>1, <2>4 DEF QueuedOnce
    <2>16. RejectedForGood'
      <3>1. head \notin rejected
        BY <2>2 DEF Fresh
      <3> QED  BY <1>3, <2>5, <3>1 DEF Inv, TypeOK, RejectedForGood
    <2>17. SomePlace'
      BY <1>3, <2>1, <2>4 DEF Inv, TypeOK, SomePlace
    <2>18. OneHonestReport'
      <3>1. reports[head] = <<>>
        BY <2>2 DEF Fresh
      <3> QED  BY <2>5, <3>1 DEF Inv, OneHonestReport
    <2> QED  BY <2>6, <2>7, <2>8, <2>9, <2>11, <2>12, <2>13, <2>14, <2>15,
                <2>16, <2>17, <2>18 DEF Inv
  <1>4. TypeOK
    BY DEF Inv
  <1> QED  BY <1>1, <1>2, <1>3, <1>4, DispatchOutcome

-----------------------------------------------------------------------------
(* One lemma per group of actions: the sender, the scheduler, the thread.  *)

\* A command sent by the control thread changes the channel alone; an Enqueue
\* carries a task that was never sent before.
LEMMA ClientKeepsInv == Inv /\ Client => Inv'
  <1> SUFFICES ASSUME Inv, Client PROVE Inv'
    OBVIOUS
  <1>1. ASSUME NEW command \in QueueCommand, Send(command),
               \A t \in Task : command # TaskDoneCommand(t),
               \/ submitted' = submitted /\ \A t \in Task : command # EnqueueCommand(t)
               \/ \E u \in Task : /\ u \notin submitted
                                  /\ submitted' = submitted \cup {u}
                                  /\ command = EnqueueCommand(u)
        PROVE  Inv'
    <2>1. /\ commands' \in Seq(QueueCommand)
          /\ \A e : Contains(commands', e) <=> Contains(commands, e) \/ e = command
          /\ \A t \in Task : command # EnqueueCommand(t) \/ ~InChannel(t)
                               => Once(commands', EnqueueCommand(t))
      BY <1>1, SendFacts DEF Send
    <2>2. UNCHANGED <<schedulerVars, workerVars, reports>>
      BY <1>1 DEF Send
    <2> USE DEF schedulerVars, workerVars
    <2>3. \A t \in Task : command = EnqueueCommand(t) =>
                            t \notin submitted /\ submitted' = submitted \cup {t}
      BY <1>1, CommandsDistinct
    <2>4. \A t \in Task : /\ InChannel(t)' <=> InChannel(t) \/ command = EnqueueCommand(t)
                          /\ InLine(t)' <=> InLine(t)
      BY <2>1, <2>2 DEF InChannel, InLine
    <2>5. /\ submitted \subseteq submitted'
          /\ \A t \in submitted' : t \in submitted \/ command = EnqueueCommand(t)
          /\ submitted' \subseteq Task
      BY <1>1 DEF Inv, TypeOK
    <2>6. \A t \in Task : command = EnqueueCommand(t) =>
                            Fresh(t) /\ ~InChannel(t) /\ ~InLine(t)
      BY <2>3 DEF Inv, QueuedIsFresh
    <2>7. TypeOK'
      BY <2>1, <2>2, <2>5 DEF Inv, TypeOK
    <2>8. Settled' /\ SlotsBounded' /\ AliveHasSlot'
      BY <2>2 DEF Inv, Settled, SlotsBounded, AliveHasSlot, Alive
    <2>9. DoneIsLast'
      BY <1>1, <2>1, <2>2 DEF Inv, DoneIsLast
    <2>10. QueuedIsFresh'
      BY <2>2, <2>3, <2>4, <2>5, <2>6 DEF Inv, QueuedIsFresh, Fresh
    <2>11. QueuedOnce'
      BY <2>1, <2>2, <2>4, <2>6 DEF Inv, QueuedOnce
    <2>12. RejectedForGood' /\ LineHasConfig' /\ WorkConserving' /\ OneHonestReport'
      BY <2>2 DEF Inv, RejectedForGood, LineHasConfig, WorkConserving, OneHonestReport
    <2>13. SomePlace'
      BY <2>2, <2>4, <2>5, <2>7 DEF Inv, TypeOK, SomePlace
    <2> QED  BY <2>7, <2>8, <2>9, <2>10, <2>11, <2>12, <2>13 DEF Inv
  <1>2. ASSUME NEW c \in Config, SendSetConfig(c)
        PROVE  Inv'
    BY <1>1, <1>2, CommandsDistinct DEF SendSetConfig, QueueCommand
  <1>3. ASSUME NEW t \in Task, SendEnqueue(t)
        PROVE  Inv'
    BY <1>1, <1>3, CommandsDistinct DEF SendEnqueue, QueueCommand
  <1>4. ASSUME NEW t \in Task, SendCancel(t)
        PROVE  Inv'
    BY <1>1, <1>4, CommandsDistinct DEF SendCancel, QueueCommand
  <1> QED  BY <1>2, <1>3, <1>4 DEF Client

\* A new configuration leaves every request where it is.
LEMMA RecvSetConfigKeepsInv == Inv /\ RecvSetConfig => Inv'
  <1> SUFFICES ASSUME Inv, RecvSetConfig PROVE Inv'
    OBVIOUS
  <1>1. /\ commands' \in Seq(QueueCommand)
        /\ cfg' \in Config
        /\ \A t : Contains(commands', TaskDoneCommand(t)) =>
                    Contains(commands, TaskDoneCommand(t))
        /\ \A t : InChannel(t)' <=> InChannel(t)
        /\ \A t \in Task : Once(commands', EnqueueCommand(t))
    BY ReceiveFacts DEF RecvSetConfig
  <1>2. UNCHANGED <<pending, running, cancelled, rejected, workerVars, reports, submitted>>
    BY DEF RecvSetConfig, Receive
  <1> USE DEF workerVars
  <1>3. \A t : InLine(t)' <=> InLine(t)
    BY <1>2 DEF InLine
  <1>4. TypeOK'
    BY <1>1, <1>2 DEF Inv, TypeOK
  <1>5. Settled' /\ SlotsBounded' /\ AliveHasSlot'
    BY <1>2 DEF Inv, Settled, SlotsBounded, AliveHasSlot, Alive
  <1>6. DoneIsLast'
    BY <1>1, <1>2 DEF Inv, DoneIsLast
  <1>7. QueuedIsFresh' /\ QueuedOnce'
    BY <1>1, <1>2, <1>3 DEF Inv, QueuedIsFresh, QueuedOnce, Fresh
  <1>8. RejectedForGood' /\ WorkConserving' /\ OneHonestReport'
    BY <1>2 DEF Inv, RejectedForGood, WorkConserving, OneHonestReport
  <1>9. LineHasConfig'
    BY <1>1, ConfigAssumption DEF LineHasConfig
  <1>10. SomePlace'
    BY <1>1, <1>2, <1>3 DEF Inv, TypeOK, SomePlace
  <1> QED  BY <1>4, <1>5, <1>6, <1>7, <1>8, <1>9, <1>10 DEF Inv

\* A request goes from the channel to the line, on to a slot, or is rejected.
LEMMA RecvEnqueueKeepsInv == Inv /\ RecvEnqueue => Inv'
  <1> SUFFICES ASSUME Inv, RecvEnqueue PROVE Inv'
    OBVIOUS
  <1> DEFINE task == Head(commands).task
  <1>1. /\ commands' \in Seq(QueueCommand)
        /\ task \in Task
        /\ \A t : Contains(commands', TaskDoneCommand(t)) =>
                    Contains(commands, TaskDoneCommand(t))
        /\ \A t : InChannel(t)' => InChannel(t)
        /\ \A t : InChannel(t) => InChannel(t)' \/ t = task
        /\ \A t : t = task => InChannel(t) /\ ~InChannel(t)'
        /\ \A t \in Task : Once(commands', EnqueueCommand(t))
    BY ReceiveFacts DEF RecvEnqueue
  <1>2. /\ UNCHANGED <<cfg, cancelled, outcome, reports, submitted>>
        /\ IF cfg = NoConfig
           THEN /\ rejected' = rejected \cup {task}
                /\ UNCHANGED <<pending, running, worker, server>>
           ELSE /\ Dispatch(Append(pending, task), running)
                /\ UNCHANGED rejected
    BY DEF RecvEnqueue, Receive
  <1> HIDE DEF task
  <1>3. task \in submitted /\ Fresh(task) /\ ~InLine(task)
    BY <1>1 DEF Inv, QueuedIsFresh, QueuedOnce
  <1>4. CASE cfg = NoConfig
    <2>1. /\ rejected' = rejected \cup {task}
          /\ UNCHANGED <<cfg, pending, running, cancelled, worker, server, outcome,
                         reports, submitted>>
      BY <1>2, <1>4
    <2>2. \A t : InLine(t)' <=> InLine(t)
      BY <2>1 DEF InLine
    <2>3. TypeOK'
      BY <1>1, <2>1 DEF Inv, TypeOK
    <2>4. Settled' /\ SlotsBounded' /\ AliveHasSlot'
      BY <2>1 DEF Inv, Settled, SlotsBounded, AliveHasSlot, Alive
    <2>5. DoneIsLast'
      BY <1>1, <2>1 DEF Inv, DoneIsLast
    <2>6. QueuedIsFresh'
      BY <1>1, <1>3, <2>1, <2>2 DEF Inv, QueuedIsFresh, Fresh
    <2>7. QueuedOnce'
      BY <1>1, <2>1, <2>2 DEF Inv, QueuedOnce
    <2>8. RejectedForGood'
      BY <1>3, <2>1 DEF Inv, RejectedForGood, Fresh
    <2>9. SomePlace'
      BY <1>1, <2>1, <2>2 DEF Inv, TypeOK, SomePlace
    <2>10. LineHasConfig' /\ WorkConserving' /\ OneHonestReport'
      BY <2>1 DEF Inv, LineHasConfig, WorkConserving, OneHonestReport
    <2> QED  BY <2>3, <2>4, <2>5, <2>6, <2>7, <2>8, <2>9, <2>10 DEF Inv
  <1>5. CASE cfg # NoConfig
    <2> DEFINE waiting == Append(pending, task)
    <2>1. pending \in Seq(Task)
      BY DEF Inv, TypeOK
    <2>2. /\ waiting \in Seq(Task)
          /\ \A t : Contains(waiting, t) <=> InLine(t) \/ t = task
          /\ \A t \in Task : Once(waiting, t)
      BY <1>1, <1>3, <2>1, AppendContains, AppendOnce DEF Inv, QueuedOnce, InLine
    <2>3. Len(waiting) <= 1 \/ Cardinality(running) >= MaxConcurrent - 1
      BY <2>1, ConcurrencyAssumption DEF Inv, WorkConserving
    <2>4. \A t \in Task : Contains(waiting, t) => t \in submitted /\ Fresh(t)
      BY <1>3, <2>2 DEF Inv, QueuedIsFresh
    <2>5. \A t \in Task : ~(Contains(waiting, t) /\ InChannel(t)')
      BY <1>1, <2>2 DEF Inv, QueuedOnce
    <2>6. \A t \in Task : InChannel(t) \/ InLine(t) =>
                            InChannel(t)' \/ Contains(waiting, t)
      BY <1>1, <2>2
    <2>7. \A t \in Task : Alive(t) => t \in running
      BY DEF Inv, AliveHasSlot
    <2>8. /\ UNCHANGED <<cfg, cancelled, rejected, outcome, reports, submitted>>
          /\ Dispatch(waiting, running)
      BY <1>2, <1>5
    <2> HIDE DEF waiting
    <2> QED  BY <1>1, <1>5, <2>2, <2>3, <2>4, <2>5, <2>6, <2>7, <2>8, DispatchKeepsInv
  <1> QED  BY <1>4, <1>5

\* A slot is freed only after its thread is gone and has reported.
LEMMA RecvTaskDoneKeepsInv == Inv /\ RecvTaskDone => Inv'
  <1> SUFFICES ASSUME Inv, RecvTaskDone PROVE Inv'
    OBVIOUS
  <1> DEFINE task == Head(commands).task
             slots == running \ {task}
  <1>1. /\ commands' \in Seq(QueueCommand)
        /\ task \in Task
        /\ \A t : Contains(commands', TaskDoneCommand(t)) =>
                    Contains(commands, TaskDoneCommand(t))
        /\ \A t : InChannel(t)' <=> InChannel(t)
        /\ \A t \in Task : Once(commands', EnqueueCommand(t))
        /\ worker[task] = "gone"
    BY ReceiveFacts DEF RecvTaskDone
  <1>2. /\ UNCHANGED <<cfg, cancelled, rejected, outcome, reports, submitted>>
        /\ Dispatch(pending, slots)
    BY DEF RecvTaskDone, Receive
  <1> HIDE DEF task
  <1>3. pending \in Seq(Task)
    BY DEF Inv, TypeOK
  <1>4. Len(pending) <= 1 \/ Cardinality(slots) >= MaxConcurrent - 1
    <2>1. /\ Cardinality(running) \in Nat
          /\ Cardinality(slots) = IF task \in running THEN Cardinality(running) - 1
                                  ELSE Cardinality(running)
      BY FS_RemoveElement, FS_CardinalityType DEF Inv, SlotsBounded
    <2> QED  BY <2>1, <1>3, ConcurrencyAssumption DEF Inv, WorkConserving
  <1>5. pending # <<>> => cfg # NoConfig
    BY DEF Inv, LineHasConfig
  <1>6. \A t \in Task : Alive(t) => t \in slots
    BY <1>1 DEF Inv, AliveHasSlot, Alive
  <1>7. \A t \in running \ slots : reports[t] # <<>>
    BY <1>1 DEF Inv, Settled
  <1>8. /\ \A t \in Task : Contains(pending, t) => t \in submitted /\ Fresh(t)
        /\ \A t \in Task : Once(pending, t)
        /\ \A t \in Task : ~(Contains(pending, t) /\ InChannel(t)')
        /\ \A t \in Task : InChannel(t) \/ InLine(t) =>
                             InChannel(t)' \/ Contains(pending, t)
    BY <1>1 DEF Inv, QueuedIsFresh, QueuedOnce, InLine
  <1> HIDE DEF slots
  <1>9. slots \in SUBSET running
    BY DEF slots
  <1> QED  BY <1>1, <1>2, <1>3, <1>4, <1>5, <1>6, <1>7, <1>8, <1>9, DispatchKeepsInv

\* Raising a flag, or finding nothing to cancel, moves no request.
LEMMA CancelRunningKeepsInv == Inv /\ (CancelRunning \/ CancelNothing) => Inv'
  <1> SUFFICES ASSUME Inv, CancelRunning \/ CancelNothing PROVE Inv'
    OBVIOUS
  <1>1. /\ commands' \in Seq(QueueCommand)
        /\ Head(commands).task \in Task
        /\ \A t : Contains(commands', TaskDoneCommand(t)) =>
                    Contains(commands, TaskDoneCommand(t))
        /\ \A t : InChannel(t)' <=> InChannel(t)
        /\ \A t \in Task : Once(commands', EnqueueCommand(t))
    BY ReceiveFacts DEF CancelRunning, CancelNothing
  <1>2. /\ UNCHANGED <<cfg, pending, running, rejected, workerVars, reports, submitted>>
        /\ cancelled \subseteq cancelled'
        /\ cancelled' \subseteq Task
    BY <1>1 DEF CancelRunning, CancelNothing, Receive, schedulerVars, Inv, TypeOK
  <1> USE DEF workerVars
  <1>3. \A t : InLine(t)' <=> InLine(t)
    BY <1>2 DEF InLine
  <1>4. TypeOK'
    BY <1>1, <1>2 DEF Inv, TypeOK
  <1>5. Settled' /\ SlotsBounded' /\ AliveHasSlot' /\ OneHonestReport'
    BY <1>2 DEF Inv, Settled, SlotsBounded, AliveHasSlot, Alive, OneHonestReport
  <1>6. DoneIsLast'
    BY <1>1, <1>2 DEF Inv, DoneIsLast
  <1>7. QueuedIsFresh' /\ QueuedOnce'
    BY <1>1, <1>2, <1>3 DEF Inv, QueuedIsFresh, QueuedOnce, Fresh
  <1>8. RejectedForGood' /\ WorkConserving' /\ LineHasConfig'
    BY <1>2 DEF Inv, RejectedForGood, WorkConserving, LineHasConfig
  <1>9. SomePlace'
    BY <1>1, <1>2, <1>3 DEF Inv, TypeOK, SomePlace
  <1> QED  BY <1>4, <1>5, <1>6, <1>7, <1>8, <1>9 DEF Inv

\* A request taken out of the line was fresh and is reported on the spot.
LEMMA CancelPendingKeepsInv == Inv /\ CancelPending => Inv'
  <1> SUFFICES ASSUME Inv, CancelPending PROVE Inv'
    OBVIOUS
  <1>1. /\ commands' \in Seq(QueueCommand)
        /\ \A t : Contains(commands', TaskDoneCommand(t)) =>
                    Contains(commands, TaskDoneCommand(t))
        /\ \A t : InChannel(t)' <=> InChannel(t)
        /\ \A t \in Task : Once(commands', EnqueueCommand(t))
    BY ReceiveFacts DEF CancelPending
  <1>2. PICK idx \in 1..Len(pending) :
          /\ pending' = RemoveAt(pending, idx)
          /\ reports' = [reports EXCEPT ![pending[idx]] = Append(@, "Canceled")]
          /\ UNCHANGED <<cfg, running, cancelled, rejected, workerVars, submitted>>
    BY DEF CancelPending, Receive
  <1> USE DEF workerVars
  <1> DEFINE task == pending[idx]
  <1>3. /\ task \in Task
        /\ pending \in Seq(Task)
        /\ InLine(task)
        /\ pending # <<>>
    BY DEF Inv, TypeOK, InLine, Contains
  <1>4. /\ pending' \in Seq(Task)
        /\ \A t : InLine(t)' => InLine(t)
        /\ \A t : InLine(t) /\ t # task => InLine(t)'
        /\ \A t \in Task : Once(pending', t)
        /\ \A t : t = task => ~InLine(t)'
    <2>1. \A t \in Task : Once(pending, t)
      BY DEF Inv, QueuedOnce
    <2>2. /\ \A t : Contains(pending', t) => Contains(pending, t)
          /\ \A t : Contains(pending, t) /\ t # task => Contains(pending', t)
          /\ \A t \in Task : Once(pending', t)
          /\ ~Contains(pending', task)
      BY <1>2, <1>3, <2>1, RemoveAtOnce
    <2>3. pending' \in Seq(Task)
      BY <1>2, <1>3, RemoveAtProperties
    <2> QED  BY <2>2, <2>3, <1>3 DEF InLine
  <1>5. task \in submitted /\ Fresh(task) /\ ~InChannel(task)
    BY <1>3 DEF Inv, QueuedIsFresh, QueuedOnce
  <1>6. /\ reports'[task] = <<"Canceled">>
        /\ \A t \in Task : t # task => reports'[t] = reports[t]
        /\ reports' \in [Task -> Seq(Outcome)]
    BY <1>2, <1>3, <1>5 DEF Inv, TypeOK, Fresh, Outcome
  <1> HIDE DEF task
  <1>7. TypeOK'
    BY <1>1, <1>2, <1>4, <1>6 DEF Inv, TypeOK
  <1>8. Settled'
    BY <1>2, <1>6 DEF Inv, Settled
  <1>9. SlotsBounded' /\ AliveHasSlot' /\ DoneIsLast'
    BY <1>1, <1>2 DEF Inv, SlotsBounded, AliveHasSlot, Alive, DoneIsLast
  <1>10. QueuedIsFresh'
    BY <1>1, <1>2, <1>4, <1>5, <1>6 DEF Inv, QueuedIsFresh, Fresh
  <1>11. QueuedOnce'
    BY <1>1, <1>4 DEF Inv, QueuedOnce
  <1>12. RejectedForGood'
    <2>1. task \notin rejected
      BY <1>5 DEF Fresh
    <2> QED  BY <1>2, <1>6, <2>1 DEF Inv, TypeOK, RejectedForGood
  <1>13. SomePlace'
    <2>1. \A t \in submitted' : t \in submitted /\ t \in Task
      BY <1>2 DEF Inv, TypeOK
    <2>2. reports'[task] # <<>>
      BY <1>6
    <2>3. \A t \in submitted' : t = task \/ reports'[t] = reports[t]
      BY <1>6, <2>1
    <2> QED  BY <1>1, <1>2, <1>4, <2>1, <2>2, <2>3 DEF Inv, SomePlace
  <1>14. LineHasConfig' /\ WorkConserving'
    BY <1>2, <1>3 DEF Inv, LineHasConfig, WorkConserving
  <1>15. OneHonestReport'
    <2>1. worker'[task] = "none" /\ Len(reports'[task]) = 1 /\ reports'[task][1] = "Canceled"
      BY <1>2, <1>5, <1>6 DEF Fresh
    <2>2. UNCHANGED <<worker, outcome, cancelled>>
      BY <1>2
    <2> QED  BY <1>6, <2>1, <2>2 DEF Inv, OneHonestReport
  <1> QED  BY <1>7, <1>8, <1>9, <1>10, <1>11, <1>12, <1>13, <1>14, <1>15 DEF Inv

\* A step of a live thread that stays alive and says nothing to anyone.
LEMMA QuietStepKeepsInv ==
    ASSUME Inv, NEW t \in Task, NEW from, NEW to, Step(t, from, to),
           from \notin {"none", "signalling", "gone"},
           to \in Phase \ {"none", "signalling", "gone"},
           UNCHANGED <<commands, reports>>,
           outcome' \in [Task -> Outcome \cup {NoOutcome}],
           \A u \in Task : u # t => outcome'[u] = outcome[u],
           to \in {"cleaning", "reporting"} =>
             /\ outcome'[t] \in Outcome
             /\ outcome'[t] = "Canceled" => t \in cancelled
    PROVE  Inv'
  <1>1. /\ worker[t] = from
        /\ worker'[t] = to
        /\ \A u \in Task : u # t => worker'[u] = worker[u]
        /\ worker' \in [Task -> Phase]
        /\ UNCHANGED <<cfg, pending, running, cancelled, rejected, server, submitted>>
    BY DEF Step, Inv, TypeOK, schedulerVars
  <1>2. \A u : (InChannel(u)' <=> InChannel(u)) /\ (InLine(u)' <=> InLine(u))
    BY <1>1 DEF InChannel, InLine
  <1>3. t \in running /\ reports[t] = <<>>
    BY <1>1 DEF Inv, AliveHasSlot, Alive, OneHonestReport
  <1>4. TypeOK'
    BY <1>1 DEF Inv, TypeOK
  <1>5. Settled'
    BY <1>1 DEF Inv, Settled
  <1>6. SlotsBounded' /\ AliveHasSlot' /\ DoneIsLast'
    BY <1>1, <1>3 DEF Inv, SlotsBounded, AliveHasSlot, Alive, DoneIsLast
  <1>7. QueuedIsFresh'
    BY <1>1, <1>2, <1>3 DEF Inv, QueuedIsFresh, Fresh
  <1>8. QueuedOnce' /\ SomePlace'
    BY <1>1, <1>2 DEF Inv, QueuedOnce, SomePlace
  <1>9. RejectedForGood'
    BY <1>1 DEF Inv, TypeOK, RejectedForGood
  <1>10. LineHasConfig' /\ WorkConserving'
    BY <1>1 DEF Inv, LineHasConfig, WorkConserving
  <1>11. OneHonestReport'
    BY <1>1, <1>3 DEF Inv, OneHonestReport
  <1> QED  BY <1>4, <1>5, <1>6, <1>7, <1>8, <1>9, <1>10, <1>11 DEF Inv

\* No step of a transfer thread breaks Inv: it reports once, then signals once.
LEMMA TransferKeepsInv ==
    ASSUME NEW t \in Task PROVE Inv /\ (Acting(t) \/ Dialling(t) \/ Moving(t)) => Inv'
  <1> SUFFICES ASSUME Inv, Acting(t) \/ Dialling(t) \/ Moving(t) PROVE Inv'
    OBVIOUS
  <1>1. ASSUME NEW from, NEW to, Go(t, from, to),
               from \notin {"none", "signalling", "gone"},
               to \in Phase \ {"none", "signalling", "gone"},
               to = "cleaning" => FALSE,
               to = "reporting" => from = "cleaning"
        PROVE  Inv'
    <2>1. /\ Step(t, from, to)
          /\ UNCHANGED <<commands, outcome, reports>>
          /\ worker[t] = from
          /\ outcome \in [Task -> Outcome \cup {NoOutcome}]
      BY <1>1 DEF Go, Step, Inv, TypeOK
    <2>2. to \in {"cleaning", "reporting"} =>
            /\ outcome'[t] \in Outcome
            /\ outcome'[t] = "Canceled" => t \in cancelled
      BY <1>1, <2>1 DEF Inv, Settled
    <2> QED  BY <1>1, <2>1, <2>2, QuietStepKeepsInv
  <1>2. ASSUME NEW from, NEW to, NEW result \in Outcome, Settle(t, from, to, result),
               from \notin {"none", "signalling", "gone"},
               to \in {"cleaning", "reporting"},
               result = "Canceled" => t \in cancelled
        PROVE  Inv'
    <2>1. /\ Step(t, from, to)
          /\ UNCHANGED <<commands, reports>>
          /\ outcome' = [outcome EXCEPT ![t] = result]
          /\ outcome \in [Task -> Outcome \cup {NoOutcome}]
      BY <1>2 DEF Settle, Inv, TypeOK
    <2>2. /\ outcome' \in [Task -> Outcome \cup {NoOutcome}]
          /\ outcome'[t] = result
          /\ \A u \in Task : u # t => outcome'[u] = outcome[u]
      BY <2>1
    <2>3. to \in Phase \ {"none", "signalling", "gone"}
      BY <1>2 DEF Phase
    <2> QED  BY <1>2, <2>1, <2>2, <2>3, QuietStepKeepsInv
  <1>3. CASE Announce(t)
    BY <1>1, <1>3 DEF Announce, Phase
  <1>4. CASE CheckCancel(t)
    BY <1>1, <1>2, <1>4 DEF CheckCancel, Phase, Outcome
  <1>5. CASE Connect(t)
    BY <1>1, <1>2, <1>5 DEF Connect, Phase, Outcome
  <1>6. CASE OpenTransfer(t)
    BY <1>1, <1>6 DEF OpenTransfer, Phase
  <1>7. CASE Poll(t)
    BY <1>1, <1>7 DEF Poll, Phase
  <1>8. CASE Moving(t)
    BY <1>1, <1>8 DEF Moving, MoveChunk, EndMove, Phase
  <1>9. CASE Refresh(t)
    BY <1>2, <1>9 DEF Refresh, Outcome
  <1>10. CASE Conclude(t)
    BY <1>2, <1>10 DEF Conclude, Outcome
  <1>11. CASE Cleanup(t)
    BY <1>1, <1>11 DEF Cleanup, Phase
  <1>12. CASE Report(t)
    <2>1. /\ worker[t] = "reporting"
          /\ worker'[t] = "signalling"
          /\ \A u \in Task : u # t => worker'[u] = worker[u]
          /\ worker' \in [Task -> Phase]
          /\ UNCHANGED <<cfg, pending, running, cancelled, rejected, server, submitted,
                         commands, outcome>>
          /\ reports' = [reports EXCEPT ![t] = Append(@, outcome[t])]
      BY <1>12 DEF Report, Step, Inv, TypeOK, Phase, schedulerVars
    <2>2. /\ t \in running
          /\ reports[t] = <<>>
          /\ outcome[t] \in Outcome
          /\ outcome[t] = "Canceled" => t \in cancelled
      BY <2>1 DEF Inv, AliveHasSlot, Alive, OneHonestReport, Settled
    <2>3. /\ reports'[t] = <<outcome[t]>>
          /\ \A u \in Task : u # t => reports'[u] = reports[u]
          /\ reports' \in [Task -> Seq(Outcome)]
      BY <2>1, <2>2 DEF Inv, TypeOK
    <2>4. \A u : (InChannel(u)' <=> InChannel(u)) /\ (InLine(u)' <=> InLine(u))
      BY <2>1 DEF InChannel, InLine
    <2>5. TypeOK'
      BY <2>1, <2>3 DEF Inv, TypeOK
    <2>6. Settled'
      BY <2>1, <2>2, <2>3 DEF Inv, Settled
    <2>7. SlotsBounded' /\ AliveHasSlot' /\ DoneIsLast'
      BY <2>1, <2>2 DEF Inv, SlotsBounded, AliveHasSlot, Alive, DoneIsLast
    <2>8. QueuedIsFresh'
      BY <2>1, <2>2, <2>3, <2>4 DEF Inv, QueuedIsFresh, Fresh
    <2>9. QueuedOnce' /\ SomePlace'
      BY <2>1, <2>3, <2>4 DEF Inv, TypeOK, QueuedOnce, SomePlace
    <2>10. RejectedForGood'
      BY <2>1, <2>3 DEF Inv, TypeOK, RejectedForGood
    <2>11. LineHasConfig' /\ WorkConserving'
      BY <2>1 DEF Inv, LineHasConfig, WorkConserving
    <2>12. OneHonestReport'
      <3>1. Len(reports'[t]) = 1 /\ reports'[t][1] = outcome[t]
        BY <2>3
      <3> QED  BY <2>1, <2>2, <2>3, <3>1 DEF Inv, OneHonestReport
    <2> QED  BY <2>5, <2>6, <2>7, <2>8, <2>9, <2>10, <2>11, <2>12 DEF Inv
  <1>13. CASE SignalDone(t)
    <2>1. /\ worker[t] = "signalling"
          /\ worker'[t] = "gone"
          /\ \A u \in Task : u # t => worker'[u] = worker[u]
          /\ worker' \in [Task -> Phase]
          /\ UNCHANGED <<cfg, pending, running, cancelled, rejected, server, submitted,
                         outcome, reports>>
          /\ commands' = Append(commands, TaskDoneCommand(t))
      BY <1>13 DEF SignalDone, Step, Inv, TypeOK, Phase, schedulerVars
    <2>2. /\ commands' \in Seq(QueueCommand)
          /\ \A e : Contains(commands', e) <=>
                      Contains(commands, e) \/ e = TaskDoneCommand(t)
          /\ \A u \in Task : Once(commands', EnqueueCommand(u))
      <3>1. TaskDoneCommand(t) \in QueueCommand
        BY DEF QueueCommand
      <3>2. \A u \in Task : TaskDoneCommand(t) # EnqueueCommand(u)
        BY CommandsDistinct
      <3> QED  BY <2>1, <3>1, <3>2, SendFacts
    <2>3. \A u : (InChannel(u)' <=> InChannel(u)) /\ (InLine(u)' <=> InLine(u))
      BY <2>1, <2>2, CommandsDistinct DEF InChannel, InLine
    <2>4. t \in running
      BY <2>1 DEF Inv, AliveHasSlot, Alive
    <2>5. TypeOK'
      BY <2>1, <2>2 DEF Inv, TypeOK
    <2>6. Settled'
      BY <2>1 DEF Inv, Settled
    <2>7. SlotsBounded' /\ AliveHasSlot'
      BY <2>1 DEF Inv, SlotsBounded, AliveHasSlot, Alive
    <2>8. DoneIsLast'
      BY <2>1, <2>2, CommandsDistinct DEF Inv, DoneIsLast
    <2>9. QueuedIsFresh'
      BY <2>1, <2>3, <2>4 DEF Inv, QueuedIsFresh, Fresh
    <2>10. QueuedOnce' /\ SomePlace'
      BY <2>1, <2>2, <2>3 DEF Inv, QueuedOnce, SomePlace
    <2>11. RejectedForGood'
      BY <2>1 DEF Inv, TypeOK, RejectedForGood
    <2>12. LineHasConfig' /\ WorkConserving'
      BY <2>1 DEF Inv, LineHasConfig, WorkConserving
    <2>13. OneHonestReport'
      BY <2>1 DEF Inv, OneHonestReport
    <2> QED  BY <2>5, <2>6, <2>7, <2>8, <2>9, <2>10, <2>11, <2>12, <2>13 DEF Inv
  <1> QED  BY <1>3, <1>4, <1>5, <1>6, <1>7, <1>8, <1>9, <1>10, <1>11, <1>12,
              <1>13 DEF Acting, Dialling

\* dispatch starts threads where there are none.
LEMMA OnlyStarts ==
    ASSUME NEW waiting \in Seq(Task), NEW slots, IsFiniteSet(slots), Dispatch(waiting, slots),
           \A i \in 1..Len(waiting) : worker[waiting[i]] = "none"
    PROVE  \A t \in Task : worker'[t] = worker[t] \/ (worker[t] = "none" /\ worker'[t] = "started")
  <1>1. CASE cfg = NoConfig
    BY <1>1 DEF Dispatch
  <1>2. CASE cfg # NoConfig
    <2>1. Turns(waiting, slots) \in 0..Len(waiting)
      <3>1. Cardinality(slots) \in Nat /\ Len(waiting) \in Nat
        BY FS_CardinalityType
      <3> QED  BY <3>1, ConcurrencyAssumption DEF Turns
    <2>2. PICK started : /\ started \subseteq {waiting[i] : i \in 1..Turns(waiting, slots)}
                         /\ worker' = [t \in Task |-> IF t \in started THEN "started" ELSE worker[t]]
      BY <1>2 DEF Dispatch
    <2>3. \A t \in started : worker[t] = "none"
      BY <2>1, <2>2
    <2> QED  BY <2>2, <2>3
  <1> QED  BY <1>1, <1>2

\* The scheduler starts threads where there are none, and leaves the others alone.
LEMMA SchedulerStarts ==
    ASSUME Inv, Scheduler
    PROVE  /\ outcome' = outcome
           /\ \A t \in Task : worker'[t] = worker[t] \/ (worker[t] = "none" /\ worker'[t] = "started")
  <1>1. commands \in Seq(QueueCommand) /\ pending \in Seq(Task)
    BY DEF Inv, TypeOK
  <1>2. \A i \in 1..Len(pending) : worker[pending[i]] = "none"
    <2>1. \A i \in 1..Len(pending) : InLine(pending[i]) /\ pending[i] \in Task
      BY <1>1 DEF InLine, Contains
    <2> QED  BY <2>1 DEF Inv, QueuedIsFresh, Fresh
  <1>3. IsFiniteSet(running)
    BY DEF Inv, SlotsBounded
  <1>4. CASE RecvTaskDone
    <2>1. /\ Dispatch(pending, running \ {Head(commands).task})
          /\ IsFiniteSet(running \ {Head(commands).task})
          /\ outcome' = outcome
      BY <1>3, <1>4, FS_RemoveElement DEF RecvTaskDone
    <2> QED  BY <1>1, <1>2, <2>1, OnlyStarts
  <1>5. CASE RecvEnqueue /\ cfg = NoConfig
    BY <1>5 DEF RecvEnqueue
  <1>6. CASE RecvEnqueue /\ cfg # NoConfig
    <2>1. PICK u \in Task : u = Head(commands).task /\ InChannel(u)
      BY <1>1, <1>6, ReceiveFacts DEF RecvEnqueue
    <2>2. worker[u] = "none"
      BY <2>1 DEF Inv, QueuedIsFresh, Fresh
    <2>3. Dispatch(Append(pending, u), running) /\ outcome' = outcome
      BY <1>6, <2>1 DEF RecvEnqueue
    <2>4. PICK waiting : waiting = Append(pending, u)
      OBVIOUS
    <2>5. /\ waiting \in Seq(Task)
          /\ \A i \in 1..Len(waiting) : worker[waiting[i]] = "none"
      BY <1>1, <1>2, <2>2, <2>4
    <2> QED  BY <1>3, <2>3, <2>4, <2>5, OnlyStarts
  <1>7. CASE RecvSetConfig \/ CancelRunning \/ CancelPending \/ CancelNothing
    BY <1>7 DEF RecvSetConfig, CancelRunning, CancelPending, CancelNothing, workerVars
  <1> QED  BY <1>4, <1>5, <1>6, <1>7 DEF Scheduler

\* Whoever moves next keeps it.
LEMMA NextKeepsInv == Inv /\ [Next]_vars => Inv'
  <1> SUFFICES ASSUME Inv, [Next]_vars PROVE Inv'
    OBVIOUS
  <1>1. CASE Client
    BY <1>1, ClientKeepsInv
  <1>2. CASE Scheduler
    BY <1>2, RecvSetConfigKeepsInv, RecvEnqueueKeepsInv, RecvTaskDoneKeepsInv,
       CancelRunningKeepsInv, CancelPendingKeepsInv DEF Scheduler
  <1>3. ASSUME NEW t \in Task, Acting(t) \/ Dialling(t) \/ Moving(t)
        PROVE  Inv'
    BY <1>3, TransferKeepsInv
  <1>4. CASE UNCHANGED vars
    <2>1. UNCHANGED <<commands, cfg, pending, running, cancelled, rejected, worker,
                      server, outcome, submitted, reports>>
      BY <1>4 DEF vars, schedulerVars, workerVars
    <2>2. \A t : (InChannel(t)' <=> InChannel(t)) /\ (InLine(t)' <=> InLine(t))
      BY <2>1 DEF InChannel, InLine
    <2>3. TypeOK' /\ Settled' /\ SlotsBounded' /\ AliveHasSlot' /\ DoneIsLast'
      BY <2>1 DEF Inv, TypeOK, Settled, SlotsBounded, AliveHasSlot, Alive, DoneIsLast
    <2>4. QueuedIsFresh' /\ QueuedOnce' /\ RejectedForGood' /\ SomePlace'
      BY <2>1, <2>2 DEF Inv, QueuedIsFresh, Fresh, QueuedOnce, RejectedForGood, SomePlace
    <2>5. LineHasConfig' /\ WorkConserving' /\ OneHonestReport'
      BY <2>1 DEF Inv, LineHasConfig, WorkConserving, OneHonestReport
    <2> QED  BY <2>3, <2>4, <2>5 DEF Inv
  <1> QED  BY <1>1, <1>2, <1>3, <1>4 DEF Next

-----------------------------------------------------------------------------
(* The theorems.                                                           *)

\* Inv holds in every reachable state: the scheduler, its client and the
\* transfer threads keep it whatever the order of their steps.
THEOREM InvHolds == Spec => []Inv
  <1> QED  BY InitInv, NextKeepsInv, PTL DEF Spec

\* Every variable keeps to its type; the result of a thread is settled on
\* every path that leads to its report.
THEOREM TypeCorrect == Spec => []TypeOK
  <1>1. Inv => TypeOK
    BY DEF Inv
  <1> QED  BY <1>1, InvHolds, PTL

\* The transfers together never hold more than MaxConcurrent connections: a
\* thread that has one has a slot, and there are no more slots than that.
THEOREM ConnectionsBounded == Spec => []ConnectionBound
  <1>1. Inv => ConnectionBound
    <2> SUFFICES ASSUME Inv PROVE ConnectionBound
      OBVIOUS
    <2>1. Connections \in SUBSET running
      BY DEF Inv, AliveHasSlot, Alive, Connections
    <2>2. /\ IsFiniteSet(running)
          /\ Cardinality(running) \in Nat
          /\ Cardinality(running) <= MaxConcurrent
      BY FS_CardinalityType DEF Inv, SlotsBounded
    <2>3. /\ Cardinality(Connections) <= Cardinality(running)
          /\ Cardinality(Connections) \in Nat
      BY <2>1, <2>2, FS_Subset, FS_CardinalityType
    <2> QED  BY <2>2, <2>3, ConcurrencyAssumption DEF ConnectionBound
  <1> QED  BY <1>1, InvHolds, PTL

\* No request is lost or doubled on its way from the channel to its report,
\* cancellations, rejections and failed spawns included.
THEOREM RequestsConserved == Spec => []OnePlace
  <1>1. Inv => OnePlace
    <2> SUFFICES ASSUME Inv, NEW t \in submitted
                 PROVE  \E p \in Places(t) : Places(t) = {p}
      BY DEF OnePlace
    <2>0. t \in Task
      BY DEF Inv, TypeOK
    <2>1. CASE InChannel(t)
      <3>1. Fresh(t) /\ ~InLine(t)
        BY <2>0, <2>1 DEF Inv, QueuedIsFresh, QueuedOnce
      <3>2. Places(t) = {"channel"}
        BY <2>1, <3>1 DEF Places, Fresh, InChannel, InLine
      <3> QED  BY <3>2
    <2>2. CASE InLine(t)
      <3>1. Fresh(t) /\ ~InChannel(t)
        BY <2>0, <2>2 DEF Inv, QueuedIsFresh, QueuedOnce
      <3>2. Places(t) = {"line"}
        BY <2>2, <3>1 DEF Places, Fresh, InChannel, InLine
      <3> QED  BY <3>2
    <2>3. CASE ~InChannel(t) /\ ~InLine(t) /\ t \in rejected
      <3>1. Places(t) = {"rejected"}
        BY <2>3 DEF Inv, RejectedForGood, Places, InChannel, InLine
      <3> QED  BY <3>1
    <2>4. CASE ~InChannel(t) /\ ~InLine(t) /\ t \notin rejected /\ t \in running
      <3>1. Places(t) = {"slot"}
        BY <2>4 DEF Places, InChannel, InLine
      <3> QED  BY <3>1
    <2>5. CASE ~InChannel(t) /\ ~InLine(t) /\ t \notin rejected /\ t \notin running
      <3>1. reports[t] # <<>>
        BY <2>5 DEF Inv, SomePlace
      <3>2. Places(t) = {"reported"}
        BY <2>5, <3>1 DEF Places, InChannel, InLine
      <3> QED  BY <3>2
    <2> QED  BY <2>1, <2>2, <2>3, <2>4, <2>5
  <1> QED  BY <1>1, InvHolds, PTL

\* The scheduler never comes to rest with a free slot and a waiting request.
THEOREM SlotsAreUsed == Spec => []WorkConserving
  <1>1. Inv => WorkConserving
    BY DEF Inv
  <1> QED  BY <1>1, InvHolds, PTL

\* TaskFinished is emitted at most once for a task, with what happened to it.
THEOREM ReportsAreHonest == Spec => []OneHonestReport
  <1>1. Inv => OneHonestReport
    BY DEF Inv
  <1> QED  BY <1>1, InvHolds, PTL

-----------------------------------------------------------------------------
(* Order.                                                                  *)

\* None of the operations on the line turns two elements around.
LEMMA OrderKept ==
    ASSUME NEW s \in Seq(Task), NEW a \in Task, NEW b \in Task,
           Once(s, a), Once(s, b), Before(s, a, b)
    PROVE  /\ ~Before(s, b, a)
           /\ s # <<>> /\ b # Head(s)
           /\ ~Before(Tail(s), b, a)
           /\ \A e \in Task : e # a => ~Before(Append(s, e), b, a) /\ Before(Append(s, e), a, b)
           /\ \A i \in 1..Len(s) : ~Before(RemoveAt(s, i), b, a)
  <1>1. PICK k, l \in 1..Len(s) : k < l /\ s[k] = a /\ s[l] = b
    BY DEF Before
  <1>2. /\ \A i \in 1..Len(s) : s[i] = a => i = k
        /\ \A i \in 1..Len(s) : s[i] = b => i = l
        /\ Len(s) \in Nat
    BY <1>1 DEF Once
  <1>3. ~Before(s, b, a)
    BY <1>1, <1>2 DEF Before
  <1>4. s # <<>> /\ b # Head(s)
    BY <1>1, <1>2
  <1>5. ~Before(Tail(s), b, a)
    <2>1. /\ Tail(s) \in Seq(Task)
          /\ Len(Tail(s)) = Len(s) - 1
          /\ \A i \in 1..Len(Tail(s)) : Tail(s)[i] = s[i + 1]
      BY <1>4, HeadTailProperties
    <2> SUFFICES ASSUME NEW i \in 1..Len(Tail(s)), NEW j \in 1..Len(Tail(s)),
                        i < j, Tail(s)[i] = b, Tail(s)[j] = a
                 PROVE  FALSE
      BY <2>1 DEF Before
    <2>2. i + 1 = l /\ j + 1 = k
      BY <1>2, <2>1
    <2> QED  BY <1>1, <2>2
  <1>6. ASSUME NEW e \in Task, e # a
        PROVE  ~Before(Append(s, e), b, a) /\ Before(Append(s, e), a, b)
    <2>1. /\ Len(Append(s, e)) = Len(s) + 1
          /\ \A i \in 1..Len(s) : Append(s, e)[i] = s[i]
          /\ Append(s, e)[Len(s) + 1] = e
          /\ DOMAIN Append(s, e) = 1..Len(s) + 1
      OBVIOUS
    <2>2. Before(Append(s, e), a, b)
      BY <1>1, <1>2, <2>1 DEF Before
    <2>3. ~Before(Append(s, e), b, a)
      BY <1>1, <1>2, <1>6, <2>1 DEF Before
    <2> QED  BY <2>2, <2>3
  <1>7. ASSUME NEW i \in 1..Len(s)
        PROVE  ~Before(RemoveAt(s, i), b, a)
    <2>1. /\ RemoveAt(s, i) \in Seq(Task)
          /\ Len(RemoveAt(s, i)) = Len(s) - 1
          /\ \A j \in 1..Len(s) - 1 :
               RemoveAt(s, i)[j] = IF j < i THEN s[j] ELSE s[j + 1]
      BY RemoveAtProperties
    <2> DEFINE r == RemoveAt(s, i)
    <2> HIDE DEF r
    <2> SUFFICES ASSUME NEW m \in 1..Len(r), NEW n \in 1..Len(r),
                        m < n, r[m] = b, r[n] = a
                 PROVE  FALSE
      BY <2>1 DEF Before, r
    <2>2. /\ l = IF m < i THEN m ELSE m + 1
          /\ k = IF n < i THEN n ELSE n + 1
      BY <1>2, <2>1 DEF r
    <2> QED  BY <1>1, <2>2
  <1> QED  BY <1>3, <1>4, <1>5, <1>6, <1>7

\* Tasks start in the order of their arrival, whatever is cancelled meanwhile.
THEOREM LineIsFair == Spec => NoOvertaking
  <1>1. ASSUME Inv, [Next]_vars,
               NEW a \in Task, NEW b \in Task,
               Before(pending, a, b), Contains(pending', a)
        PROVE  b \notin running' /\ ~Before(pending', b, a)
    <2>1. /\ pending \in Seq(Task)
          /\ Once(pending, a) /\ Once(pending, b)
      BY <1>1 DEF Inv, TypeOK, QueuedOnce
    <2>2. InLine(a) /\ InLine(b)
      BY <1>1, <2>1 DEF Before, InLine, Contains
    <2>3. b \notin running /\ ~InChannel(a) /\ ~InChannel(b)
      BY <1>1, <2>2 DEF Inv, QueuedIsFresh, QueuedOnce, Fresh
    <2>4. TypeOK /\ IsFiniteSet(running) /\ Cardinality(running) \in Nat
          /\ Cardinality(running) <= MaxConcurrent
      BY <1>1, FS_CardinalityType DEF Inv, SlotsBounded
    <2>5. pending # <<>> /\ cfg # NoConfig /\ Cardinality(running) = MaxConcurrent
      BY <1>1, <2>1, OrderKept DEF Inv, LineHasConfig, WorkConserving
    <2> DEFINE kept == /\ ~Before(pending, b, a)
                       /\ b # Head(pending)
                       /\ ~Before(Tail(pending), b, a)
                       /\ \A e \in Task : e # a => ~Before(Append(pending, e), b, a)
                       /\ \A i \in 1..Len(pending) : ~Before(RemoveAt(pending, i), b, a)
    <2>0. kept
      BY <1>1, <2>1, OrderKept
    <2>6. CASE UNCHANGED <<pending, running>>
      BY <2>3, <2>0, <2>6
    <2>7. CASE RecvEnqueue
      <3> DEFINE task == Head(commands).task
      <3>1. /\ task \in Task
            /\ \A t : t = task => InChannel(t)
        BY <1>1, <2>7, ReceiveFacts DEF RecvEnqueue
      <3>2. Dispatch(Append(pending, task), running)
        BY <2>5, <2>7 DEF RecvEnqueue
      <3> HIDE DEF task
      <3> DEFINE waiting == Append(pending, task)
      <3>3. waiting \in Seq(Task) /\ waiting # <<>>
        BY <2>1, <3>1, AppendProperties
      <3>4. Dispatch(waiting, running)
        BY <3>2
      <3>5. ~Before(waiting, b, a)
        BY <2>3, <2>0, <3>1
      <3> HIDE DEF waiting
      <3>6. Cardinality(running) >= MaxConcurrent - 1 /\ ~(Cardinality(running) < MaxConcurrent)
        BY <2>4, <2>5, ConcurrencyAssumption
      <3>7. running' = running /\ pending' = waiting
        BY <2>4, <2>5, <3>3, <3>4, <3>6, DispatchOutcome
      <3> QED  BY <2>3, <3>5, <3>7
    <2>8. CASE RecvTaskDone
      <3> DEFINE slots == running \ {Head(commands).task}
      <3>1. /\ IsFiniteSet(slots)
            /\ Cardinality(slots) \in Nat
            /\ Cardinality(slots) <= MaxConcurrent
            /\ Cardinality(slots) >= MaxConcurrent - 1
        BY <2>4, <2>5, FS_RemoveElement, FS_CardinalityType, ConcurrencyAssumption
      <3>2. Dispatch(pending, slots) /\ b \notin slots
        BY <2>3, <2>8 DEF RecvTaskDone
      <3> HIDE DEF slots
      <3>3. \/ pending' = pending /\ running' = slots
            \/ pending' = Tail(pending) /\ running' = slots \cup {Head(pending)}
        BY <2>1, <2>4, <2>5, <3>1, <3>2, DispatchOutcome
      <3> QED  BY <2>0, <3>2, <3>3
    <2>9. CASE CancelPending
      <3>1. PICK idx \in 1..Len(pending) : pending' = RemoveAt(pending, idx)
        BY <2>9 DEF CancelPending
      <3>2. running' = running
        BY <2>9 DEF CancelPending
      <3> QED  BY <2>3, <2>0, <3>1, <3>2
    <2>10. CASE Client \/ RecvSetConfig \/ CancelRunning \/ CancelNothing
      BY <2>6, <2>10 DEF Client, SendSetConfig, SendEnqueue, SendCancel, Send,
         RecvSetConfig, CancelRunning, CancelNothing, schedulerVars
    <2>11. ASSUME NEW t \in Task, Acting(t) \/ Dialling(t) \/ Moving(t)
           PROVE  UNCHANGED <<pending, running>>
      <3>1. \E from, to : Step(t, from, to)
        BY <2>11 DEF Acting, Dialling, Moving, Announce, CheckCancel, Connect, OpenTransfer, Poll,
           MoveChunk, EndMove, Refresh, Conclude, Cleanup, Report, SignalDone, Go, Settle
      <3> QED  BY <3>1 DEF Step, schedulerVars
    <2>12. CASE UNCHANGED vars
      BY <2>6, <2>12 DEF vars, schedulerVars
    <2> QED  BY <1>1, <2>6, <2>7, <2>8, <2>9, <2>10, <2>11, <2>12 DEF Next, Scheduler
  <1>2. Inv /\ [Next]_vars =>
          [\A a, b \in Task : Before(pending, a, b) /\ Contains(pending', a)
             => b \notin running' /\ ~Before(pending', b, a)]_vars
    BY <1>1
  <1> QED  BY <1>2, InvHolds, PTL DEF Spec, NoOvertaking
-----------------------------------------------------------------------------
(* The refinement: each step is a step of TransferService or changes       *)
(* nothing a client can observe.                                           *)

\* The service counts tasks as the scheduler does.
LEMMA SameCardinality == \A S : Service!Cardinality(S) = Cardinality(S)
  BY Zenon DEF Service!Cardinality, Cardinality

\* The state of a task depends on its report, its slot and its place in line,
\* and on the report alone once there is one.
LEMMA StateKept ==
    ASSUME NEW t \in Task, reports'[t] = reports[t],
           \/ reports[t] # <<>>
           \/ /\ t \in running' <=> t \in running
              /\ Contains(pending', t) <=> Contains(pending, t)
    PROVE  StateOf(t)' = StateOf(t)
  BY DEF StateOf

\* A step that leaves the line and the state of every task is a stutter.
LEMMA Stutter ==
    ASSUME pending' = pending, \A t \in Task : StateOf(t)' = StateOf(t)
    PROVE  UNCHANGED Service!vars
  BY DEF Service!vars

\* A request in the channel is New, one in the line Pending.
LEMMA QueuedState ==
    ASSUME Inv, NEW t \in Task
    PROVE  /\ InChannel(t) => StateOf(t) = "New"
           /\ InLine(t) => StateOf(t) = "Pending"
  BY DEF Inv, QueuedIsFresh, QueuedOnce, Fresh, StateOf, InLine

\* The loop of dispatch starts what is at the front of the line as far as
\* there is room: what the service does when it admits a line.
LEMMA DispatchAdmits ==
    ASSUME Inv, NEW waiting \in Seq(Task), NEW slots \in SUBSET running,
           \A t \in running \ slots : reports[t] # <<>>,
           \A t \in Task : Contains(waiting, t) => Fresh(t),
           \A t \in Task : Once(waiting, t),
           \A t \in Task : InLine(t) => Contains(waiting, t),
           reports' = reports,
           \/ /\ pending' = waiting
              /\ running' = slots
           \/ /\ waiting # <<>>
              /\ Cardinality(slots) < MaxConcurrent
              /\ pending' = Tail(waiting)
              /\ running' = slots \cup {Head(waiting)}
    PROVE  Service!Admit(waiting)
  <1> DEFINE state == [t \in Task |-> StateOf(t)]
             started(n) == {waiting[i] : i \in 1..n}
             left(n) == {waiting[i] : i \in n + 1..Len(waiting)}
             rest(n) == SubSeq(waiting, n + 1, Len(waiting))
  <1>1. \A t \in Task : Contains(waiting, t) => t \notin running /\ reports[t] = <<>>
    BY DEF Fresh
  <1>2. Len(waiting) \in Nat
    OBVIOUS
  <1>3. \A n \in 0..Len(waiting) :
           /\ started(n) # {} => Cardinality(Service!Occupied \cup started(n)) <= MaxConcurrent
           /\ pending' = rest(n)
           /\ state' = [t \in Task |-> IF t \in started(n) THEN "Running"
                                       ELSE IF t \in left(n) THEN "Pending"
                                       ELSE state[t]]
           => Service!Admit(waiting)
    BY SameCardinality DEF Service!Admit
  <1>4. CASE pending' = waiting /\ running' = slots
    <2>1. started(0) = {}
      OBVIOUS
    <2>2. pending' = rest(0) /\ 0 \in 0..Len(waiting)
      BY <1>2, <1>4
    <2>3. ASSUME NEW t \in Task
          PROVE  StateOf(t)' = IF t \in left(0) THEN "Pending" ELSE StateOf(t)
      <3>1. t \in left(0) <=> Contains(waiting, t)
        BY <1>2 DEF Contains
      <3>2. CASE Contains(waiting, t)
        <4>1. reports'[t] = <<>> /\ t \notin running' /\ Contains(pending', t)
          BY <1>1, <1>4, <3>2
        <4> QED  BY <3>1, <3>2, <4>1 DEF StateOf
      <3>3. CASE ~Contains(waiting, t)
        <4>1. ~Contains(pending, t) /\ ~Contains(pending', t)
          BY <1>4, <3>3 DEF InLine
        <4>2. reports[t] # <<>> \/ (t \in running' <=> t \in running)
          BY <1>4
        <4> QED  BY <3>1, <3>3, <4>1, <4>2, StateKept
      <3> QED  BY <3>2, <3>3
    <2>4. state' = [t \in Task |-> IF t \in started(0) THEN "Running"
                                   ELSE IF t \in left(0) THEN "Pending" ELSE state[t]]
      BY <2>1, <2>3
    <2> HIDE DEF state, started, left, rest
    <2> QED  BY <1>3, <2>1, <2>2, <2>4
  <1>5. CASE /\ waiting # <<>>
             /\ Cardinality(slots) < MaxConcurrent
             /\ pending' = Tail(waiting)
             /\ running' = slots \cup {Head(waiting)}
    <2> DEFINE front == Head(waiting)
    <2>1. /\ front = waiting[1] /\ front \in Task
          /\ 1 \in 1..Len(waiting)
          /\ Tail(waiting) \in Seq(Task)
          /\ \A t : Contains(waiting, t) <=> t = front \/ Contains(Tail(waiting), t)
          /\ ~Contains(Tail(waiting), front)
      BY <1>5, TailContains, TailOnce
    <2>2. started(1) = {front}
      BY <2>1
    <2>3. pending' = rest(1)
      BY <1>5
    <2>4. Cardinality(Service!Occupied \cup started(1)) <= MaxConcurrent
      <3>1. Service!Occupied \subseteq slots
        BY DEF Service!Occupied, StateOf
      <3>2. IsFiniteSet(slots) /\ Cardinality(slots) \in Nat
        BY FS_Subset, FS_CardinalityType DEF Inv, SlotsBounded
      <3>3. /\ IsFiniteSet(slots \cup {front})
            /\ Cardinality(slots \cup {front}) \in Nat
            /\ Cardinality(slots \cup {front}) <= Cardinality(slots) + 1
        <4> HIDE DEF front
        <4>1. /\ IsFiniteSet(slots \cup {front})
              /\ Cardinality(slots \cup {front}) =
                   IF front \in slots THEN Cardinality(slots) ELSE Cardinality(slots) + 1
          BY <3>2, FS_AddElement
        <4> QED  BY <3>2, <4>1
      <3>4. /\ Cardinality(Service!Occupied \cup {front}) \in Nat
            /\ Cardinality(Service!Occupied \cup {front})
                 <= Cardinality(slots \cup {front})
        <4>1. Service!Occupied \cup {front} \in SUBSET (slots \cup {front})
          BY <3>1
        <4> HIDE DEF front
        <4> QED  BY <3>3, <4>1, FS_Subset, FS_CardinalityType
      <3>5. Cardinality(Service!Occupied \cup {front}) <= MaxConcurrent
        <4> HIDE DEF front
        <4> QED  BY <1>5, <3>2, <3>3, <3>4, ConcurrencyAssumption
      <3>6. Service!Occupied \cup started(1) = Service!Occupied \cup {front}
        BY <2>2
      <3> HIDE DEF front, started
      <3> QED  BY <3>5, <3>6
    <2>5. ASSUME NEW t \in Task
          PROVE  StateOf(t)' = IF t = front THEN "Running"
                               ELSE IF t \in left(1) THEN "Pending" ELSE StateOf(t)
      <3>1. t \in left(1) <=> Contains(Tail(waiting), t)
        <4>1. /\ Len(Tail(waiting)) = Len(waiting) - 1
              /\ \A i \in 1..Len(Tail(waiting)) : Tail(waiting)[i] = waiting[i + 1]
          BY <1>5, HeadTailProperties
        <4>2. ASSUME t \in left(1) PROVE Contains(Tail(waiting), t)
          <5>1. PICK i \in 2..Len(waiting) : waiting[i] = t
            BY <4>2
          <5>2. i - 1 \in 1..Len(Tail(waiting)) /\ Tail(waiting)[i - 1] = t
            BY <1>2, <4>1, <5>1
          <5> QED  BY <5>2 DEF Contains
        <4>3. ASSUME Contains(Tail(waiting), t) PROVE t \in left(1)
          <5>1. PICK i \in 1..Len(Tail(waiting)) : Tail(waiting)[i] = t
            BY <4>3 DEF Contains
          <5>2. i + 1 \in 2..Len(waiting) /\ waiting[i + 1] = t
            BY <1>2, <4>1, <5>1
          <5> QED  BY <5>2
        <4> QED  BY <4>2, <4>3
      <3>2. CASE t = front
        <4>1. reports'[t] = <<>> /\ t \in running'
          BY <1>1, <1>5, <2>1, <3>2
        <4> QED  BY <3>2, <4>1 DEF StateOf
      <3>3. CASE t # front /\ Contains(Tail(waiting), t)
        <4>1. reports'[t] = <<>> /\ t \notin running' /\ Contains(pending', t)
          BY <1>1, <1>5, <2>1, <3>3
        <4> QED  BY <3>1, <3>3, <4>1 DEF StateOf
      <3>4. CASE t # front /\ ~Contains(Tail(waiting), t)
        <4>1. ~Contains(pending, t) /\ ~Contains(pending', t)
          BY <1>5, <2>1, <3>4 DEF InLine
        <4>2. reports[t] # <<>> \/ (t \in running' <=> t \in running)
          BY <1>5, <3>4
        <4> QED  BY <3>1, <3>4, <4>1, <4>2, StateKept
      <3> QED  BY <3>2, <3>3, <3>4
    <2>6. state' = [t \in Task |-> IF t \in started(1) THEN "Running"
                                   ELSE IF t \in left(1) THEN "Pending" ELSE state[t]]
      BY <2>2, <2>5
    <2>7. 1 \in 0..Len(waiting)
      BY <1>2, <2>1
    <2> HIDE DEF state, started, left, rest
    <2> QED  BY <1>3, <2>3, <2>4, <2>6, <2>7
  <1> QED  BY <1>4, <1>5

-----------------------------------------------------------------------------
(* One lemma per step a client can observe.                                *)

\* An Enqueue is a submission, or is dropped before anybody is told of it.
LEMMA RecvEnqueueServes == Inv /\ RecvEnqueue => [Service!Next]_(Service!vars)
  <1> SUFFICES ASSUME Inv, RecvEnqueue PROVE [Service!Next]_(Service!vars)
    OBVIOUS
  <1> DEFINE task == Head(commands).task
  <1>1. task \in Task /\ \A t : t = task => InChannel(t)
    BY ReceiveFacts DEF RecvEnqueue
  <1>2. /\ reports' = reports
        /\ IF cfg = NoConfig
           THEN UNCHANGED <<pending, running>>
           ELSE Dispatch(Append(pending, task), running)
    BY DEF RecvEnqueue
  <1> HIDE DEF task
  <1>3. CASE cfg = NoConfig
    <2>1. \A t \in Task : StateOf(t)' = StateOf(t)
      BY <1>2, <1>3 DEF StateOf
    <2> QED  BY <1>2, <1>3, <2>1, Stutter
  <1>4. CASE cfg # NoConfig
    <2> DEFINE waiting == Append(pending, task)
    <2>1. pending \in Seq(Task) /\ TypeOK
      BY DEF Inv, TypeOK
    <2>2. Fresh(task) /\ ~InLine(task) /\ InChannel(task)
      BY <1>1 DEF Inv, QueuedIsFresh, QueuedOnce
    <2>3. /\ waiting \in Seq(Task)
          /\ \A t : Contains(waiting, t) <=> InLine(t) \/ t = task
          /\ \A t \in Task : Once(waiting, t)
      BY <1>1, <2>1, <2>2, AppendContains, AppendOnce DEF Inv, QueuedOnce, InLine
    <2>4. Len(waiting) <= 1 \/ Cardinality(running) >= MaxConcurrent - 1
      BY <2>1, ConcurrencyAssumption DEF Inv, WorkConserving
    <2>5. \A t \in Task : Contains(waiting, t) => Fresh(t)
      BY <2>2, <2>3 DEF Inv, QueuedIsFresh
    <2>6. /\ running \in SUBSET running
          /\ \A t \in running \ running : reports[t] # <<>>
          /\ IsFiniteSet(running)
          /\ Cardinality(running) <= MaxConcurrent
      BY DEF Inv, SlotsBounded
    <2>7. Dispatch(waiting, running)
      BY <1>2, <1>4
    <2> HIDE DEF waiting
    <2>8. \/ pending' = waiting /\ running' = running
          \/ /\ waiting # <<>>
             /\ Cardinality(running) < MaxConcurrent
             /\ pending' = Tail(waiting)
             /\ running' = running \cup {Head(waiting)}
      BY <1>4, <2>1, <2>3, <2>4, <2>6, <2>7, DispatchOutcome
    <2>9. Service!Admit(waiting)
      BY <1>2, <2>3, <2>5, <2>6, <2>8, DispatchAdmits
    <2>10. Service!Submit(task)
      BY <1>1, <2>2, <2>9, QueuedState DEF Service!Submit, waiting
    <2> QED  BY <1>1, <2>10 DEF Service!Next
  <1> QED  BY <1>3, <1>4

\* The end of a transfer, already reported, lets the front of the line start.
LEMMA RecvTaskDoneServes == Inv /\ RecvTaskDone => [Service!Next]_(Service!vars)
  <1> SUFFICES ASSUME Inv, RecvTaskDone PROVE [Service!Next]_(Service!vars)
    OBVIOUS
  <1> DEFINE task == Head(commands).task
             slots == running \ {task}
  <1>1. task \in Task /\ worker[task] = "gone"
    BY ReceiveFacts DEF RecvTaskDone
  <1>2. reports' = reports /\ Dispatch(pending, slots)
    BY DEF RecvTaskDone
  <1> HIDE DEF task
  <1>3. pending \in Seq(Task) /\ TypeOK
    BY DEF Inv, TypeOK
  <1>4. /\ IsFiniteSet(slots)
        /\ Cardinality(running) \in Nat
        /\ Cardinality(running) <= MaxConcurrent
        /\ Cardinality(slots) = IF task \in running THEN Cardinality(running) - 1
                                ELSE Cardinality(running)
    BY FS_RemoveElement, FS_CardinalityType DEF Inv, SlotsBounded
  <1>5. /\ Len(pending) <= 1 \/ Cardinality(slots) >= MaxConcurrent - 1
        /\ Cardinality(slots) <= MaxConcurrent
    BY <1>3, <1>4, ConcurrencyAssumption DEF Inv, WorkConserving
  <1>6. pending # <<>> => cfg # NoConfig
    BY DEF Inv, LineHasConfig
  <1>7. \A t \in running \ slots : reports[t] # <<>>
    BY <1>1 DEF Inv, Settled
  <1>8. /\ \A t \in Task : Contains(pending, t) => Fresh(t)
        /\ \A t \in Task : Once(pending, t)
        /\ \A t \in Task : InLine(t) => Contains(pending, t)
    BY DEF Inv, QueuedIsFresh, QueuedOnce, InLine
  <1>9. slots \in SUBSET running
    OBVIOUS
  <1> HIDE DEF slots
  <1>10. \/ pending' = pending /\ running' = slots
         \/ /\ pending # <<>>
            /\ Cardinality(slots) < MaxConcurrent
            /\ pending' = Tail(pending)
            /\ running' = slots \cup {Head(pending)}
    BY <1>2, <1>3, <1>4, <1>5, <1>6, DispatchOutcome
  <1>11. CASE pending = <<>>
    <2>1. pending' = pending /\ running' = slots
      BY <1>10, <1>11
    <2>2. \A t \in Task : StateOf(t)' = StateOf(t)
      BY <1>2, <1>7, <1>9, <2>1 DEF StateOf
    <2> QED  BY <2>1, <2>2, Stutter
  <1>12. CASE pending # <<>>
    <2>1. Service!Admit(pending)
      BY <1>2, <1>3, <1>7, <1>8, <1>9, <1>10, DispatchAdmits
    <2> QED  BY <1>12, <2>1 DEF Service!Start, Service!Next
  <1> QED  BY <1>11, <1>12

\* Cancelling a waiting task withdraws it from the line.
LEMMA CancelPendingServes == Inv /\ CancelPending => [Service!Next]_(Service!vars)
  <1> SUFFICES ASSUME Inv, CancelPending PROVE [Service!Next]_(Service!vars)
    OBVIOUS
  <1>1. PICK idx \in 1..Len(pending) :
          /\ pending' = RemoveAt(pending, idx)
          /\ reports' = [reports EXCEPT ![pending[idx]] = Append(@, "Canceled")]
          /\ running' = running
    BY DEF CancelPending
  <1>0. PICK task \in Task : task = pending[idx]
    BY DEF Inv, TypeOK
  <1> DEFINE state == [t \in Task |-> StateOf(t)]
  <1>2. /\ pending \in Seq(Task)
        /\ reports \in [Task -> Seq(Outcome)]
        /\ InLine(task)
        /\ \A t \in Task : Once(pending, t)
    BY <1>0 DEF Inv, TypeOK, QueuedOnce, InLine, Contains
  <1>3. reports[task] = <<>>
    BY <1>2 DEF Inv, QueuedIsFresh, Fresh
  <1>4. StateOf(task)' = "Canceled"
    <2>1. reports'[task] = <<"Canceled">>
      BY <1>0, <1>1, <1>2, <1>3
    <2> QED  BY <2>1 DEF StateOf
  <1>5. ASSUME NEW t \in Task, t # task
        PROVE  StateOf(t)' = StateOf(t)
    <2>1. reports'[t] = reports[t]
      BY <1>0, <1>1, <1>2, <1>5
    <2>2. Contains(pending', t) <=> Contains(pending, t)
      BY <1>0, <1>1, <1>2, <1>5, RemoveAtOnce
    <2> QED  BY <1>1, <2>1, <2>2, StateKept
  <1>6. state' = [state EXCEPT ![task] = "Canceled"]
    BY <1>4, <1>5
  <1>7. Service!Withdraw(idx)
    <2>1. state' = [state EXCEPT ![pending[idx]] = "Canceled"]
      <3> HIDE DEF state
      <3> QED  BY <1>0, <1>6
    <2>2. pending' = Service!RemoveAt(pending, idx)
      BY <1>1 DEF RemoveAt, Service!RemoveAt
    <2> QED  BY Zenon, <2>1, <2>2 DEF Service!Withdraw
  <1> QED  BY <1>7 DEF Service!Next

\* The report of a thread is the end of a running task.
LEMMA ReportServes ==
    ASSUME Inv, NEW t \in Task, Report(t)
    PROVE  [Service!Next]_(Service!vars)
  <1> DEFINE state == [u \in Task |-> StateOf(u)]
  <1>1. /\ worker[t] = "reporting"
        /\ reports' = [reports EXCEPT ![t] = Append(@, outcome[t])]
        /\ pending' = pending /\ running' = running
    BY DEF Report, Step, schedulerVars
  <1>2. /\ t \in running
        /\ reports[t] = <<>>
        /\ outcome[t] \in Outcome
        /\ reports \in [Task -> Seq(Outcome)]
    BY <1>1 DEF Inv, TypeOK, AliveHasSlot, Alive, Settled, OneHonestReport
  <1>3. StateOf(t) = "Running"
    BY <1>2 DEF StateOf
  <1>4. StateOf(t)' \in Service!Final
    <2>1. reports'[t] = <<outcome[t]>>
      BY <1>1, <1>2
    <2> QED  BY <2>1 DEF StateOf, Service!Final
  <1>5. ASSUME NEW u \in Task, u # t
        PROVE  StateOf(u)' = StateOf(u)
    <2>1. reports'[u] = reports[u]
      BY <1>1, <1>2, <1>5
    <2> QED  BY <1>1, <2>1, StateKept
  <1>6. state' = [state EXCEPT ![t] = StateOf(t)']
    BY <1>5
  <1>7. Service!Finish(t)
    BY <1>1, <1>3, <1>4, <1>6 DEF Service!Finish
  <1> QED  BY <1>7 DEF Service!Next

\* Everything else happens out of the client's sight.
LEMMA HiddenStep ==
    ASSUME UNCHANGED <<pending, running, reports>>
    PROVE  UNCHANGED Service!vars
  <1>1. \A t \in Task : StateOf(t)' = StateOf(t)
    BY DEF StateOf
  <1> QED  BY <1>1, Stutter

\* Every step of the scheduler, its threads and the sender is one of these.
LEMMA StepServes == Inv /\ [Next]_vars => [Service!Next]_(Service!vars)
  <1> SUFFICES ASSUME Inv, [Next]_vars PROVE [Service!Next]_(Service!vars)
    OBVIOUS
  <1>1. CASE Client
    BY <1>1, HiddenStep DEF Client, SendSetConfig, SendEnqueue, SendCancel, Send, schedulerVars
  <1>2. CASE RecvSetConfig \/ CancelRunning \/ CancelNothing
    BY <1>2, HiddenStep DEF RecvSetConfig, CancelRunning, CancelNothing, schedulerVars
  <1>3. CASE RecvEnqueue
    BY <1>3, RecvEnqueueServes
  <1>4. CASE RecvTaskDone
    BY <1>4, RecvTaskDoneServes
  <1>5. CASE CancelPending
    BY <1>5, CancelPendingServes
  <1>6. ASSUME NEW t \in Task, Acting(t) \/ Dialling(t) \/ Moving(t)
        PROVE  [Service!Next]_(Service!vars)
    <2>1. CASE Report(t)
      BY <2>1, ReportServes
    <2>2. CASE ~Report(t)
      <3>1. UNCHANGED <<pending, running, reports>>
        BY <1>6, <2>2 DEF Acting, Dialling, Moving, Announce, CheckCancel, Connect, OpenTransfer,
           Poll, MoveChunk, EndMove, Refresh, Conclude, Cleanup, SignalDone, Go, Settle,
           Step, schedulerVars
      <3> QED  BY <3>1, HiddenStep
    <2> QED  BY <2>1, <2>2
  <1>7. CASE UNCHANGED vars
    BY <1>7, HiddenStep DEF vars, schedulerVars
  <1> QED  BY <1>1, <1>2, <1>3, <1>4, <1>5, <1>6, <1>7 DEF Next, Scheduler

\* The client of the queue, who sees the line and one report per task, sees
\* only what TransferService allows.
THEOREM QueueImplementsService == Spec => ImplementsService
  <1>1. Init => Service!Init
    BY DEF Init, Service!Init, StateOf, Contains
  <1>2. Inv /\ [Next]_vars => [Service!Next]_(Service!vars)
    BY StepServes
  <1> QED  BY <1>1, <1>2, InvHolds, PTL DEF Spec, ImplementsService, Service!Spec

\* What the service does to the state of a task.
LEMMA ServiceTable ==
    ASSUME Inv, Service!Next, NEW u \in Task, StateOf(u) # "New", StateOf(u)' # StateOf(u)
    PROVE  \/ StateOf(u) = "Pending" /\ StateOf(u)' \in {"Running", "Canceled"}
           \/ StateOf(u) = "Running" /\ StateOf(u)' \in Service!Final
  <1> DEFINE state == [t \in Task |-> StateOf(t)]
  <1>1. pending \in Seq(Task) /\ state[u] = StateOf(u) /\ state'[u] = StateOf(u)'
    BY DEF Inv, TypeOK
  <1>2. \A i \in 1..Len(pending) : pending[i] \in Task /\ StateOf(pending[i]) = "Pending"
    <2>1. \A i \in 1..Len(pending) : pending[i] \in Task /\ InLine(pending[i])
      BY <1>1 DEF InLine, Contains
    <2> QED  BY <2>1, QueuedState
  <1>3. ASSUME NEW newLine \in Seq(Task), Service!Admit(newLine),
               \A i \in 1..Len(newLine) : StateOf(newLine[i]) \in {"New", "Pending"}
        PROVE  StateOf(u) = "Pending" /\ StateOf(u)' = "Running"
    <2>1. PICK n \in 0..Len(newLine) :
            state' = [t \in Task |-> IF t \in {newLine[i] : i \in 1..n} THEN "Running"
                                     ELSE IF t \in {newLine[i] : i \in n + 1..Len(newLine)}
                                          THEN "Pending"
                                     ELSE state[t]]
      BY <1>3 DEF Service!Admit
    <2>2. PICK started : started = {newLine[i] : i \in 1..n}
      OBVIOUS
    <2>3. PICK waiting : waiting = {newLine[i] : i \in n + 1..Len(newLine)}
      OBVIOUS
    <2>4. \A t \in started \cup waiting : StateOf(t) \in {"New", "Pending"}
      BY <1>3, <2>2, <2>3
    <2>5. state'[u] = IF u \in started THEN "Running" ELSE IF u \in waiting THEN "Pending" ELSE state[u]
      <3> HIDE DEF state
      <3> QED  BY <2>1, <2>2, <2>3
    <2> HIDE DEF state
    <2> QED  BY <1>1, <2>4, <2>5
  <1>4. ASSUME NEW t \in Task, Service!Submit(t)
        PROVE  StateOf(u) = "Pending" /\ StateOf(u)' = "Running"
    <2>1. StateOf(t) = "New" /\ Service!Admit(Append(pending, t))
      BY <1>4 DEF Service!Submit
    <2>2. /\ Append(pending, t) \in Seq(Task)
          /\ \A i \in 1..Len(Append(pending, t)) :
               StateOf(Append(pending, t)[i]) \in {"New", "Pending"}
      BY <1>1, <1>2, <2>1
    <2> QED  BY <1>3, <2>1, <2>2
  <1>5. CASE Service!Start
    BY <1>1, <1>2, <1>3, <1>5 DEF Service!Start
  <1>6. ASSUME NEW t \in Task, Service!Finish(t)
        PROVE  StateOf(u) = "Running" /\ StateOf(u)' \in Service!Final
    <2>1. state[t] = "Running" /\ \E end \in Service!Final : state' = [state EXCEPT ![t] = end]
      BY <1>6 DEF Service!Finish
    <2>2. PICK end \in Service!Final : state' = [state EXCEPT ![t] = end]
      BY <2>1
    <2>3. u = t /\ state'[u] = end
      <3>1. state'[u] = IF u = t THEN end ELSE state[u]
        <4>1. state \in [Task -> {StateOf(v) : v \in Task}]
          OBVIOUS
        <4> HIDE DEF state
        <4> QED  BY <2>2, <4>1
      <3> HIDE DEF state
      <3> QED  BY <1>1, <3>1
    <2> HIDE DEF state
    <2> QED  BY <1>1, <2>1, <2>3
  <1>7. ASSUME NEW idx \in 1..Len(pending), Service!Withdraw(idx)
        PROVE  StateOf(u) = "Pending" /\ StateOf(u)' = "Canceled"
    <2>1. state' = [state EXCEPT ![pending[idx]] = "Canceled"]
      BY <1>7 DEF Service!Withdraw
    <2>2. state'[u] = IF u = pending[idx] THEN "Canceled" ELSE state[u]
      <3>1. state \in [Task -> {StateOf(v) : v \in Task}]
        OBVIOUS
      <3> HIDE DEF state
      <3> QED  BY <2>1, <3>1
    <2> HIDE DEF state
    <2> QED  BY <1>1, <1>2, <2>2
  <1> QED  BY <1>4, <1>5, <1>6, <1>7 DEF Service!Next

\* can_transition is consulted by no one: that the scheduler and its threads follow
\* it, but for a task cancelled while it waits, is their own doing.
THEOREM TableIsFollowed == Spec => FollowsTable
  <1>1. ASSUME Inv, [Next]_vars, NEW t \in Task, StateOf(t) # "New", StateOf(t)' # StateOf(t)
        PROVE  \/ CanTransition(StateOf(t), StateOf(t)')
               \/ <<StateOf(t), StateOf(t)'>> = <<"Pending", "Canceled">>
    <2>1. Service!Next
      <3>1. CASE UNCHANGED Service!vars
        <4>1. [u \in Task |-> StateOf(u)]' = [u \in Task |-> StateOf(u)]
          BY <3>1 DEF Service!vars
        <4>2. [u \in Task |-> StateOf(u)]'[t] = StateOf(t)' /\ [u \in Task |-> StateOf(u)][t] = StateOf(t)
          OBVIOUS
        <4> QED  BY <1>1, <4>1, <4>2
      <3> QED  BY <1>1, <3>1, StepServes
    <2>2. \/ StateOf(t) = "Pending" /\ StateOf(t)' \in {"Running", "Canceled"}
          \/ StateOf(t) = "Running" /\ StateOf(t)' \in Service!Final
      BY <1>1, <2>1, ServiceTable
    <2> QED  BY <2>2 DEF CanTransition, Service!Final
  <1>2. Inv /\ [Next]_vars =>
          [\A t \in Task :
             LET from == StateOf(t)
                 to == StateOf(t)'
             IN  from # "New" /\ to # from =>
                   CanTransition(from, to) \/ <<from, to>> = <<"Pending", "Canceled">>]_vars
    BY <1>1
  <1> QED  BY <1>2, InvHolds, PTL DEF Spec, FollowsTable
=============================================================================
