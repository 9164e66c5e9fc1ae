-------------------------- MODULE TcpSessionProofs --------------------------
(***************************************************************************)
(* Proofs about TcpSession, for any number of threads, messages and calls: *)
(*   - the types, one write at a time, and the flag that guards it;        *)
(*   - the high-water mark;                                                *)
(*   - TcpSession implements SendStream;                                   *)
(*   - receiving and closing, when one thread runs the io_context.          *)
(***************************************************************************)
EXTENDS TcpSession, WellFoundedInduction, SequenceTheorems, FiniteSetTheorems, TLAPS

-----------------------------------------------------------------------------
(* Type correctness, one lemma for each group of actions. *)

\* A handler the session posts is a handler of the io_context.
LEMMA HandlerType ==
    ASSUME NEW kind \in Kinds, NEW res \in Results, NEW n \in Nat
    PROVE  Handler(kind, res, n) \in Handlers
BY DEF Handler, Handlers

\* Posting a handler keeps the queue a sequence of handlers.
LEMMA PostType ==
    ASSUME queue \in Seq(Handlers), NEW h \in Handlers, Post(h)
    PROVE  queue' \in Seq(Handlers)
BY DEF Post

\* Each handler starts at a label of the session.
LEMMA EntryType == ASSUME NEW h \in Handlers PROVE Entry(h) \in Labels \ {"enqueue", "idle"}
BY DEF Handlers, Entry, Labels, UserLabels, Kinds, Operations

\* The session starts with values of its types.
LEMMA TypeInit == Init => TypeOK
<1> SUFFICES ASSUME Init PROVE TypeOK
  OBVIOUS
<1>1. FlagTypes
  BY DEF Init, FlagTypes
<1>2. CounterTypes
  BY DEF Init, CounterTypes
<1>3. ListTypes
  BY EmptySeq DEF Init, ListTypes
<1>4. Handler("functor", "none", 0) \in Handlers
  BY HandlerType DEF Kinds, Operations, Results
<1>5. ThreadTypes
  BY <1>4, MsgsAssumption DEF Init, ThreadTypes, Labels, UserLabels
<1> QED BY <1>1, <1>2, <1>3, <1>5 DEF TypeOK

\* The types of the flags survive every step.
LEMMA FlagStep == ASSUME TypeOK, [Next]_vars PROVE FlagTypes'
<1> USE DEF TypeOK, FlagTypes, sock, send, mark, recv, hands, hist
<1>1. CASE UNCHANGED vars
  BY <1>1 DEF vars
<1>2. ASSUME NEW t \in Threads, UserCall(t) PROVE FlagTypes'
  BY <1>2 DEF UserCall, Send, Operation
<1>3. ASSUME NEW t \in Threads, Step(t) PROVE FlagTypes'
  <2>1. CASE \/ Enqueue(t) \/ PostHighWater(t) \/ DispatchFlush(t) \/ Flush(t)
             \/ SendCallbacks(t)
    BY <2>1 DEF Enqueue, PostHighWater, DispatchFlush, Flush, SendCallbacks
  <2>2. CASE TryFlush(t) \/ Release(t)
    BY <2>2 DEF TryFlush, Release
  <2>3. CASE OnRecvCompleted(t) \/ ArmCheck(t) \/ Arm(t) \/ Armed(t)
    BY <2>3 DEF OnRecvCompleted, ArmCheck, Arm, Armed
  <2>4. CASE IsOpen(t) \/ CloseSocket(t) \/ CallClosedHandler(t) \/ ClearHandlers(t)
    BY <2>4 DEF IsOpen, CloseSocket, CallClosedHandler, Swallow, ClearHandlers
  <2>5. CASE Shutdown(t)
    BY <2>5 DEF Shutdown
  <2>6. CASE SetHighWater(t)
    BY <2>6 DEF SetHighWater
  <2> QED BY <1>3, <2>1, <2>2, <2>3, <2>4, <2>5, <2>6 DEF Step
<1>4. ASSUME NEW t \in Threads, UserReturn(t) PROVE FlagTypes'
  BY <1>4 DEF UserReturn
<1>5. ASSUME NEW t \in Threads, Run(t) PROVE FlagTypes'
  BY <1>5 DEF Run
<1>6. CASE WriteProgress \/ ReceiveEnds
  BY <1>6 DEF WriteProgress, Transmit, WriteEnds, ReceiveEnds
<1> QED BY <1>1, <1>2, <1>3, <1>4, <1>5, <1>6 DEF Next

\* The types of the counters survive every step.
LEMMA CounterStep == ASSUME TypeOK, [Next]_vars PROVE CounterTypes'
<1> USE NatAssumption, MsgsAssumption
<1> USE DEF TypeOK, CounterTypes, sock, send, recv, hist
<1>1. CASE UNCHANGED vars
  BY <1>1 DEF vars
<1>2. ASSUME NEW t \in Threads, UserCall(t) PROVE CounterTypes'
  BY <1>2 DEF UserCall, Send, Operation
<1>3. ASSUME NEW t \in Threads, Step(t) PROVE CounterTypes'
  <2>1. CASE Enqueue(t)
    <3>1. Size[msg[t]] \in Nat
      BY <2>1 DEF Enqueue, Enqueued, ThreadTypes
    <3> QED BY <2>1, <3>1 DEF Enqueue
  <2>2. CASE Release(t)
    <3>1. job[t].n \in Nat
      BY DEF ThreadTypes, Handlers
    <3> QED BY <2>2, <3>1 DEF Release
  <2>3. CASE \/ PostHighWater(t) \/ TryFlush(t) \/ DispatchFlush(t) \/ Flush(t)
             \/ SendCallbacks(t)
    BY <2>3 DEF PostHighWater, TryFlush, DispatchFlush, Flush, SendCallbacks
  <2>4. CASE OnRecvCompleted(t) \/ ArmCheck(t) \/ Arm(t) \/ Armed(t)
    BY <2>4 DEF OnRecvCompleted, ArmCheck, Arm, Armed
  <2>5. CASE IsOpen(t) \/ CloseSocket(t) \/ CallClosedHandler(t) \/ ClearHandlers(t)
    BY <2>5 DEF IsOpen, CloseSocket, CallClosedHandler, Swallow, ClearHandlers
  <2>6. CASE Shutdown(t) \/ SetHighWater(t)
    BY <2>6 DEF Shutdown, SetHighWater
  <2> QED BY <1>3, <2>1, <2>2, <2>3, <2>4, <2>5, <2>6 DEF Step
<1>4. ASSUME NEW t \in Threads, UserReturn(t) PROVE CounterTypes'
  BY <1>4 DEF UserReturn, Consumable
<1>5. ASSUME NEW t \in Threads, Run(t) PROVE CounterTypes'
  BY <1>5 DEF Run
<1>6. CASE WriteProgress \/ ReceiveEnds
  BY <1>6 DEF WriteProgress, Transmit, WriteEnds, ReceiveEnds
<1> QED BY <1>1, <1>2, <1>3, <1>4, <1>5, <1>6 DEF Next

\* The types of the threads' locals survive every step.
LEMMA ThreadStep == ASSUME TypeOK, [Next]_vars PROVE ThreadTypes'
<1> USE DEF TypeOK, ThreadTypes, local, Goto, Return, Call
<1>1. CASE UNCHANGED vars
  BY <1>1 DEF vars
<1>2. ASSUME NEW t \in Threads, NEW m \in Msgs, Send(t, m) PROVE ThreadTypes'
  BY <1>2 DEF Send, InUserCode, Labels, UserLabels
<1>3. ASSUME NEW t \in Threads, NEW kind \in Operations, Operation(t, kind)
      PROVE  ThreadTypes'
  <2>1. Handler(kind, "none", 0) \in Handlers
    BY HandlerType DEF Kinds, Results
  <2>2. Entry(Handler(kind, "none", 0)) \in Labels \ {"enqueue", "idle"}
    BY <2>1, EntryType
  <2> HIDE DEF Goto
  <2>3. UNCHANGED <<pc, ret>> \/ Call(t, Entry(Handler(kind, "none", 0)))
    BY <1>3 DEF Operation, Dispatch
  <2>4. pc[t] \in UserLabels \cup {"idle"}
    BY <1>3 DEF Operation, InUserCode
  <2> QED BY <1>3, <2>2, <2>3, <2>4 DEF Operation, Goto
<1>4. ASSUME NEW t \in Threads, Step(t) PROVE ThreadTypes'
  <2> USE DEF Labels, UserLabels
  <2>1. CASE Enqueue(t) \/ PostHighWater(t)
    BY <2>1 DEF Enqueue, Enqueued, PostHighWater
  <2>2. CASE TryFlush(t) \/ DispatchFlush(t) \/ Flush(t)
    BY <2>2 DEF TryFlush, DispatchFlush, Flush
  <2>3. CASE SendCallbacks(t) \/ Release(t)
    <3>1. /\ pc' \in [Threads -> Labels] /\ ret' = ret /\ msg' = msg /\ job' = job
          /\ \A u \in Threads : pc'[u] = "enqueue" => pc[u] = "enqueue"
      BY <2>3 DEF SendCallbacks, Release
    <3>2. cb' \in [Threads -> Nat]
      <4>1. cb[t] + 1 \in Nat /\ 0 \in Nat
        OBVIOUS
      <4>2. cb' = cb \/ \E n \in Nat : cb' = [cb EXCEPT ![t] = n]
        BY <2>3, <4>1 DEF SendCallbacks, Release
      <4> QED BY <4>2
    <3> QED BY <3>1, <3>2
  <2>4. CASE OnRecvCompleted(t) \/ ArmCheck(t) \/ Arm(t) \/ Armed(t)
    BY <2>4 DEF OnRecvCompleted, ArmCheck, Arm, Armed
  <2>5. CASE IsOpen(t) \/ CloseSocket(t) \/ CallClosedHandler(t) \/ ClearHandlers(t)
    BY <2>5 DEF IsOpen, CloseSocket, CallClosedHandler, Swallow, ClearHandlers
  <2>6. CASE Shutdown(t) \/ SetHighWater(t)
    BY <2>6 DEF Shutdown, SetHighWater
  <2> QED BY <1>4, <2>1, <2>2, <2>3, <2>4, <2>5, <2>6 DEF Step
<1>5. ASSUME NEW t \in Threads, UserReturn(t) PROVE ThreadTypes'
  BY <1>5 DEF UserReturn, Labels, UserLabels
<1>6. ASSUME NEW t \in Threads, Run(t) PROVE ThreadTypes'
  <2>1. Head(queue) \in Handlers
    BY <1>6 DEF Run, ListTypes
  <2>2. Started(Head(queue)) \in Labels \ {"enqueue"}
    BY <2>1, EntryType DEF Started, Labels
  <2> QED BY <1>6, <2>1, <2>2 DEF Run
<1>7. CASE WriteProgress \/ ReceiveEnds
  BY <1>7 DEF WriteProgress, Transmit, WriteEnds, ReceiveEnds
<1> QED BY <1>1, <1>2, <1>3, <1>4, <1>5, <1>6, <1>7 DEF Next, UserCall

\* The completions that a close produces, of writes and of receives, are handlers.
LEMMA AbortedTypes ==
    ASSUME TypeOK
    PROVE  /\ [i \in 1..Len(writes) |-> Handler("written", "error", writes[i].n)] \in Seq(Handlers)
           /\ [i \in 1..receives |-> Handler("received", "error", 0)] \in Seq(Handlers)
<1>1. \A i \in 1..Len(writes) : Handler("written", "error", writes[i].n) \in Handlers
  <2>1. \A i \in 1..Len(writes) : writes[i] \in WriteOps
    BY ElementOfSeq DEF TypeOK, ListTypes
  <2>2. \A w \in WriteOps : w.n \in Nat
    BY DEF WriteOps
  <2> QED BY <2>1, <2>2, HandlerType DEF Kinds, Results
<1>2. Handler("received", "error", 0) \in Handlers
  BY HandlerType DEF Kinds, Results
<1>3. [i \in 1..Len(writes) |-> Handler("written", "error", writes[i].n)] \in Seq(Handlers)
  BY <1>1 DEF TypeOK, ListTypes
<1>4. [i \in 1..receives |-> Handler("received", "error", 0)] \in Seq(Handlers)
  BY <1>2 DEF TypeOK, CounterTypes
<1> QED BY <1>3, <1>4

\* So is what a close appends to the queue a sequence of handlers.
LEMMA AbortedType == ASSUME TypeOK PROVE Aborted \in Seq(Handlers)
BY AbortedTypes, ConcatProperties DEF Aborted

\* The types of the lists and queues survive every step.
LEMMA ListStep == ASSUME TypeOK, [Next]_vars PROVE ListTypes'
<1> USE MsgsAssumption
<1> USE DEF TypeOK, ListTypes, sock, send, hist
<1>1. CASE UNCHANGED vars
  BY <1>1 DEF vars
<1>2. ASSUME NEW t \in Threads, NEW m \in Msgs, Send(t, m) PROVE ListTypes'
  BY <1>2 DEF Send
<1>3. ASSUME NEW t \in Threads, NEW kind \in Operations, Operation(t, kind)
      PROVE  ListTypes'
  <2>1. Handler(kind, "none", 0) \in Handlers
    BY HandlerType DEF Kinds, Results
  <2> QED BY <1>3, <2>1, PostType DEF Operation, Dispatch
<1>4. ASSUME NEW t \in Threads, Step(t) PROVE ListTypes'
  <2>1. CASE Enqueue(t)
    <3>1. msg[t] \in Msgs
      BY <2>1 DEF Enqueue, Enqueued, ThreadTypes
    <3> QED BY <2>1, <3>1 DEF Enqueue
  <2>2. CASE TryFlush(t)
    BY <2>2 DEF TryFlush
  <2>3. CASE DispatchFlush(t)
    <3>1. Handler("flush", "none", 0) \in Handlers
      BY HandlerType DEF Kinds, Results
    <3> QED BY <2>3, <3>1, PostType DEF DispatchFlush
  <2>4. CASE Flush(t)
    <3>1. Handler("written", "error", 0) \in Handlers
      BY HandlerType DEF Kinds, Results
    <3> DEFINE w == [done |-> <<>>, todo |-> mSendingMsgList, n |-> 0]
    <3>2. w \in WriteOps
      BY EmptySeq DEF WriteOps
    <3>3. writes' = Append(writes, w) \/ writes' = writes
      BY <2>4 DEF Flush
    <3> HIDE DEF w
    <3>4. Append(writes, w) \in Seq(WriteOps)
      BY <3>2, AppendProperties
    <3>5. writes' \in Seq(WriteOps)
      BY <3>3, <3>4
    <3>6. queue' \in Seq(Handlers)
      BY <2>4, <3>1, PostType DEF Flush
    <3> QED BY <2>4, <3>5, <3>6 DEF Flush
  <2>5. CASE SendCallbacks(t)
    <3>1. cb[t] < Len(mSendingMsgList) => mSendingMsgList[cb[t] + 1] \in Msgs
      BY ElementOfSeq, LenProperties DEF ThreadTypes
    <3>2. CASE cb[t] < Len(mSendingMsgList)
      <4>1. /\ completed' = Append(completed, mSendingMsgList[cb[t] + 1])
            /\ mSendingMsgList' = mSendingMsgList
        BY <2>5, <3>2 DEF SendCallbacks
      <4>2. completed' \in Seq(Msgs)
        BY <3>1, <3>2, <4>1, AppendProperties
      <4> QED BY <2>5, <4>1, <4>2 DEF SendCallbacks
    <3>3. CASE ~(cb[t] < Len(mSendingMsgList))
      <4>1. mSendingMsgList' = <<>> /\ completed' = completed
        BY <2>5, <3>3 DEF SendCallbacks
      <4> QED BY <2>5, <4>1, EmptySeq DEF SendCallbacks
    <3> QED BY <3>2, <3>3
  <2>6. CASE Arm(t)
    <3>1. Handler("received", "error", 0) \in Handlers
      BY HandlerType DEF Kinds, Results
    <3> QED BY <2>6, <3>1, PostType DEF Arm
  <2>7. CASE CloseSocket(t)
    BY <2>7, AbortedType, EmptySeq, ConcatProperties DEF CloseSocket
  <2>8. CASE Release(t) \/ OnRecvCompleted(t) \/ ArmCheck(t) \/ Armed(t)
    BY <2>8 DEF Release, OnRecvCompleted, ArmCheck, Armed
  <2>9. CASE \/ IsOpen(t) \/ CallClosedHandler(t) \/ ClearHandlers(t)
             \/ Shutdown(t) \/ SetHighWater(t)
    BY <2>9 DEF IsOpen, CallClosedHandler, Swallow, ClearHandlers, Shutdown, SetHighWater
  <2>10. CASE PostHighWater(t)
    <3>1. Handler("highWater", "none", 0) \in Handlers
      BY HandlerType DEF Kinds, Results
    <3> QED BY <2>10, <3>1, PostType DEF PostHighWater
  <2> QED BY <1>4, <2>1, <2>2, <2>3, <2>4, <2>5, <2>6, <2>7, <2>8, <2>9, <2>10 DEF Step
<1>5. ASSUME NEW t \in Threads, UserReturn(t) PROVE ListTypes'
  BY <1>5 DEF UserReturn
<1>6. ASSUME NEW t \in Threads, Run(t) PROVE ListTypes'
  BY <1>6 DEF Run
<1>7. ASSUME NEW i \in DOMAIN writes, Transmit(i) PROVE ListTypes'
  <2> DEFINE m == Head(writes[i].todo)
             w == [done |-> Append(writes[i].done, m), todo |-> Tail(writes[i].todo),
                   n |-> writes[i].n + Size[m]]
  <2>1. i \in 1..Len(writes) /\ writes[i] \in WriteOps
    BY LenProperties, ElementOfSeq
  <2>2. m \in Msgs /\ Tail(writes[i].todo) \in Seq(Msgs)
    BY <1>7, <2>1, HeadTailProperties DEF Transmit, WriteOps
  <2>3. w \in WriteOps
    <3>1. /\ writes[i].done \in Seq(Msgs) /\ writes[i].n \in Nat
      BY <2>1 DEF WriteOps
    <3>2. Append(writes[i].done, m) \in Seq(Msgs)
      BY <2>2, <3>1, AppendProperties
    <3>3. writes[i].n + Size[m] \in Nat
      <4>1. Size[m] \in Nat
        BY <2>2, MsgsAssumption
      <4> HIDE DEF m
      <4> QED BY ONLY <3>1, <4>1
    <3> QED BY <2>2, <3>2, <3>3 DEF WriteOps
  <2>4. writes' = [writes EXCEPT ![i] = w] /\ wire' = Append(wire, m)
    BY <1>7 DEF Transmit
  <2> HIDE DEF w, m
  <2>5. writes' \in Seq(WriteOps)
    BY <2>1, <2>3, <2>4, ExceptSeq
  <2>6. wire' \in Seq(Msgs)
    BY <2>2, <2>4
  <2> QED BY <1>7, <2>5, <2>6 DEF Transmit
<1>8. ASSUME NEW i \in DOMAIN writes, WriteEnds(i) PROVE ListTypes'
  <2>1. i \in 1..Len(writes) /\ writes[i].n \in Nat
    <3>1. i \in 1..Len(writes) /\ writes[i] \in WriteOps
      BY LenProperties, ElementOfSeq
    <3> QED BY <3>1 DEF WriteOps
  <2>2. Handler("written", IF writes[i].todo = <<>> THEN "ok" ELSE "error", writes[i].n)
           \in Handlers
    BY <2>1, HandlerType DEF Kinds, Results
  <2>3. RemoveAt(writes, i) \in Seq(WriteOps)
    <3>1. \A j \in 1..Len(writes) : writes[j] \in WriteOps
      BY ElementOfSeq
    <3>2. SubSeq(writes, 1, i - 1) \in Seq(WriteOps)
      BY <2>1, <3>1, LenProperties, SubSeqProperties
    <3>3. SubSeq(writes, i + 1, Len(writes)) \in Seq(WriteOps)
      BY <2>1, <3>1, LenProperties, SubSeqProperties
    <3> QED BY <3>2, <3>3, ConcatProperties DEF RemoveAt
  <2> QED BY <1>8, <2>2, <2>3, PostType DEF WriteEnds
<1>9. CASE ReceiveEnds
  <2>1. \A res \in {"data", "eof", "error"} : Handler("received", res, 0) \in Handlers
    BY HandlerType DEF Kinds, Results
  <2> QED BY <1>9, <2>1, PostType DEF ReceiveEnds
<1> QED BY <1>1, <1>2, <1>3, <1>4, <1>5, <1>6, <1>7, <1>8, <1>9
        DEF Next, UserCall, WriteProgress

\* Type correctness, for every number of threads and messages.
THEOREM TypeCorrect == Spec => []TypeOK
<1>1. TypeOK /\ [Next]_vars => TypeOK'
  BY FlagStep, CounterStep, ListStep, ThreadStep DEF TypeOK
<1> QED BY <1>1, TypeInit, PTL DEF Spec

-----------------------------------------------------------------------------
(* One write at a time. *)

\* A step that creates no holder of the right to send preserves its
\* exclusiveness.
LEMMA NoNewHolder ==
    ASSUME OneHolder, FlagGuardsSending, UNCHANGED <<writes, mSending>>,
           \A u \in Threads : ThreadHolds(u)' => ThreadHolds(u),
           \A i \in DOMAIN queue' : HandlerHolds(queue'[i]) =>
               i \in DOMAIN queue /\ queue[i] = queue'[i]
    PROVE  OneHolder' /\ FlagGuardsSending'
BY DEF OneHolder, FlagGuardsSending, NobodyHolds

\* A handler is posted behind those that are queued.
LEMMA PostAppends ==
    ASSUME queue \in Seq(Handlers), NEW h \in Handlers, Post(h)
    PROVE  /\ DOMAIN queue = 1..Len(queue) /\ DOMAIN queue' = 1..(Len(queue) + 1)
           /\ \A i \in DOMAIN queue : queue'[i] = queue[i]
           /\ \A i \in DOMAIN queue' : i = Len(queue) + 1 \/ i \in DOMAIN queue
BY AppendProperties, LenProperties DEF Post

\* Posting a handler without the right to send creates no holder.
LEMMA PostOther ==
    ASSUME queue \in Seq(Handlers), NEW h \in Handlers, ~HandlerHolds(h), Post(h)
    PROVE  \A i \in DOMAIN queue' : HandlerHolds(queue'[i]) =>
               i \in DOMAIN queue /\ queue[i] = queue'[i]
<1>1. queue'[Len(queue) + 1] = h
  BY AppendProperties DEF Post
<1> QED BY <1>1, PostAppends

\* At the start nobody holds the right to send.
LEMMA SendInvInit == Init => SendInv
<1> SUFFICES ASSUME Init PROVE SendInv
  OBVIOUS
<1>1. ReturnLabels
  BY DEF Init, ReturnLabels, UserLabels
<1>2. NobodyHolds
  BY DEF Init, NobodyHolds, ThreadHolds
<1>3. OneHolder
  BY <1>2, EmptySeq DEF OneHolder, NobodyHolds
<1> QED BY <1>1, <1>2, <1>3, TypeInit DEF SendInv, FlagGuardsSending

\* Threads return to user code or to the event loop.
LEMMA ReturnStep == ASSUME TypeOK, ReturnLabels, FlagGuardsSending, [Next]_vars
                    PROVE  ReturnLabels'
<1> USE DEF TypeOK, ThreadTypes, ReturnLabels, UserLabels, local, Goto, Return, Call
<1>1. CASE UNCHANGED vars
  BY <1>1 DEF vars
<1>2. ASSUME NEW t \in Threads, NEW m \in Msgs, Send(t, m) PROVE ReturnLabels'
  BY <1>2 DEF Send, InUserCode
<1>3. ASSUME NEW t \in Threads, NEW kind \in Operations, Operation(t, kind)
      PROVE  ReturnLabels'
  <2>1. CASE t \in IoThreads
    <3>1. /\ pc' = [pc EXCEPT ![t] = Entry(Handler(kind, "none", 0))]
          /\ ret' = [ret EXCEPT ![t] = pc[t]]
          /\ kind # "functor"
      BY <1>3, <2>1, ThreadsAssumption DEF Operation, Dispatch
    <3>2. Entry(Handler(kind, "none", 0))
             \in {"isOpen", "armCheck", "shutdown", "setHighWater", "withdraw"}
      BY <3>1 DEF Entry, Handler, Operations
    <3> HIDE DEF Entry
    <3> QED BY <3>1, <3>2
  <2>2. CASE t \notin IoThreads
    BY <1>3, <2>2 DEF Operation, Dispatch
  <2> QED BY <2>1, <2>2
<1>4. ASSUME NEW t \in Threads, Step(t) PROVE ReturnLabels'
  <2>1. CASE Enqueue(t) \/ PostHighWater(t)
    BY <2>1 DEF Enqueue, Enqueued, PostHighWater
  <2>2. CASE TryFlush(t)
    BY <2>2 DEF TryFlush, CanFlush, FlagGuardsSending, NobodyHolds, ThreadHolds
  <2>3. CASE DispatchFlush(t) \/ Flush(t)
    BY <2>3 DEF DispatchFlush, Flush
  <2>4. CASE SendCallbacks(t) \/ Release(t)
    BY <2>4 DEF SendCallbacks, Release
  <2>5. CASE OnRecvCompleted(t) \/ ArmCheck(t) \/ Arm(t) \/ Armed(t)
    BY <2>5 DEF OnRecvCompleted, ArmCheck, Arm, Armed
  <2>6. CASE IsOpen(t) \/ ClearHandlers(t)
    BY <2>6 DEF IsOpen, ClearHandlers
  <2>7. CASE Shutdown(t) \/ SetHighWater(t)
    BY <2>7 DEF Shutdown, SetHighWater
  <2>8. CASE CloseSocket(t)
    BY <2>8 DEF CloseSocket, Swallow
  <2>9. CASE CallClosedHandler(t)
    BY <2>9 DEF CallClosedHandler, Swallow
  <2> QED BY <1>4, <2>1, <2>2, <2>3, <2>4, <2>5, <2>6, <2>7, <2>8, <2>9 DEF Step
<1>5. ASSUME NEW t \in Threads, UserReturn(t) PROVE ReturnLabels'
  BY <1>5 DEF UserReturn
<1>6. ASSUME NEW t \in Threads, Run(t) PROVE ReturnLabels'
  BY <1>6 DEF Run
<1>7. CASE WriteProgress \/ ReceiveEnds
  BY <1>7 DEF WriteProgress, Transmit, WriteEnds, ReceiveEnds
<1> QED BY <1>1, <1>2, <1>3, <1>4, <1>5, <1>6, <1>7 DEF Next, UserCall

\* No step brings a second holder of the right to send into being, and
\* none leaves a holder behind when mSending is reset.
LEMMA HolderStep == ASSUME SendInv, [Next]_vars PROVE OneHolder' /\ FlagGuardsSending'
<1> USE DEF SendInv, TypeOK, ListTypes, sock, send, local
<1>0. /\ pc \in [Threads -> Labels]
      /\ ret \in [Threads -> UserLabels \cup {"idle"}]
      /\ DOMAIN queue = 1..Len(queue) /\ Len(queue) \in Nat
      /\ DOMAIN writes = 1..Len(writes) /\ Len(writes) \in Nat
  BY LenProperties DEF ThreadTypes
<1>1. CASE UNCHANGED vars
  BY <1>1 DEF vars, OneHolder, FlagGuardsSending, NobodyHolds, ThreadHolds
<1>2. ASSUME NEW t \in Threads, NEW m \in Msgs, Send(t, m)
      PROVE  OneHolder' /\ FlagGuardsSending'
  <2>1. \A u \in Threads : ThreadHolds(u)' => ThreadHolds(u)
    BY <1>0, <1>2 DEF Send, Call, Goto, ThreadHolds
  <2> QED BY <1>2, <2>1, NoNewHolder DEF Send
<1>3. ASSUME NEW t \in Threads, NEW kind \in Operations, Operation(t, kind)
      PROVE  OneHolder' /\ FlagGuardsSending'
  <2> DEFINE h == Handler(kind, "none", 0)
  <2>1. h \in Handlers /\ ~HandlerHolds(h)
    BY DEF Handler, Handlers, Kinds, Results, Operations, HandlerHolds
  <2>2. \A u \in Threads : ThreadHolds(u)' => ThreadHolds(u)
    <3>1. t \in IoThreads /\ kind # "functor" =>
             Entry(h) \in {"isOpen", "armCheck", "shutdown", "setHighWater", "withdraw"}
      BY DEF Entry, Handler, Operations
    <3>2. t \in IoThreads => kind # "functor"
      BY <1>3, ThreadsAssumption DEF Operation
    <3> HIDE DEF h
    <3> QED BY <1>0, <1>3, <3>1, <3>2 DEF Operation, Dispatch, h, Call, Goto, ThreadHolds
  <2>3. UNCHANGED queue \/ Post(h)
    BY <1>3 DEF Operation, Dispatch
  <2> HIDE DEF h
  <2> QED BY <1>3, <2>1, <2>2, <2>3, PostOther, NoNewHolder DEF Operation
<1>4. ASSUME NEW t \in Threads, UserReturn(t) PROVE OneHolder' /\ FlagGuardsSending'
  <2>1. \A u \in Threads : ThreadHolds(u)' => ThreadHolds(u)
    BY <1>0, <1>4 DEF UserReturn, Goto, ThreadHolds
  <2> QED BY <1>4, <2>1, NoNewHolder DEF UserReturn
<1>5. ASSUME NEW t \in Threads, Run(t) PROVE OneHolder' /\ FlagGuardsSending'
  <2> DEFINE h == Head(queue)
  <2>1. /\ h = queue[1] /\ 1 \in DOMAIN queue
        /\ DOMAIN queue' = 1..(Len(queue) - 1)
        /\ \A i \in DOMAIN queue' : i + 1 \in DOMAIN queue /\ queue'[i] = queue[i + 1]
    BY <1>0, <1>5, HeadTailProperties, LenProperties DEF Run
  <2>2. ~ThreadHolds(t)
    BY <1>5, <1>0 DEF Run, ThreadHolds, ReturnLabels
  <2>3. ThreadHolds(t)' <=> HandlerHolds(h)
    <3>1. h \in Handlers
      BY <2>1, ElementOfSeq, <1>0
    <3>2. pc'[t] = Started(h) /\ ret'[t] = "idle"
      <4> HIDE DEF h
      <4>1. t \in Threads /\ t \in DOMAIN pc /\ t \in DOMAIN ret
        BY <1>0
      <4> QED BY <4>1, <1>5 DEF Run, Goto, h
    <3>3. Started(h) \in {"flush", "callbacks", "dispatchFlush", "inCallback", "release"}
             <=> HandlerHolds(h)
      BY <3>1 DEF Started, Entry, Handlers, HandlerHolds, Kinds, Operations
    <3> QED BY <3>2, <3>3 DEF ThreadHolds
  <2>4. \A u \in Threads \ {t} : ThreadHolds(u)' <=> ThreadHolds(u)
    BY <1>0, <1>5 DEF Run, Goto, ThreadHolds
  <2>5. UNCHANGED <<writes, mSending>>
    BY <1>5 DEF Run
  <2> HIDE DEF h
  <2>6. CASE HandlerHolds(h)
    <3>1. writes = <<>> /\ mSending /\ \A u \in Threads : ~ThreadHolds(u)
      BY <2>1, <2>6 DEF OneHolder, FlagGuardsSending, NobodyHolds
    <3>2. \A i \in DOMAIN queue' : ~HandlerHolds(queue'[i])
      <4> SUFFICES ASSUME NEW i \in DOMAIN queue', HandlerHolds(queue'[i]) PROVE FALSE
        OBVIOUS
      <4>1. i + 1 = 1
        BY <2>1, <2>6 DEF OneHolder
      <4> QED BY <1>0, <2>1, <4>1
    <3>3. Len(writes') <= 1
      BY <2>5, <3>1, EmptySeq
    <3> QED BY <2>4, <2>5, <3>1, <3>2, <3>3 DEF OneHolder, FlagGuardsSending
  <2>7. CASE ~HandlerHolds(h)
    <3>1. \A u \in Threads : ThreadHolds(u)' => ThreadHolds(u)
      BY <2>3, <2>4, <2>7
    <3>2. \A i, j \in DOMAIN queue' :
             HandlerHolds(queue'[i]) /\ HandlerHolds(queue'[j]) => i = j
      <4> SUFFICES ASSUME NEW i \in DOMAIN queue', NEW j \in DOMAIN queue',
                          HandlerHolds(queue'[i]), HandlerHolds(queue'[j])
                   PROVE  i = j
        OBVIOUS
      <4>1. i + 1 = j + 1
        BY <2>1 DEF OneHolder
      <4> QED BY <1>0, <2>1, <4>1
    <3>3. (\E i \in DOMAIN queue' : HandlerHolds(queue'[i])) =>
             \E i \in DOMAIN queue : HandlerHolds(queue[i])
      BY <2>1
    <3> QED BY <2>5, <3>1, <3>2, <3>3 DEF OneHolder, FlagGuardsSending, NobodyHolds
  <2> QED BY <2>6, <2>7
<1>6. ASSUME NEW t \in Threads, Enqueue(t) PROVE OneHolder' /\ FlagGuardsSending'
  <2>1. \A u \in Threads : ThreadHolds(u)' => ThreadHolds(u)
    BY <1>0, <1>6 DEF Enqueue, Enqueued, Goto, ThreadHolds, UserLabels
  <2> QED BY <1>6, <2>1, NoNewHolder DEF Enqueue
<1>7. ASSUME NEW t \in Threads, TryFlush(t) PROVE OneHolder' /\ FlagGuardsSending'
  <2>1. CASE CanFlush
    <3>1. NobodyHolds
      BY <2>1 DEF CanFlush, FlagGuardsSending
    <3>2. \A u \in Threads \ {t} : ~ThreadHolds(u)'
      BY <1>0, <1>7, <2>1, <3>1 DEF TryFlush, Goto, ThreadHolds, NobodyHolds
    <3>3. UNCHANGED <<queue, writes>> /\ mSending'
      BY <1>7, <2>1 DEF TryFlush
    <3> QED BY <1>0, <3>1, <3>2, <3>3 DEF OneHolder, FlagGuardsSending, NobodyHolds
  <2>2. CASE ~CanFlush
    <3>1. \A u \in Threads : ThreadHolds(u)' => ThreadHolds(u)
      BY <1>0, <1>7, <2>2 DEF TryFlush, Return, Goto, ThreadHolds, UserLabels
    <3> QED BY <1>7, <2>2, <3>1, NoNewHolder DEF TryFlush
  <2> QED BY <2>1, <2>2
<1>8. ASSUME NEW t \in Threads, DispatchFlush(t) PROVE OneHolder' /\ FlagGuardsSending'
  <2> DEFINE h == Handler("flush", "none", 0)
  <2>1. h \in Handlers
    BY HandlerType DEF Kinds, Results
  <2>2. ThreadHolds(t) /\ mSending
    BY <1>8 DEF DispatchFlush, ThreadHolds, FlagGuardsSending, NobodyHolds
  <2>3. UNCHANGED <<writes, mSending>>
    BY <1>8 DEF DispatchFlush
  <2>4. CASE t \in IoThreads
    <3>1. \A u \in Threads : ThreadHolds(u)' => ThreadHolds(u)
      BY <1>0, <1>8, <2>2, <2>4 DEF DispatchFlush, Goto, ThreadHolds
    <3> QED BY <1>8, <2>4, <3>1, NoNewHolder DEF DispatchFlush
  <2>5. CASE t \notin IoThreads
    <3>1. \A u \in Threads : ~ThreadHolds(u)'
      BY <1>0, <1>8, <2>2, <2>5
         DEF DispatchFlush, Return, Goto, ThreadHolds, OneHolder, ReturnLabels, UserLabels
    <3>2. Post(h)
      BY <1>8, <2>5 DEF DispatchFlush
    <3> HIDE DEF h
    <3>3. writes' = <<>> /\ \A i \in DOMAIN queue : ~HandlerHolds(queue[i])
      BY <2>2, <2>3 DEF OneHolder
    <3>4. \A i \in DOMAIN queue' : HandlerHolds(queue'[i]) => i = Len(queue) + 1
      BY <1>0, <2>1, <3>2, <3>3, PostAppends
    <3>5. Len(writes') <= 1
      BY <3>3, EmptySeq
    <3> QED BY <2>2, <2>3, <3>1, <3>3, <3>4, <3>5 DEF OneHolder, FlagGuardsSending
  <2> QED BY <2>4, <2>5
<1>9. ASSUME NEW t \in Threads, Flush(t) PROVE OneHolder' /\ FlagGuardsSending'
  <2> DEFINE h == Handler("written", "error", 0)
             w == [done |-> <<>>, todo |-> mSendingMsgList, n |-> 0]
  <2>1. h \in Handlers /\ ~HandlerHolds(h)
    BY DEF Handler, Handlers, Kinds, Results, HandlerHolds
  <2>2. ThreadHolds(t) /\ mSending /\ mSending' = mSending
    BY <1>9 DEF Flush, ThreadHolds, FlagGuardsSending, NobodyHolds
  <2>3. \A u \in Threads : ~ThreadHolds(u)'
    BY <1>0, <1>9, <2>2
       DEF Flush, Return, Goto, ThreadHolds, OneHolder, ReturnLabels, UserLabels
  <2>4. w \in WriteOps
    BY EmptySeq DEF WriteOps
  <2>5. CASE open
    <3>1. queue' = queue /\ writes' = Append(writes, w) /\ writes = <<>>
      BY <1>9, <2>2, <2>5 DEF Flush, OneHolder
    <3> HIDE DEF w
    <3>2. Len(writes') <= 1
      BY <2>4, <3>1, AppendProperties, EmptySeq
    <3> QED BY <2>2, <2>3, <3>1, <3>2 DEF OneHolder, FlagGuardsSending
  <2>6. CASE ~open
    <3>1. writes' = writes /\ Post(h)
      BY <1>9, <2>6 DEF Flush
    <3> HIDE DEF h
    <3> QED BY <1>9, <2>1, <2>2, <2>3, <3>1, PostOther, NoNewHolder
  <2> QED BY <2>5, <2>6
<1>10. ASSUME NEW t \in Threads, SendCallbacks(t) PROVE OneHolder' /\ FlagGuardsSending'
  <2>1. \A u \in Threads : ThreadHolds(u)' => ThreadHolds(u)
    BY <1>0, <1>10 DEF SendCallbacks, Goto, ThreadHolds
  <2> QED BY <1>10, <2>1, NoNewHolder DEF SendCallbacks
<1>11. ASSUME NEW t \in Threads, Release(t) PROVE OneHolder' /\ FlagGuardsSending'
  <2>1. ThreadHolds(t) /\ ret[t] = "idle"
    BY <1>11 DEF Release, ThreadHolds, ReturnLabels
  <2>2. \A u \in Threads : ~ThreadHolds(u)'
    BY <1>0, <1>11, <2>1 DEF Release, Goto, ThreadHolds, OneHolder
  <2>3. UNCHANGED <<queue, writes>>
    BY <1>11 DEF Release
  <2>4. NobodyHolds'
    BY <2>1, <2>2, <2>3 DEF OneHolder, NobodyHolds
  <2> QED BY <2>4, EmptySeq DEF OneHolder, FlagGuardsSending, NobodyHolds
<1>12. ASSUME NEW t \in Threads, Arm(t) PROVE OneHolder' /\ FlagGuardsSending'
  <2> DEFINE h == Handler("received", "error", 0)
  <2>1. h \in Handlers /\ ~HandlerHolds(h)
    BY DEF Handler, Handlers, Kinds, Results, HandlerHolds
  <2>2. \A u \in Threads : ThreadHolds(u)' => ThreadHolds(u)
    BY <1>0, <1>12 DEF Arm, Return, Goto, ThreadHolds, UserLabels
  <2>3. UNCHANGED queue \/ Post(h)
    BY <1>12 DEF Arm
  <2> HIDE DEF h
  <2> QED BY <1>12, <2>1, <2>2, <2>3, PostOther, NoNewHolder DEF Arm
<1>13. ASSUME NEW t \in Threads, CloseSocket(t) PROVE OneHolder' /\ FlagGuardsSending'
  <2>1. \A u \in Threads : ThreadHolds(u)' => ThreadHolds(u)
    BY <1>0, <1>13 DEF CloseSocket, Swallow, Return, Goto, ThreadHolds, UserLabels
  <2>2. \A i \in DOMAIN Aborted : ~HandlerHolds(Aborted[i])
    <3> DEFINE w == [i \in 1..Len(writes) |-> Handler("written", "error", writes[i].n)]
               r == [i \in 1..receives |-> Handler("received", "error", 0)]
    <3>1. /\ \A i \in DOMAIN w : ~HandlerHolds(w[i])
          /\ \A i \in DOMAIN r : ~HandlerHolds(r[i])
      BY DEF HandlerHolds, Handler
    <3>2. w \in Seq(Handlers) /\ r \in Seq(Handlers)
      BY AbortedTypes
    <3>3. Aborted = w \o r
      BY DEF Aborted
    <3> HIDE DEF w, r
    <3> QED BY ONLY <3>1, <3>2, <3>3, ConcatProperties, LenProperties
  <2>3. \A i \in DOMAIN queue' : HandlerHolds(queue'[i]) =>
           i \in DOMAIN queue /\ queue[i] = queue'[i]
    <3>1. queue' = queue \o Aborted /\ Aborted \in Seq(Handlers)
      BY <1>13, AbortedType DEF CloseSocket, Swallow
    <3> QED BY <1>0, <2>2, <3>1, ConcatProperties, LenProperties
  <2>4. writes' = <<>> /\ mSending' = mSending
    BY <1>13 DEF CloseSocket, Swallow
  <2> QED BY <2>1, <2>3, <2>4, EmptySeq DEF OneHolder, FlagGuardsSending, NobodyHolds
<1>14. ASSUME NEW t \in Threads, OnRecvCompleted(t) \/ ArmCheck(t) \/ Armed(t)
       PROVE  OneHolder' /\ FlagGuardsSending'
  <2>1. \A u \in Threads : ThreadHolds(u)' => ThreadHolds(u)
    BY <1>0, <1>14 DEF OnRecvCompleted, ArmCheck, Armed, Return, Goto, ThreadHolds,
                       UserLabels
  <2> QED BY <1>14, <2>1, NoNewHolder DEF OnRecvCompleted, ArmCheck, Armed
<1>15. ASSUME NEW t \in Threads,
              \/ IsOpen(t) \/ CallClosedHandler(t) \/ ClearHandlers(t)
              \/ Shutdown(t) \/ SetHighWater(t)
       PROVE  OneHolder' /\ FlagGuardsSending'
  <2>1. \A u \in Threads : ThreadHolds(u)' => ThreadHolds(u)
    BY <1>0, <1>15 DEF IsOpen, CallClosedHandler, Swallow, ClearHandlers, Shutdown, SetHighWater,
                       Return, Goto, ThreadHolds, UserLabels
  <2> QED BY <1>15, <2>1, NoNewHolder
          DEF IsOpen, CallClosedHandler, Swallow, ClearHandlers, Shutdown, SetHighWater
<1>16. ASSUME NEW i \in DOMAIN writes, Transmit(i) PROVE OneHolder' /\ FlagGuardsSending'
  <2>1. writes' # <<>> /\ Len(writes') = Len(writes) /\ writes # <<>>
    BY <1>0, <1>16, ExceptSeq DEF Transmit
  <2>2. UNCHANGED <<queue, mSending, pc, ret>>
    BY <1>16 DEF Transmit
  <2> QED BY <2>1, <2>2 DEF OneHolder, FlagGuardsSending, NobodyHolds, ThreadHolds
<1>17. ASSUME NEW i \in DOMAIN writes, WriteEnds(i) PROVE OneHolder' /\ FlagGuardsSending'
  <2> DEFINE h == Handler("written", IF writes[i].todo = <<>> THEN "ok" ELSE "error",
                          writes[i].n)
  <2>1. i = 1 /\ Len(writes) = 1
    BY <1>0 DEF OneHolder
  <2>2. writes' = <<>>
    BY <1>17, <2>1, SubSeqEmpty, ConcatEmptySeq DEF WriteEnds, RemoveAt
  <2>3. h \in Handlers
    <3>1. writes[i] \in WriteOps
      BY <1>0, ElementOfSeq
    <3>2. writes[i].n \in Nat
      BY <3>1 DEF WriteOps
    <3> QED BY <3>2, HandlerType DEF Kinds, Results
  <2>4. writes # <<>>
    <3> HIDE DEF h
    <3>1. DOMAIN writes # {}
      OBVIOUS
    <3> QED BY <3>1
  <2>5. writes # <<>> /\ mSending
    BY <2>4 DEF FlagGuardsSending, NobodyHolds
  <2>6. Post(h) /\ UNCHANGED <<mSending, pc, ret>>
    BY <1>17 DEF WriteEnds
  <2> HIDE DEF h
  <2>7. \A u \in Threads : ~ThreadHolds(u)'
    BY <2>5, <2>6 DEF OneHolder, ThreadHolds
  <2>8. \A j \in DOMAIN queue : ~HandlerHolds(queue[j])
    BY <2>5 DEF OneHolder
  <2>9. \A j \in DOMAIN queue' : HandlerHolds(queue'[j]) => j = Len(queue) + 1
    BY <1>0, <2>3, <2>6, <2>8, PostAppends
  <2>10. Len(writes') <= 1
    BY <2>2, EmptySeq
  <2> QED BY <2>2, <2>5, <2>6, <2>7, <2>9, <2>10 DEF OneHolder, FlagGuardsSending
<1>18. CASE ReceiveEnds
  <2>1. PICK res \in {"data", "eof", "error"} : Post(Handler("received", res, 0))
    BY <1>18 DEF ReceiveEnds
  <2> DEFINE h == Handler("received", res, 0)
  <2>2. h \in Handlers /\ ~HandlerHolds(h)
    BY DEF Handler, Handlers, Kinds, Results, HandlerHolds
  <2>3. UNCHANGED <<writes, mSending, pc, ret>>
    BY <1>18 DEF ReceiveEnds
  <2> HIDE DEF h
  <2> QED BY <2>1, <2>2, <2>3, PostOther, NoNewHolder DEF ThreadHolds, h
<1>19. ASSUME NEW t \in Threads, PostHighWater(t) PROVE OneHolder' /\ FlagGuardsSending'
  <2> DEFINE h == Handler("highWater", "none", 0)
  <2>1. h \in Handlers /\ ~HandlerHolds(h)
    BY DEF Handler, Handlers, Kinds, Results, HandlerHolds
  <2>2. \A u \in Threads : ThreadHolds(u)' => ThreadHolds(u)
    BY <1>0, <1>19 DEF PostHighWater, Enqueued, Goto, ThreadHolds, UserLabels
  <2>3. Post(h)
    BY <1>19 DEF PostHighWater
  <2> HIDE DEF h
  <2> QED BY <1>19, <2>1, <2>2, <2>3, PostOther, NoNewHolder DEF PostHighWater
<1> QED BY <1>1, <1>2, <1>3, <1>4, <1>5, <1>6, <1>7, <1>8, <1>9, <1>10, <1>11, <1>12,
           <1>13, <1>14, <1>15, <1>16, <1>17, <1>18, <1>19
        DEF Next, UserCall, Step, WriteProgress

\* The send slot is exclusive, for every number of threads and messages.
THEOREM SendSlot == Spec => []SendInv
<1>1. SendInv /\ [Next]_vars => SendInv'
  BY FlagStep, CounterStep, ListStep, ThreadStep, ReturnStep, HolderStep
     DEF SendInv, TypeOK
<1> QED BY <1>1, SendInvInit, PTL DEF Spec

\* At most one async_write is ever outstanding: TcpSession.hpp's "only one
\* send writev request at a time".
THEOREM OneWrite == Spec => []OneWriteAtATime
<1>1. SendInv => OneWriteAtATime
  BY DEF SendInv, OneHolder, OneWriteAtATime
<1> QED BY <1>1, SendSlot, PTL

\* While mSending is false nobody is entitled to touch mSendingMsgList.
THEOREM FlagGuards == Spec => []FlagGuardsSending
<1>1. SendInv => FlagGuardsSending
  BY DEF SendInv
<1> QED BY <1>1, SendSlot, PTL

-----------------------------------------------------------------------------
(* No message is stranded. *)

\* A step that leaves the lists and the flag alone, and nobody about to call
\* tryFlush elsewhere, strands no message.
LEMMA KeepsFlusher ==
    ASSUME NoLostFlush, UNCHANGED <<mPendingSendMsgList, mSending>>,
           \A u \in Threads : pc[u] \in {"tryFlush", "postHighWater"} => pc'[u] = pc[u]
    PROVE  NoLostFlush'
BY DEF NoLostFlush

\* No step strands a message.
LEMMA FlushStep == ASSUME TypeOK, NoLostFlush, [Next]_vars PROVE NoLostFlush'
<1> USE DEF send, Goto, Return, Call
<1>0. pc \in [Threads -> Labels]
  BY DEF TypeOK, ThreadTypes
<1>1. CASE UNCHANGED vars
  BY <1>1, KeepsFlusher DEF vars
<1>2. ASSUME NEW t \in Threads, UserCall(t) PROVE NoLostFlush'
  BY <1>0, <1>2, KeepsFlusher
     DEF UserCall, Send, Operation, Dispatch, InUserCode, UserLabels
<1>3. ASSUME NEW t \in Threads, Step(t) PROVE NoLostFlush'
  <2>1. CASE Enqueue(t)
    <3>1. mSending' = mSending
      BY <2>1 DEF Enqueue
    <3>2. CASE pc'[t] = "postHighWater" \/ pc'[t] = "tryFlush"
      BY <3>2 DEF NoLostFlush
    <3>3. CASE mSending
      BY <3>1, <3>3 DEF NoLostFlush
    <3> QED BY <1>0, <2>1, <3>2, <3>3 DEF Enqueue, Enqueued
  <2>2. CASE TryFlush(t)
    <3>1. CASE CanFlush
      BY <2>2, <3>1 DEF TryFlush, NoLostFlush
    <3>2. CASE ~CanFlush
      BY <2>2, <3>2 DEF TryFlush, CanFlush, NoLostFlush
    <3> QED BY <3>1, <3>2
  <2>3. CASE Release(t)
    BY <1>0, <2>3 DEF Release, NoLostFlush
  <2>4. CASE DispatchFlush(t) \/ Flush(t) \/ SendCallbacks(t)
    BY <1>0, <2>4, KeepsFlusher DEF DispatchFlush, Flush, SendCallbacks
  <2>5. CASE OnRecvCompleted(t) \/ ArmCheck(t) \/ Arm(t) \/ Armed(t)
    BY <1>0, <2>5, KeepsFlusher DEF OnRecvCompleted, ArmCheck, Arm, Armed
  <2>6. CASE IsOpen(t) \/ CloseSocket(t) \/ CallClosedHandler(t) \/ ClearHandlers(t)
    BY <1>0, <2>6, KeepsFlusher
       DEF IsOpen, CloseSocket, CallClosedHandler, Swallow, ClearHandlers
  <2>7. CASE Shutdown(t) \/ SetHighWater(t)
    BY <1>0, <2>7, KeepsFlusher DEF Shutdown, SetHighWater
  <2>8. CASE PostHighWater(t)
    <3>1. mSending' = mSending
      BY <2>8 DEF PostHighWater
    <3>2. CASE pc'[t] = "tryFlush"
      BY <3>2 DEF NoLostFlush
    <3>3. CASE mSending
      BY <3>1, <3>3 DEF NoLostFlush
    <3> QED BY <1>0, <2>8, <3>2, <3>3 DEF PostHighWater, Enqueued
  <2> QED BY <1>3, <2>1, <2>2, <2>3, <2>4, <2>5, <2>6, <2>7, <2>8 DEF Step
<1>4. ASSUME NEW t \in Threads, UserReturn(t) \/ Run(t) PROVE NoLostFlush'
  BY <1>0, <1>4, KeepsFlusher DEF UserReturn, Run
<1>5. CASE WriteProgress \/ ReceiveEnds
  BY <1>5, KeepsFlusher DEF WriteProgress, Transmit, WriteEnds, ReceiveEnds
<1> QED BY <1>1, <1>2, <1>3, <1>4, <1>5 DEF Next

\* Pending messages always have a write under way or a thread about to start
\* one: the early return in send loses no wakeup.
THEOREM NoMessageStranded == Spec => []NoLostFlush
<1>1. Init => NoLostFlush
  BY DEF Init, NoLostFlush
<1>2. TypeOK /\ NoLostFlush /\ [Next]_vars => NoLostFlush'
  BY FlushStep
<1> QED BY <1>1, <1>2, TypeCorrect, PTL DEF Spec

-----------------------------------------------------------------------------
(* The buffers of a write. *)

\* Moving the head of one sequence to the end of another before it.
LEMMA MoveHead ==
    ASSUME NEW S, NEW s \in Seq(S), NEW t \in Seq(S), t # <<>>
    PROVE  Append(s, Head(t)) \o Tail(t) = s \o t
<1> DEFINE h == <<Head(t)>>
           r == Tail(t)
<1>1. /\ Head(t) \in S /\ r \in Seq(S) /\ Len(r) = Len(t) - 1
      /\ Head(t) = t[1] /\ \A i \in 1..Len(r) : r[i] = t[i + 1]
      /\ Len(t) \in Nat \ {0}
  BY HeadTailProperties, EmptySeq
<1>2. h \in Seq(S) /\ Len(h) = 1 /\ h[1] = t[1]
  BY <1>1
<1>3. Append(s, Head(t)) = s \o h
  BY <1>1, AppendIsConcat
<1> HIDE DEF h, r
<1>4. /\ h \o r \in Seq(S) /\ Len(h \o r) = Len(h) + Len(r)
      /\ \A i \in 1..Len(h) + Len(r) :
            (h \o r)[i] = IF i <= Len(h) THEN h[i] ELSE r[i - Len(h)]
  BY <1>1, <1>2, ConcatProperties
<1>5. h \o r = t
  <2>1. Len(h \o r) = Len(t)
    BY <1>1, <1>2, <1>4, SMT
  <2>2. ASSUME NEW i \in 1..Len(t) PROVE (h \o r)[i] = t[i]
    <3>1. CASE i = 1
      BY <1>1, <1>2, <1>4, <3>1, SMT
    <3>2. CASE i # 1
      <4>1. i - 1 \in 1..Len(r) /\ i \in 1..Len(h) + Len(r) /\ ~(i <= Len(h)) /\ i - Len(h) = i - 1
        BY <1>1, <1>2, <3>2, SMT
      <4>2. (h \o r)[i] = r[i - 1]
        BY <1>4, <4>1
      <4>3. r[i - 1] = t[(i - 1) + 1] /\ (i - 1) + 1 = i
        BY <1>1, <4>1, SMT
      <4> QED BY <4>2, <4>3
    <3> QED BY <3>1, <3>2
  <2> QED BY <2>1, <2>2, <1>4, SeqEqual
<1>6. (s \o h) \o r = s \o (h \o r)
  <2>1. h \in Seq(S) /\ r \in Seq(S)
    BY <1>1, <1>2
  <2>2. \A T : \A x, y, z \in Seq(T) : (x \o y) \o z = x \o (y \o z)
    BY ConcatAssociative, Zenon
  <2>3. s \in Seq(S)
    OBVIOUS
  <2> QED BY <2>1, <2>2, <2>3
<1> QED BY <1>3, <1>5, <1>6 DEF r

\* No step touches the messages of an outstanding write.
LEMMA BufferStep == ASSUME SendInv, WriteOwnsBuffers, [Next]_vars PROVE WriteOwnsBuffers'
<1> USE DEF SendInv, TypeOK, ListTypes, sock, send
<1>0. DOMAIN writes = 1..Len(writes) /\ Len(writes) \in Nat
  BY LenProperties
<1>1. ASSUME UNCHANGED <<writes, mSendingMsgList>> PROVE WriteOwnsBuffers'
  BY <1>1 DEF WriteOwnsBuffers
<1>2. ASSUME writes' = <<>> PROVE WriteOwnsBuffers'
  BY <1>2 DEF WriteOwnsBuffers
<1>3. CASE UNCHANGED vars
  BY <1>1, <1>3 DEF vars
<1>4. ASSUME NEW t \in Threads, UserCall(t) \/ UserReturn(t) \/ Run(t)
      PROVE  WriteOwnsBuffers'
  BY <1>1, <1>4 DEF UserCall, Send, Operation, UserReturn, Run
<1>5. ASSUME NEW t \in Threads, Step(t) PROVE WriteOwnsBuffers'
  <2>1. CASE TryFlush(t)
    <3>1. CASE CanFlush
      BY <1>2, <2>1, <3>1 DEF TryFlush, CanFlush, FlagGuardsSending, NobodyHolds
    <3>2. CASE ~CanFlush
      BY <1>1, <2>1, <3>2 DEF TryFlush
    <3> QED BY <3>1, <3>2
  <2>2. CASE SendCallbacks(t)
    <3>1. writes = <<>>
      BY <2>2 DEF SendCallbacks, ThreadHolds, OneHolder
    <3> QED BY <1>2, <2>2, <3>1 DEF SendCallbacks
  <2>3. CASE Flush(t)
    <3> DEFINE w == [done |-> <<>>, todo |-> mSendingMsgList, n |-> 0]
    <3>1. writes = <<>> /\ mSendingMsgList' = mSendingMsgList
      BY <2>3 DEF Flush, ThreadHolds, OneHolder
    <3>2. w \in WriteOps /\ w.done \o w.todo = mSendingMsgList
      BY EmptySeq, ConcatEmptySeq DEF WriteOps
    <3>3. writes' = writes \/ writes' = Append(writes, w)
      BY <2>3 DEF Flush
    <3> HIDE DEF w
    <3>4. CASE writes' = Append(writes, w)
      <4>1. DOMAIN writes' = {1} /\ writes'[1] = w
        BY <3>1, <3>2, <3>4, AppendProperties, EmptySeq
      <4> QED BY <3>1, <3>2, <4>1 DEF WriteOwnsBuffers
    <3> QED BY <1>1, <3>1, <3>3, <3>4
  <2>4. CASE CloseSocket(t)
    BY <1>2, <2>4 DEF CloseSocket
  <2>5. CASE Enqueue(t) \/ PostHighWater(t) \/ DispatchFlush(t) \/ Release(t)
    BY <1>1, <2>5 DEF Enqueue, PostHighWater, DispatchFlush, Release
  <2>6. CASE OnRecvCompleted(t) \/ ArmCheck(t) \/ Arm(t) \/ Armed(t)
    BY <1>1, <2>6 DEF OnRecvCompleted, ArmCheck, Arm, Armed
  <2>7. CASE IsOpen(t) \/ CallClosedHandler(t) \/ ClearHandlers(t)
    BY <1>1, <2>7 DEF IsOpen, CallClosedHandler, Swallow, ClearHandlers
  <2>8. CASE Shutdown(t) \/ SetHighWater(t)
    BY <1>1, <2>8 DEF Shutdown, SetHighWater
  <2> QED BY <1>5, <2>1, <2>2, <2>3, <2>4, <2>5, <2>6, <2>7, <2>8 DEF Step
<1>6. ASSUME NEW i \in DOMAIN writes, Transmit(i) PROVE WriteOwnsBuffers'
  <2> DEFINE m == Head(writes[i].todo)
             w == [done |-> Append(writes[i].done, m), todo |-> Tail(writes[i].todo),
                   n |-> writes[i].n + Size[m]]
  <2>1. writes[i] \in WriteOps
    BY <1>0, ElementOfSeq
  <2>2. w.done \o w.todo = writes[i].done \o writes[i].todo
    BY <1>6, <2>1, MoveHead DEF Transmit, WriteOps
  <2>3. writes' = [writes EXCEPT ![i] = w] /\ mSendingMsgList' = mSendingMsgList
    BY <1>6 DEF Transmit
  <2> HIDE DEF w
  <2> QED BY <2>2, <2>3 DEF WriteOwnsBuffers
<1>7. ASSUME NEW i \in DOMAIN writes, WriteEnds(i) PROVE WriteOwnsBuffers'
  <2>1. i = 1 /\ Len(writes) = 1
    BY <1>0 DEF OneHolder
  <2>2. writes' = <<>>
    BY <1>7, <2>1, SubSeqEmpty, ConcatEmptySeq DEF WriteEnds, RemoveAt
  <2> QED BY <1>2, <2>2
<1>8. CASE ReceiveEnds
  BY <1>1, <1>8 DEF ReceiveEnds
<1> QED BY <1>3, <1>4, <1>5, <1>6, <1>7, <1>8 DEF Next, WriteProgress

\* The memory an outstanding async_write reads belongs to messages that
\* mSendingMsgList keeps alive, in the order of the list.
THEOREM BuffersOwned == Spec => []WriteOwnsBuffers
<1>1. Init => WriteOwnsBuffers
  BY DEF Init, WriteOwnsBuffers
<1>2. SendInv /\ WriteOwnsBuffers /\ [Next]_vars => WriteOwnsBuffers'
  BY BufferStep
<1> QED BY <1>1, <1>2, SendSlot, PTL DEF Spec

-----------------------------------------------------------------------------
(* A failed write. *)

\* A step that hands the right to send to nobody, and takes no evidence of a
\* close away, leaves no session stuck.
LEMMA KeepsClosing ==
    ASSUME StuckOnlyWhenClosing, mSending' => mSending,
           NobodyHolds' => NobodyHolds, open' => open,
           \A u \in Threads : pc[u] \in {"isOpen", "close"} => pc'[u] \in {"isOpen", "close"},
           \A i \in DOMAIN queue : queue[i].kind = "written" =>
               i \in DOMAIN queue' /\ queue'[i] = queue[i]
    PROVE  StuckOnlyWhenClosing'
BY DEF StuckOnlyWhenClosing

\* No step leaves mSending to nobody on a session that stays open.
LEMMA ClosingStep == ASSUME SendInv, StuckOnlyWhenClosing, [Next]_vars
                     PROVE  StuckOnlyWhenClosing'
<1> USE DEF SendInv, TypeOK, ListTypes, FlagTypes, sock, send, local
<1>0. /\ pc \in [Threads -> Labels]
      /\ ret \in [Threads -> UserLabels \cup {"idle"}]
      /\ DOMAIN queue = 1..Len(queue) /\ Len(queue) \in Nat
      /\ DOMAIN writes = 1..Len(writes) /\ Len(writes) \in Nat
      /\ ReturnLabels
  BY LenProperties DEF ThreadTypes
<1>a. ASSUME NEW h \in Handlers, Post(h)
      PROVE  /\ \A i \in DOMAIN queue : i \in DOMAIN queue' /\ queue'[i] = queue[i]
             /\ Len(queue) + 1 \in DOMAIN queue' /\ queue'[Len(queue) + 1] = h
  BY <1>0, <1>a, PostAppends, AppendProperties DEF Post
<1>1. CASE UNCHANGED vars
  <2>1. UNCHANGED <<pc, ret, queue, open, writes, mSending>>
    BY <1>1 DEF vars
  <2> QED BY <2>1 DEF StuckOnlyWhenClosing, NobodyHolds, ThreadHolds
<1>2. ASSUME NEW t \in Threads, NEW m \in Msgs, Send(t, m) PROVE StuckOnlyWhenClosing'
  <2>1. \A u \in Threads : ThreadHolds(u) => ThreadHolds(u)'
    BY <1>0, <1>2
       DEF Send, Call, Goto, ThreadHolds, InUserCode, ReturnLabels, UserLabels
  <2>2. \A u \in Threads : pc[u] \in {"isOpen", "close"} => pc'[u] \in {"isOpen", "close"}
    BY <1>0, <1>2 DEF Send, Call, Goto, InUserCode, UserLabels
  <2> QED BY <1>2, <2>1, <2>2, KeepsClosing DEF Send, NobodyHolds
<1>3. ASSUME NEW t \in Threads, NEW kind \in Operations, Operation(t, kind)
      PROVE  StuckOnlyWhenClosing'
  <2> DEFINE h == Handler(kind, "none", 0)
  <2>1. h \in Handlers
    BY HandlerType DEF Kinds, Results, Operations
  <2>2. /\ \A u \in Threads : ThreadHolds(u) => ThreadHolds(u)'
        /\ \A u \in Threads : pc[u] \in {"isOpen", "close"} => pc'[u] \in {"isOpen", "close"}
    <3> HIDE DEF h
    <3> QED BY <1>0, <1>3
            DEF Operation, Dispatch, Call, Goto, ThreadHolds, InUserCode, ReturnLabels,
                UserLabels
  <2>3. UNCHANGED queue \/ Post(h)
    BY <1>3 DEF Operation, Dispatch
  <2> HIDE DEF h
  <2>4. \A i \in DOMAIN queue : i \in DOMAIN queue' /\ queue'[i] = queue[i]
    BY <1>a, <2>1, <2>3
  <2>5. NobodyHolds' => NobodyHolds
    BY <1>3, <2>2, <2>4 DEF Operation, NobodyHolds
  <2> QED BY <1>3, <2>2, <2>4, <2>5, KeepsClosing DEF Operation
<1>4. ASSUME NEW t \in Threads, UserReturn(t) PROVE StuckOnlyWhenClosing'
  <2>1. /\ \A u \in Threads : ThreadHolds(u) => ThreadHolds(u)'
        /\ \A u \in Threads : pc[u] \in {"isOpen", "close"} => pc'[u] \in {"isOpen", "close"}
    BY <1>0, <1>4 DEF UserReturn, Goto, ThreadHolds, ReturnLabels, UserLabels
  <2> QED BY <1>4, <2>1, KeepsClosing DEF UserReturn, NobodyHolds
<1>5. ASSUME NEW t \in Threads, Run(t) PROVE StuckOnlyWhenClosing'
  <2> DEFINE h == Head(queue)
  <2>1. /\ h = queue[1] /\ 1 \in DOMAIN queue
        /\ DOMAIN queue' = 1..(Len(queue) - 1)
        /\ \A i \in DOMAIN queue' : queue'[i] = queue[i + 1]
    BY <1>0, <1>5, HeadTailProperties, LenProperties DEF Run
  <2>2. pc'[t] = Started(h) /\ ~ThreadHolds(t) /\ pc[t] = "idle"
    <3> HIDE DEF h
    <3>1. t \in DOMAIN pc
      BY <1>0
    <3>2. pc[t] = "idle" /\ ret[t] = "idle"
      BY <1>0, <1>5 DEF Run, ReturnLabels
    <3> QED BY <3>1, <3>2, <1>5 DEF Run, Goto, h, ThreadHolds
  <2>3. \A u \in Threads \ {t} : pc'[u] = pc[u] /\ ret'[u] = ret[u]
    BY <1>0, <1>5 DEF Run, Goto
  <2>4. UNCHANGED <<open, writes, mSending>>
    BY <1>5 DEF Run
  <2> HIDE DEF h
  <2>5. h.kind = "written" => pc'[t] \in {"callbacks", "isOpen"}
    BY <2>2 DEF Started, Entry
  <2>6. HandlerHolds(h) => pc'[t] \in {"callbacks", "flush"}
    BY <2>2 DEF Started, Entry, HandlerHolds
  <2> SUFFICES ASSUME mSending', NobodyHolds', open,
                      \A u \in Threads : pc'[u] \notin {"isOpen", "close"}
               PROVE  \E i \in DOMAIN queue' : queue'[i].kind = "written"
    BY <2>4 DEF StuckOnlyWhenClosing
  <2>7. pc'[t] \notin {"callbacks", "flush", "isOpen"}
    BY DEF NobodyHolds, ThreadHolds
  <2>8. \A i \in DOMAIN queue : i # 1 => i - 1 \in DOMAIN queue' /\ queue'[i - 1] = queue[i]
    <3> SUFFICES ASSUME NEW i \in DOMAIN queue, i # 1
                 PROVE  i - 1 \in DOMAIN queue' /\ queue'[i - 1] = queue[i]
      OBVIOUS
    <3>1. i \in Nat /\ i - 1 \in 1..(Len(queue) - 1) /\ (i - 1) + 1 = i
      BY ONLY <1>0, i \in DOMAIN queue, i # 1, SMT
    <3>2. i - 1 \in DOMAIN queue'
      BY ONLY <2>1, <3>1
    <3>3. queue'[i - 1] = queue[(i - 1) + 1]
      BY ONLY <2>1, <3>2
    <3> QED BY ONLY <3>1, <3>2, <3>3
  <2>9. NobodyHolds
    <3>1. \A u \in Threads : ~ThreadHolds(u)
      BY <2>2, <2>3 DEF NobodyHolds, ThreadHolds
    <3>2. \A i \in DOMAIN queue : ~HandlerHolds(queue[i])
      BY <2>1, <2>6, <2>7, <2>8 DEF NobodyHolds
    <3> QED BY <2>4, <3>1, <3>2 DEF NobodyHolds
  <2>10. PICK i \in DOMAIN queue : queue[i].kind = "written"
    BY <2>2, <2>3, <2>4, <2>9 DEF StuckOnlyWhenClosing
  <2>11. i # 1
    BY <2>1, <2>5, <2>7, <2>10
  <2> QED BY ONLY <2>8, <2>10, <2>11
<1>6. ASSUME NEW t \in Threads, Enqueue(t) PROVE StuckOnlyWhenClosing'
  <2>1. /\ \A u \in Threads : ThreadHolds(u) => ThreadHolds(u)'
        /\ \A u \in Threads : pc[u] \in {"isOpen", "close"} => pc'[u] \in {"isOpen", "close"}
    BY <1>0, <1>6 DEF Enqueue, Enqueued, Goto, ThreadHolds
  <2> QED BY <1>6, <2>1, KeepsClosing DEF Enqueue, NobodyHolds
<1>7. ASSUME NEW t \in Threads, TryFlush(t) PROVE StuckOnlyWhenClosing'
  <2>1. CASE CanFlush
    BY <1>0, <1>7, <2>1
       DEF TryFlush, Goto, StuckOnlyWhenClosing, NobodyHolds, ThreadHolds
  <2>2. CASE ~CanFlush
    <3>1. /\ \A u \in Threads : ThreadHolds(u) => ThreadHolds(u)'
          /\ \A u \in Threads : pc[u] \in {"isOpen", "close"} => pc'[u] \in {"isOpen", "close"}
      BY <1>0, <1>7, <2>2 DEF TryFlush, Return, Goto, ThreadHolds
    <3> QED BY <1>7, <2>2, <3>1, KeepsClosing DEF TryFlush, NobodyHolds
  <2> QED BY <2>1, <2>2
<1>8. ASSUME NEW t \in Threads, DispatchFlush(t) PROVE StuckOnlyWhenClosing'
  <2>1. CASE t \in IoThreads
    BY <1>0, <1>8, <2>1
       DEF DispatchFlush, Goto, StuckOnlyWhenClosing, NobodyHolds, ThreadHolds
  <2>2. CASE t \notin IoThreads
    <3> DEFINE h == Handler("flush", "none", 0)
    <3>1. h \in Handlers /\ HandlerHolds(h)
      BY HandlerType DEF Kinds, Results, HandlerHolds, Handler
    <3>2. Post(h)
      BY <1>8, <2>2 DEF DispatchFlush
    <3> HIDE DEF h
    <3> QED BY <1>a, <3>1, <3>2 DEF StuckOnlyWhenClosing, NobodyHolds
  <2> QED BY <2>1, <2>2
<1>9. ASSUME NEW t \in Threads, Flush(t) PROVE StuckOnlyWhenClosing'
  <2> DEFINE w == [done |-> <<>>, todo |-> mSendingMsgList, n |-> 0]
  <2>1. CASE open
    <3>1. w \in WriteOps /\ writes' = Append(writes, w)
      BY <1>9, <2>1, EmptySeq DEF Flush, WriteOps
    <3> HIDE DEF w
    <3>2. Len(writes') = Len(writes) + 1
      BY <3>1, AppendProperties
    <3>3. writes' # <<>>
      BY <1>0, <3>2, EmptySeq
    <3> QED BY <3>3 DEF StuckOnlyWhenClosing, NobodyHolds
  <2>2. CASE ~open
    BY <1>9, <2>2 DEF Flush, StuckOnlyWhenClosing
  <2> QED BY <2>1, <2>2
<1>10. ASSUME NEW t \in Threads, SendCallbacks(t) PROVE StuckOnlyWhenClosing'
  BY <1>0, <1>10
     DEF SendCallbacks, Goto, StuckOnlyWhenClosing, NobodyHolds, ThreadHolds
<1>11. ASSUME NEW t \in Threads, Release(t) PROVE StuckOnlyWhenClosing'
  BY <1>11 DEF Release, StuckOnlyWhenClosing
<1>12. ASSUME NEW t \in Threads, Arm(t) PROVE StuckOnlyWhenClosing'
  <2> DEFINE h == Handler("received", "error", 0)
  <2>1. h \in Handlers
    BY HandlerType DEF Kinds, Results
  <2>2. /\ \A u \in Threads : ThreadHolds(u) => ThreadHolds(u)'
        /\ \A u \in Threads : pc[u] \in {"isOpen", "close"} => pc'[u] \in {"isOpen", "close"}
    BY <1>0, <1>12 DEF Arm, Return, Goto, ThreadHolds
  <2>3. UNCHANGED queue \/ Post(h)
    BY <1>12 DEF Arm
  <2> HIDE DEF h
  <2>4. \A i \in DOMAIN queue : i \in DOMAIN queue' /\ queue'[i] = queue[i]
    BY <1>a, <2>1, <2>3
  <2>5. NobodyHolds' => NobodyHolds
    BY <1>12, <2>2, <2>4 DEF Arm, NobodyHolds
  <2> QED BY <1>12, <2>2, <2>4, <2>5, KeepsClosing DEF Arm
<1>13. ASSUME NEW t \in Threads, OnRecvCompleted(t) \/ ArmCheck(t) \/ Armed(t)
       PROVE  StuckOnlyWhenClosing'
  <2>1. /\ \A u \in Threads : ThreadHolds(u) => ThreadHolds(u)'
        /\ \A u \in Threads : pc[u] \in {"isOpen", "close"} => pc'[u] \in {"isOpen", "close"}
    BY <1>0, <1>13 DEF OnRecvCompleted, ArmCheck, Armed, Return, Goto, ThreadHolds
  <2> QED BY <1>13, <2>1, KeepsClosing DEF OnRecvCompleted, ArmCheck, Armed, NobodyHolds
<1>14. ASSUME NEW t \in Threads, IsOpen(t) PROVE StuckOnlyWhenClosing'
  BY <1>0, <1>14 DEF IsOpen, Return, Goto, StuckOnlyWhenClosing
<1>15. ASSUME NEW t \in Threads, CloseSocket(t) PROVE StuckOnlyWhenClosing'
  BY <1>15 DEF CloseSocket, StuckOnlyWhenClosing
<1>16. ASSUME NEW t \in Threads,
              \/ CallClosedHandler(t) \/ ClearHandlers(t) \/ Shutdown(t) \/ SetHighWater(t)
       PROVE  StuckOnlyWhenClosing'
  <2>1. /\ \A u \in Threads : ThreadHolds(u) => ThreadHolds(u)'
        /\ \A u \in Threads : pc[u] \in {"isOpen", "close"} => pc'[u] \in {"isOpen", "close"}
    BY <1>0, <1>16 DEF CallClosedHandler, Swallow, ClearHandlers, Shutdown, SetHighWater,
                       Return, Goto, ThreadHolds
  <2>2. UNCHANGED <<open, queue, writes, mSending>>
    BY <1>16 DEF CallClosedHandler, Swallow, ClearHandlers, Shutdown, SetHighWater
  <2> QED BY <2>1, <2>2, KeepsClosing DEF NobodyHolds
<1>17. ASSUME NEW i \in DOMAIN writes, Transmit(i) PROVE StuckOnlyWhenClosing'
  <2>1. Len(writes') = Len(writes) /\ Len(writes) # 0
    BY <1>0, <1>17, ExceptSeq DEF Transmit
  <2>2. writes' # <<>>
    BY <1>0, <2>1, EmptySeq
  <2> QED BY <2>2 DEF StuckOnlyWhenClosing, NobodyHolds
<1>18. ASSUME NEW i \in DOMAIN writes, WriteEnds(i) PROVE StuckOnlyWhenClosing'
  <2> DEFINE h == Handler("written", IF writes[i].todo = <<>> THEN "ok" ELSE "error",
                          writes[i].n)
  <2>1. h \in Handlers
    <3>1. writes[i] \in WriteOps
      BY <1>0, ElementOfSeq
    <3> QED BY <3>1, HandlerType DEF Kinds, Results, WriteOps
  <2>2. h.kind = "written" /\ Post(h)
    BY <1>18 DEF WriteEnds, Handler
  <2> HIDE DEF h
  <2> QED BY <1>a, <2>1, <2>2 DEF StuckOnlyWhenClosing
<1>19. CASE ReceiveEnds
  <2>1. PICK res \in {"data", "eof", "error"} : Post(Handler("received", res, 0))
    BY <1>19 DEF ReceiveEnds
  <2>2. Handler("received", res, 0) \in Handlers
    BY HandlerType DEF Kinds, Results
  <2>3. \A i \in DOMAIN queue : i \in DOMAIN queue' /\ queue'[i] = queue[i]
    BY <1>a, <2>1, <2>2
  <2>4. UNCHANGED <<open, writes, pc, ret, mSending>>
    BY <1>19 DEF ReceiveEnds
  <2>5. NobodyHolds' => NobodyHolds
    BY <2>3, <2>4 DEF NobodyHolds, ThreadHolds
  <2> QED BY <2>3, <2>4, <2>5, KeepsClosing
<1>20. ASSUME NEW t \in Threads, PostHighWater(t) PROVE StuckOnlyWhenClosing'
  <2> DEFINE h == Handler("highWater", "none", 0)
  <2>1. h \in Handlers
    BY HandlerType DEF Kinds, Results
  <2>2. /\ \A u \in Threads : ThreadHolds(u) => ThreadHolds(u)'
        /\ \A u \in Threads : pc[u] \in {"isOpen", "close"} => pc'[u] \in {"isOpen", "close"}
    BY <1>0, <1>20 DEF PostHighWater, Enqueued, Goto, ThreadHolds
  <2>3. Post(h)
    BY <1>20 DEF PostHighWater
  <2> HIDE DEF h
  <2>4. \A i \in DOMAIN queue : i \in DOMAIN queue' /\ queue'[i] = queue[i]
    BY <1>a, <2>1, <2>3
  <2>5. NobodyHolds' => NobodyHolds
    BY <1>20, <2>2, <2>4 DEF PostHighWater, NobodyHolds
  <2> QED BY <1>20, <2>2, <2>4, <2>5, KeepsClosing DEF PostHighWater
<1> QED BY <1>1, <1>2, <1>3, <1>4, <1>5, <1>6, <1>7, <1>8, <1>9, <1>10, <1>11, <1>12,
           <1>13, <1>14, <1>15, <1>16, <1>17, <1>18, <1>19, <1>20
        DEF Next, UserCall, Step, WriteProgress

\* mSending is left set for good only by a failed write, and then the session
\* is closed or is being closed: no live connection stops sending.
THEOREM StuckOnlyByClose == Spec => []StuckOnlyWhenClosing
<1>1. Init => StuckOnlyWhenClosing
  BY DEF Init, StuckOnlyWhenClosing
<1>2. SendInv /\ StuckOnlyWhenClosing /\ [Next]_vars => StuckOnlyWhenClosing'
  BY ClosingStep
<1> QED BY <1>1, <1>2, SendSlot, PTL DEF Spec

-----------------------------------------------------------------------------
(* The high-water mark. *)

\* Whoever is above the mark was told or will be, and a call that is queued, or
\* is about to be, without a callback to call was on its way before that was
\* withdrawn.
MarkInv ==
    /\ AlertedAboveMark
    /\ ThrowsOnlyIfWithdrawn
    /\ (HighWaterQueued \/ HighWaterComing) /\ ~mHighWaterCallback => stale

\* A step that changes neither the mark nor what is queued for it.
LEMMA KeepsMark ==
    ASSUME MarkInv, Alive', HighWaterQueued' <=> HighWaterQueued,
           HighWaterComing' <=> HighWaterComing, UNCHANGED <<mark, mSendingSize>>
    PROVE  MarkInv'
BY DEF MarkInv, AlertedAboveMark, ThrowsOnlyIfWithdrawn, mark

\* A posted handler is a call of the high-water callback, or none.
LEMMA PostedMark ==
    ASSUME queue \in Seq(Handlers), NEW h \in Handlers, Post(h)
    PROVE  HighWaterQueued' <=> HighWaterQueued \/ h.kind = "highWater"
<1>1. /\ Len(queue) \in Nat /\ DOMAIN queue = 1..Len(queue)
      /\ DOMAIN queue' = 1..Len(queue) + 1 /\ queue'[Len(queue) + 1] = h
      /\ \A i \in 1..Len(queue) : queue'[i] = queue[i]
  BY DEF Post
<1> QED BY <1>1, SMT DEF HighWaterQueued

\* Only the handler that is taken leaves the queue.
LEMMA TakenMark ==
    ASSUME queue \in Seq(Handlers), queue # <<>>, queue' = Tail(queue)
    PROVE  /\ HighWaterQueued' => HighWaterQueued
           /\ Head(queue).kind = "highWater" => HighWaterQueued
           /\ Head(queue).kind # "highWater" => (HighWaterQueued' <=> HighWaterQueued)
<1>1. /\ Len(queue) \in Nat /\ Len(queue) > 0 /\ DOMAIN queue = 1..Len(queue)
      /\ DOMAIN queue' = 1..(Len(queue) - 1) /\ Head(queue) = queue[1]
      /\ \A i \in 1..(Len(queue) - 1) : queue'[i] = queue[i + 1]
  OBVIOUS
<1>2. ASSUME NEW i \in DOMAIN queue', queue'[i].kind = "highWater"
      PROVE  \E j \in DOMAIN queue : queue[j].kind = "highWater"
  <2>1. i + 1 \in DOMAIN queue /\ queue'[i] = queue[i + 1]
    BY <1>1, SMT
  <2> QED BY <1>2, <2>1
<1>3. ASSUME Head(queue).kind # "highWater", NEW i \in DOMAIN queue,
             queue[i].kind = "highWater"
      PROVE  \E j \in DOMAIN queue' : queue'[j].kind = "highWater"
  <2>1. i - 1 \in DOMAIN queue' /\ queue'[i - 1] = queue[i]
    BY <1>1, <1>3, SMT
  <2> QED BY <1>3, <2>1
<1>4. 1 \in DOMAIN queue /\ Head(queue) = queue[1]
  BY <1>1, SMT
<1> QED BY <1>2, <1>3, <1>4 DEF HighWaterQueued

\* A close queues no call of the high-water callback.
LEMMA ClosedMark ==
    ASSUME TypeOK, queue' = queue \o Aborted
    PROVE  HighWaterQueued' <=> HighWaterQueued
<1> DEFINE w == [i \in 1..Len(writes) |-> Handler("written", "error", writes[i].n)]
           r == [i \in 1..receives |-> Handler("received", "error", 0)]
<1>1. /\ \A i \in DOMAIN w : w[i].kind # "highWater"
      /\ \A i \in DOMAIN r : r[i].kind # "highWater"
  BY DEF Handler
<1>2. w \in Seq(Handlers) /\ r \in Seq(Handlers)
  BY AbortedTypes
<1>3. Aborted = w \o r
  BY DEF Aborted
<1> HIDE DEF w, r
<1>4. \A i \in DOMAIN Aborted : Aborted[i].kind # "highWater"
  BY ONLY <1>1, <1>2, <1>3, ConcatProperties, LenProperties
<1>5. queue \in Seq(Handlers) /\ Aborted \in Seq(Handlers)
  BY AbortedType DEF TypeOK, ListTypes
<1>6. /\ Len(queue) \in Nat /\ DOMAIN queue = 1..Len(queue)
      /\ DOMAIN Aborted = 1..Len(Aborted) /\ Len(Aborted) \in Nat
      /\ DOMAIN queue' = 1..(Len(queue) + Len(Aborted))
      /\ \A i \in 1..Len(queue) : queue'[i] = queue[i]
      /\ \A i \in 1..Len(Aborted) : queue'[Len(queue) + i] = Aborted[i]
  BY ONLY <1>5, queue' = queue \o Aborted, ConcatProperties, LenProperties, SMT
<1>7. ASSUME NEW i \in DOMAIN queue', queue'[i].kind = "highWater"
      PROVE  i \in DOMAIN queue /\ queue[i] = queue'[i]
  <2>1. CASE i > Len(queue)
    <3>1. i - Len(queue) \in 1..Len(Aborted) /\ Len(queue) + (i - Len(queue)) = i
      BY <1>6, <2>1, SMT
    <3>2. queue'[i] = Aborted[i - Len(queue)]
      BY <1>6, <3>1
    <3> QED BY <1>4, <1>6, <1>7, <3>1, <3>2
  <2>2. CASE ~(i > Len(queue))
    BY <1>6, <2>2, SMT
  <2> QED BY <2>1, <2>2
<1>8. ASSUME NEW i \in DOMAIN queue PROVE i \in DOMAIN queue' /\ queue'[i] = queue[i]
  BY <1>6, SMT
<1> QED BY <1>7, <1>8 DEF HighWaterQueued

\* Only a queued call of the high-water callback can throw.
LEMMA EntryCatches == ASSUME NEW h \in Handlers PROVE Entry(h) # "thrown"
BY DEF Handlers, Entry, Kinds, Operations

\* No other step than the start of a handler throws.
LEMMA AliveStep ==
    ASSUME TypeOK, ReturnLabels, [Next]_vars, Alive, \A t \in Threads : ~Run(t)
    PROVE  Alive'
<1> USE DEF TypeOK, ThreadTypes, ReturnLabels, UserLabels, Alive, Goto
<1>1. CASE UNCHANGED vars
  BY <1>1 DEF vars, local
<1>2. ASSUME NEW t \in Threads, UserCall(t) PROVE Alive'
  <2>1. ASSUME NEW m \in Msgs, Send(t, m) PROVE Alive'
    BY <2>1 DEF Send, Call
  <2>2. ASSUME NEW kind \in Operations, Operation(t, kind) PROVE Alive'
    <3>1. Entry(Handler(kind, "none", 0)) # "thrown"
      BY HandlerType, EntryCatches DEF Kinds, Results
    <3> QED BY <2>2, <3>1 DEF Operation, Dispatch, Call
  <2> QED BY <1>2, <2>1, <2>2 DEF UserCall
<1>3. ASSUME NEW t \in Threads, Step(t) PROVE Alive'
  <2>1. CASE \/ Enqueue(t) \/ PostHighWater(t) \/ TryFlush(t) \/ DispatchFlush(t)
             \/ Flush(t)
    BY <2>1 DEF Enqueue, Enqueued, PostHighWater, TryFlush, DispatchFlush, Flush, Return
  <2>2. CASE SendCallbacks(t) \/ Release(t)
    BY <2>2 DEF SendCallbacks, Release
  <2>3. CASE OnRecvCompleted(t) \/ ArmCheck(t) \/ Arm(t) \/ Armed(t)
    BY <2>3 DEF OnRecvCompleted, ArmCheck, Arm, Armed, Return
  <2>4. CASE IsOpen(t) \/ CloseSocket(t) \/ CallClosedHandler(t) \/ ClearHandlers(t)
    BY <2>4 DEF IsOpen, CloseSocket, CallClosedHandler, Swallow, ClearHandlers, Return
  <2>5. CASE Shutdown(t) \/ SetHighWater(t)
    BY <2>5 DEF Shutdown, SetHighWater, Return
  <2> QED BY <1>3, <2>1, <2>2, <2>3, <2>4, <2>5 DEF Step
<1>4. ASSUME NEW t \in Threads, UserReturn(t) PROVE Alive'
  BY <1>4 DEF UserReturn
<1>5. CASE WriteProgress \/ ReceiveEnds
  BY <1>5 DEF WriteProgress, Transmit, WriteEnds, ReceiveEnds, local
<1> QED BY <1>1, <1>2, <1>3, <1>4, <1>5 DEF Next

\* Only send comes between the test of the callback and the post, or leaves there.
LEMMA ComingStep ==
    ASSUME TypeOK, [Next]_vars, \A t \in Threads : ~Enqueue(t) /\ ~PostHighWater(t)
    PROVE  HighWaterComing' <=> HighWaterComing
<1> USE DEF TypeOK, ThreadTypes, UserLabels, Goto
<1>1. ASSUME UNCHANGED pc PROVE HighWaterComing' <=> HighWaterComing
  BY <1>1 DEF HighWaterComing
<1>2. ASSUME NEW t \in Threads, pc[t] # "postHighWater",
             NEW label, label # "postHighWater", pc' = [pc EXCEPT ![t] = label]
      PROVE  HighWaterComing' <=> HighWaterComing
  BY <1>2 DEF HighWaterComing
<1>3. ASSUME NEW t \in Threads, UserCall(t) PROVE HighWaterComing' <=> HighWaterComing
  <2>0. pc[t] # "postHighWater"
    BY <1>3 DEF UserCall, Send, Operation, InUserCode
  <2>1. ASSUME NEW m \in Msgs, Send(t, m) PROVE HighWaterComing' <=> HighWaterComing
    BY <1>2, <2>0, <2>1 DEF Send, Call
  <2>2. ASSUME NEW kind \in Operations, Operation(t, kind)
        PROVE  HighWaterComing' <=> HighWaterComing
    <3> DEFINE label == Entry(Handler(kind, "none", 0))
    <3>1. label # "postHighWater"
      BY DEF Handler, Entry, Operations
    <3>2. UNCHANGED pc \/ pc' = [pc EXCEPT ![t] = label]
      BY <2>2 DEF Operation, Dispatch, Call
    <3> HIDE DEF label
    <3> QED BY <1>1, <1>2, <2>0, <3>1, <3>2
  <2> QED BY <1>3, <2>1, <2>2 DEF UserCall
<1>4. ASSUME NEW t \in Threads, Step(t) PROVE HighWaterComing' <=> HighWaterComing
  <2> SUFFICES /\ pc[t] # "postHighWater"
               /\ \E label : label # "postHighWater" /\ pc' = [pc EXCEPT ![t] = label]
    BY <1>2
  <2>1. CASE TryFlush(t) \/ DispatchFlush(t) \/ Flush(t)
    BY <2>1 DEF TryFlush, DispatchFlush, Flush, Return
  <2>2. CASE SendCallbacks(t) \/ Release(t)
    BY <2>2 DEF SendCallbacks, Release
  <2>3. CASE OnRecvCompleted(t) \/ ArmCheck(t) \/ Arm(t) \/ Armed(t)
    BY <2>3 DEF OnRecvCompleted, ArmCheck, Arm, Armed, Return
  <2>4. CASE IsOpen(t) \/ CloseSocket(t) \/ CallClosedHandler(t) \/ ClearHandlers(t)
    BY <2>4 DEF IsOpen, CloseSocket, CallClosedHandler, Swallow, ClearHandlers, Return
  <2>5. CASE Shutdown(t) \/ SetHighWater(t)
    BY <2>5 DEF Shutdown, SetHighWater, Return
  <2> QED BY <1>4, <2>1, <2>2, <2>3, <2>4, <2>5 DEF Step
<1>5. ASSUME NEW t \in Threads, UserReturn(t) PROVE HighWaterComing' <=> HighWaterComing
  BY <1>2, <1>5 DEF UserReturn
<1>6. ASSUME NEW t \in Threads, Run(t) PROVE HighWaterComing' <=> HighWaterComing
  <2> DEFINE label == Started(Head(queue))
  <2>1. Head(queue) \in Handlers
    BY <1>6 DEF Run, ListTypes
  <2>2. label # "postHighWater"
    BY <2>1 DEF Started, Entry, Handlers, Kinds, Operations
  <2>3. pc[t] # "postHighWater" /\ pc' = [pc EXCEPT ![t] = label]
    BY <1>6 DEF Run
  <2> HIDE DEF label
  <2> QED BY <1>2, <2>2, <2>3
<1>7. CASE WriteProgress \/ ReceiveEnds \/ UNCHANGED vars
  BY <1>1, <1>7 DEF WriteProgress, Transmit, WriteEnds, ReceiveEnds, vars
<1> QED BY <1>3, <1>4, <1>5, <1>6, <1>7 DEF Next

\* No step passes the mark unnoticed, nor calls what nobody withdrew.
LEMMA MarkStep ==
    ASSUME SendInv, MarkInv, [Next]_vars
    PROVE  MarkInv'
<1> USE DEF SendInv, TypeOK, CounterTypes, ListTypes, sock, send
<1>0. /\ queue \in Seq(Handlers) /\ mSendingSize \in Int /\ HighWater \in Nat
      /\ job \in [Threads -> Handlers] /\ msg \in [Threads -> Msgs \cup {NoMsg}]
      /\ ReturnLabels
  BY NatAssumption DEF ThreadTypes
<1>1. CASE UNCHANGED vars
  <2>1. UNCHANGED <<queue, pc, mark, mSendingSize>>
    BY <1>1 DEF vars, local
  <2> QED BY <2>1 DEF MarkInv, AlertedAboveMark, ThrowsOnlyIfWithdrawn, HighWaterQueued,
                      HighWaterComing, Alive, mark
<1> SUFFICES ASSUME Next PROVE MarkInv'
  BY <1>1
<1>a. Alive
  BY DEF Next
<1>b. ASSUME \A t \in Threads : ~Run(t) PROVE Alive'
  BY <1>0, <1>a, <1>b, AliveStep
<1>7. ASSUME NEW t \in Threads, Enqueue(t) PROVE MarkInv'
  <2>1. Alive'
    <3>1. ~Run(t)
      BY <1>7 DEF Enqueue, Run
    <3> QED BY <1>0, <1>a, <1>7
            DEF Enqueue, Enqueued, Goto, Alive, ThreadTypes, UserLabels
  <2>2. UNCHANGED <<queue, mark>> /\ ~HighWaterComing
    BY <1>7 DEF Enqueue
  <2>3. CASE AboveMark(mSendingSize')
    <3>1. HighWaterComing' /\ mHighWaterCallback
      BY <1>7, <2>3 DEF Enqueue, AboveMark, HighWaterComing, Goto, ThreadTypes
    <3> QED BY <2>1, <2>2, <3>1
            DEF MarkInv, AlertedAboveMark, ThrowsOnlyIfWithdrawn, mark
  <2>4. CASE ~AboveMark(mSendingSize')
    <3>1. ~HighWaterComing' /\ ~(mHighWaterCallback /\ mSendingSize' > HighWater)
      BY <1>7, <2>2, <2>4
         DEF Enqueue, Enqueued, AboveMark, HighWaterComing, Goto, ThreadTypes, UserLabels
    <3> QED BY <2>1, <2>2, <3>1
            DEF MarkInv, AlertedAboveMark, ThrowsOnlyIfWithdrawn, HighWaterQueued, mark
  <2> QED BY <2>3, <2>4
<1>19. ASSUME NEW t \in Threads, PostHighWater(t) PROVE MarkInv'
  <2> DEFINE h == Handler("highWater", "none", 0)
  <2>1. h \in Handlers /\ h.kind = "highWater"
    BY HandlerType DEF Kinds, Results, Handler
  <2>2. Alive'
    BY <1>0, <1>a, <1>19 DEF PostHighWater, Enqueued, Goto, Alive, ThreadTypes, UserLabels
  <2>3. Post(h) /\ UNCHANGED <<mark, mSendingSize>> /\ HighWaterComing
    BY <1>19 DEF PostHighWater, HighWaterComing
  <2> HIDE DEF h
  <2>4. HighWaterQueued'
    BY <1>0, <2>1, <2>3, PostedMark
  <2> QED BY <2>2, <2>3, <2>4 DEF MarkInv, AlertedAboveMark, ThrowsOnlyIfWithdrawn, mark
<1> SUFFICES ASSUME \A t \in Threads : ~Enqueue(t) /\ ~PostHighWater(t) PROVE MarkInv'
  BY <1>7, <1>19
<1>c. HighWaterComing' <=> HighWaterComing
  BY ComingStep
<1>2. ASSUME NEW t \in Threads, Run(t) PROVE MarkInv'
  <2> DEFINE h == Head(queue)
  <2>1. queue # <<>> /\ queue' = Tail(queue) /\ UNCHANGED <<mHighWaterCallback, stale, mSendingSize>>
    BY <1>2 DEF Run
  <2>2. alerted' = (alerted \/ h.kind = "highWater")
    BY <1>2 DEF Run
  <2>3. h \in Handlers
    BY <1>0, <2>1, HeadTailProperties
  <2>4. pc' = [pc EXCEPT ![t] = Started(h)]
    BY <1>2 DEF Run, Goto
  <2>5. /\ HighWaterQueued' => HighWaterQueued
        /\ h.kind = "highWater" => HighWaterQueued
        /\ h.kind # "highWater" => (HighWaterQueued' <=> HighWaterQueued)
    BY <1>0, <2>1, TakenMark
  <2>6. ~Alive' => h.kind = "highWater" /\ ~mHighWaterCallback
    <3>1. ~Alive' => Started(h) = "thrown"
      BY <1>a, <2>4 DEF Alive, ThreadTypes
    <3> QED BY <2>3, <3>1, EntryCatches DEF Started
  <2> HIDE DEF h
  <2> QED BY <1>c, <2>1, <2>2, <2>5, <2>6
          DEF MarkInv, AlertedAboveMark, ThrowsOnlyIfWithdrawn
<1> SUFFICES ASSUME \A t \in Threads : ~Run(t) PROVE MarkInv'
  BY <1>2
<1>3. Alive'
  BY <1>b
<1>4. ASSUME UNCHANGED <<queue, mark, mSendingSize>> PROVE MarkInv'
  BY <1>3, <1>4, <1>c, KeepsMark DEF HighWaterQueued
<1>5. ASSUME NEW h \in Handlers, h.kind # "highWater", Post(h),
             UNCHANGED <<mark, mSendingSize>>
      PROVE  MarkInv'
  BY <1>0, <1>3, <1>5, <1>c, PostedMark, KeepsMark
<1>6. ASSUME NEW t \in Threads, UserCall(t) PROVE MarkInv'
  <2>1. ASSUME NEW m \in Msgs, Send(t, m) PROVE MarkInv'
    BY <1>4, <2>1 DEF Send
  <2>2. ASSUME NEW kind \in Operations, Operation(t, kind) PROVE MarkInv'
    <3> DEFINE h == Handler(kind, "none", 0)
    <3>1. h \in Handlers /\ h.kind # "highWater"
      BY HandlerType DEF Kinds, Results, Operations, Handler
    <3>2. UNCHANGED queue \/ Post(h)
      BY <2>2 DEF Operation, Dispatch
    <3>3. UNCHANGED <<mark, mSendingSize>>
      BY <2>2 DEF Operation
    <3> HIDE DEF h
    <3> QED BY <1>4, <1>5, <3>1, <3>2, <3>3
  <2> QED BY <1>6, <2>1, <2>2 DEF UserCall
<1>8. ASSUME NEW t \in Threads, TryFlush(t) \/ SendCallbacks(t) PROVE MarkInv'
  BY <1>4, <1>8 DEF TryFlush, SendCallbacks
<1>9. ASSUME NEW t \in Threads, DispatchFlush(t) PROVE MarkInv'
  <2> DEFINE h == Handler("flush", "none", 0)
  <2>1. h \in Handlers /\ h.kind # "highWater"
    BY HandlerType DEF Kinds, Results, Handler
  <2>2. UNCHANGED <<mark, mSendingSize>> /\ (UNCHANGED queue \/ Post(h))
    BY <1>9 DEF DispatchFlush
  <2> HIDE DEF h
  <2> QED BY <1>4, <1>5, <2>1, <2>2
<1>10. ASSUME NEW t \in Threads, Flush(t) PROVE MarkInv'
  <2> DEFINE h == Handler("written", "error", 0)
  <2>1. h \in Handlers /\ h.kind # "highWater"
    BY HandlerType DEF Kinds, Results, Handler
  <2>2. UNCHANGED <<mark, mSendingSize>> /\ (UNCHANGED queue \/ Post(h))
    BY <1>10 DEF Flush
  <2> HIDE DEF h
  <2> QED BY <1>4, <1>5, <2>1, <2>2
<1>11. ASSUME NEW t \in Threads, Release(t) PROVE MarkInv'
  <2>1. /\ mSendingSize' = mSendingSize - job[t].n
        /\ alerted' = (alerted /\ mSendingSize' > HighWater)
        /\ UNCHANGED <<queue, mHighWaterCallback, stale>>
    BY <1>11 DEF Release
  <2>2. job[t].n \in Nat
    BY <1>0 DEF Handlers
  <2>3. mSendingSize' > HighWater => mSendingSize > HighWater
    BY <1>0, <2>1, <2>2, SMT
  <2> QED BY <1>3, <1>c, <2>1, <2>3
          DEF MarkInv, AlertedAboveMark, ThrowsOnlyIfWithdrawn, HighWaterQueued
<1>12. ASSUME NEW t \in Threads, Arm(t) PROVE MarkInv'
  <2> DEFINE h == Handler("received", "error", 0)
  <2>1. h \in Handlers /\ h.kind # "highWater"
    BY HandlerType DEF Kinds, Results, Handler
  <2>2. UNCHANGED <<mark, mSendingSize>> /\ (UNCHANGED queue \/ Post(h))
    BY <1>12 DEF Arm
  <2> HIDE DEF h
  <2> QED BY <1>4, <1>5, <2>1, <2>2
<1>13. ASSUME NEW t \in Threads,
              \/ OnRecvCompleted(t) \/ ArmCheck(t) \/ Armed(t) \/ IsOpen(t)
              \/ CallClosedHandler(t) \/ ClearHandlers(t) \/ Shutdown(t) \/ UserReturn(t)
       PROVE  MarkInv'
  BY <1>4, <1>13 DEF OnRecvCompleted, ArmCheck, Armed, IsOpen, CallClosedHandler, Swallow,
                     ClearHandlers, Shutdown, UserReturn
<1>14. ASSUME NEW t \in Threads, CloseSocket(t) PROVE MarkInv'
  <2>1. queue' = queue \o Aborted /\ UNCHANGED <<mark, mSendingSize>>
    BY <1>14 DEF CloseSocket
  <2>2. HighWaterQueued' <=> HighWaterQueued
    BY <2>1, ClosedMark
  <2> QED BY <1>3, <1>c, <2>1, <2>2, KeepsMark
<1>15. ASSUME NEW t \in Threads, SetHighWater(t) PROVE MarkInv'
  <2>1. /\ mHighWaterCallback' = (pc[t] = "setHighWater")
        /\ alerted' = (mSendingSize > HighWater)
        /\ stale' = (pc[t] = "withdraw" /\ (stale \/ HighWaterQueued \/ HighWaterComing))
        /\ pc[t] \in {"setHighWater", "withdraw"}
        /\ UNCHANGED <<queue, mSendingSize>>
    BY <1>15 DEF SetHighWater
  <2> QED BY <1>3, <1>c, <2>1
          DEF MarkInv, AlertedAboveMark, ThrowsOnlyIfWithdrawn, HighWaterQueued
<1>16. ASSUME NEW i \in DOMAIN writes, Transmit(i) PROVE MarkInv'
  BY <1>4, <1>16 DEF Transmit
<1>17. ASSUME NEW i \in DOMAIN writes, WriteEnds(i) PROVE MarkInv'
  <2> DEFINE h == Handler("written", IF writes[i].todo = <<>> THEN "ok" ELSE "error",
                          writes[i].n)
  <2>1. h \in Handlers
    <3>1. writes[i] \in WriteOps
      BY ElementOfSeq
    <3> QED BY <3>1, HandlerType DEF Kinds, Results, WriteOps
  <2>2. h.kind # "highWater"
    BY DEF Handler
  <2>3. Post(h) /\ UNCHANGED <<mark, mSendingSize>>
    BY <1>17 DEF WriteEnds
  <2> HIDE DEF h
  <2> QED BY <1>5, <2>1, <2>2, <2>3
<1>18. CASE ReceiveEnds
  <2>1. PICK res \in {"data", "eof", "error"} : Post(Handler("received", res, 0))
    BY <1>18 DEF ReceiveEnds
  <2> DEFINE h == Handler("received", res, 0)
  <2>2. h \in Handlers /\ h.kind # "highWater"
    BY HandlerType DEF Kinds, Results, Handler
  <2>3. UNCHANGED <<mark, mSendingSize>>
    BY <1>18 DEF ReceiveEnds
  <2> HIDE DEF h
  <2> QED BY <1>5, <2>1, <2>2, <2>3 DEF h
<1> QED BY <1>6, <1>8, <1>9, <1>10, <1>11, <1>12, <1>13, <1>14, <1>15, <1>16, <1>17, <1>18
        DEF Next, Step, WriteProgress

\* For any number of threads: the invariant of the high-water mark.
THEOREM MarkInvariance == Spec => []MarkInv
<1>1. Init => MarkInv
  <2> SUFFICES ASSUME Init PROVE MarkInv
    OBVIOUS
  <2>1. ~mHighWaterCallback /\ Alive /\ queue = <<>>
    BY DEF Init, Alive
  <2>2. ~HighWaterQueued /\ ~HighWaterComing
    BY <2>1, EmptySeq DEF Init, HighWaterQueued, HighWaterComing
  <2> QED BY <2>1, <2>2 DEF MarkInv, AlertedAboveMark, ThrowsOnlyIfWithdrawn
<1>2. SendInv /\ MarkInv /\ [Next]_vars => MarkInv'
  BY MarkStep
<1> QED BY <1>1, <1>2, SendSlot, PTL DEF Spec

\* A sender above the mark was told so, or will be.
THEOREM AlertedAlways == Spec => []AlertedAboveMark
BY MarkInvariance, PTL DEF MarkInv

\* Only the user's withdrawal of the callback, while a call of it is queued or
\* a sender is about to queue one, can end the process.
THEOREM ThrowsOnlyIfWithdrawnAlways == Spec => []ThrowsOnlyIfWithdrawn
BY MarkInvariance, PTL DEF MarkInv

-----------------------------------------------------------------------------
(***************************************************************************)
(* TcpSession implements SendStream, for any number of threads and of      *)
(* messages: what is written and what is confirmed is what was queued, in  *)
(* that order, each message once.                                          *)
(***************************************************************************)

(* The inductive invariant. *)

\* How many messages were taken over from the lists and dealt with.
Base == Len(accepted) - Len(mPendingSendMsgList) - Len(mSendingMsgList)

\* What was queued ends with the messages of both lists, in their order.
Queued ==
    /\ Base \in Nat
    /\ \A k \in 1..Len(mSendingMsgList) : accepted[Base + k] = mSendingMsgList[k]
    /\ \A k \in 1..Len(mPendingSendMsgList) :
          accepted[Base + Len(mSendingMsgList) + k] = mPendingSendMsgList[k]

\* What was written is the beginning of what was queued, and what was
\* confirmed the beginning of that.
InOrder ==
    /\ Len(wire) <= Len(accepted) /\ \A k \in 1..Len(wire) : wire[k] = accepted[k]
    /\ Len(completed) <= Len(wire) /\ \A k \in 1..Len(completed) : completed[k] = wire[k]

\* So many messages of mSendingMsgList are written, and so many confirmed.
Reached(w, c) == Len(wire) = Base + w /\ Len(completed) = Base + c

\* A thread is in the loop over the callbacks of onSendCompleted, or in a
\* call that one of them made.
InCallbacks(t) == pc[t] \in {"callbacks", "inCallback"} \/ ret[t] = "inCallback"

\* What the one who holds the right to send has reached: a thread, a queued
\* handler, or a write.
AtThread(t) ==
    /\ pc[t] \in {"dispatchFlush", "flush"} => Reached(0, 0)
    /\ pc[t] = "release" => mSendingMsgList = <<>> /\ Reached(0, 0)
    /\ InCallbacks(t) => Reached(Len(mSendingMsgList), cb[t])
    /\ ~InCallbacks(t) => cb[t] = 0
AtHandler(h) ==
    /\ h.kind = "flush" => Reached(0, 0)
    /\ h.kind = "written" /\ h.res = "ok" => Reached(Len(mSendingMsgList), 0)
Progress ==
    /\ ~mSending => mSendingMsgList = <<>> /\ Reached(0, 0)
    /\ \A t \in Threads : AtThread(t)
    /\ \A i \in DOMAIN queue : AtHandler(queue[i])
    /\ \A i \in DOMAIN writes : open /\ Reached(Len(writes[i].done), 0)

StreamInv == Queued /\ InOrder /\ Progress

\* At the start nothing was queued, written or confirmed.
LEMMA StreamInvInit == Init => StreamInv
<1> SUFFICES ASSUME Init PROVE StreamInv
  OBVIOUS
<1>0. Len(<<>>) = 0
  BY EmptySeq
<1>1. Base = 0
  <2>1. accepted = <<>> /\ mPendingSendMsgList = <<>> /\ mSendingMsgList = <<>>
    BY DEF Init
  <2>2. Base = (0 - 0) - 0
    BY <1>0, <2>1, Zenon DEF Base
  <2> QED BY <2>2, SMT
<1>2. Queued /\ InOrder
  BY <1>0, <1>1 DEF Init, Queued, InOrder
<1>3. Reached(0, 0)
  BY <1>0, <1>1 DEF Init, Reached
<1>4. Progress
  BY <1>3 DEF Init, Progress, AtThread, InCallbacks
<1> QED BY <1>2, <1>4 DEF StreamInv

-----------------------------------------------------------------------------
(* The two ends of the stream. *)

\* The next message of a write is the next one that was queued.
LEMMA NextOfWrite ==
    ASSUME TypeOK, WriteOwnsBuffers, StreamInv, NEW i \in DOMAIN writes,
           writes[i].todo # <<>>
    PROVE  /\ open
           /\ Len(wire) < Len(accepted)
           /\ Head(writes[i].todo) \in Msgs
           /\ Head(writes[i].todo) = accepted[Len(wire) + 1]
<1> DEFINE done == writes[i].done
           todo == writes[i].todo
<1>1. writes[i] \in WriteOps
  BY ElementOfSeq DEF TypeOK, ListTypes
<1>2. /\ done \in Seq(Msgs) /\ Len(done) \in Nat
      /\ todo \in Seq(Msgs) /\ Len(todo) \in Nat \ {0}
  BY <1>1, EmptySeq, LenProperties DEF WriteOps
<1>3. /\ Len(mSendingMsgList) = Len(done) + Len(todo)
      /\ mSendingMsgList[Len(done) + 1] = todo[1]
  <2>1. mSendingMsgList = done \o todo
    BY DEF WriteOwnsBuffers
  <2> HIDE DEF done, todo
  <2>2. /\ Len(done \o todo) = Len(done) + Len(todo)
        /\ \A k \in 1..Len(done) + Len(todo) :
              (done \o todo)[k] = IF k <= Len(done) THEN done[k] ELSE todo[k - Len(done)]
    BY <1>2, ConcatProperties
  <2>3. (done \o todo)[Len(done) + 1] = todo[1]
    BY <1>2, <2>2
  <2> QED BY <2>1, <2>2, <2>3
<1>4. open /\ Len(wire) = Base + Len(done)
  BY DEF StreamInv, Progress, Reached
<1>5. Head(todo) = todo[1] /\ Head(todo) \in Msgs
  BY <1>2, HeadTailProperties
<1> HIDE DEF done, todo
<1>6. accepted[Base + (Len(done) + 1)] = todo[1]
  BY <1>2, <1>3 DEF StreamInv, Queued
<1>7. /\ Len(accepted) \in Nat /\ Len(mPendingSendMsgList) \in Nat
      /\ Len(mSendingMsgList) \in Nat /\ Base \in Nat
      /\ Len(accepted) = Base + Len(mPendingSendMsgList) + Len(mSendingMsgList)
  BY LenProperties DEF TypeOK, ListTypes, StreamInv, Queued, Base
<1>8. Len(wire) < Len(accepted) /\ Len(wire) + 1 = Base + (Len(done) + 1)
  BY <1>2, <1>3, <1>4, <1>7
<1> QED BY <1>4, <1>5, <1>6, <1>8 DEF todo

\* The next callback is that of the next message that was written.
LEMMA NextCallback ==
    ASSUME TypeOK, StreamInv, NEW t \in Threads, pc[t] = "callbacks",
           cb[t] < Len(mSendingMsgList)
    PROVE  /\ Len(completed) < Len(wire)
           /\ mSendingMsgList[cb[t] + 1] \in Msgs
           /\ mSendingMsgList[cb[t] + 1] = wire[Len(completed) + 1]
<1>1. /\ cb[t] \in Nat /\ Len(mSendingMsgList) \in Nat /\ Base \in Nat
      /\ Len(wire) \in Nat
  BY LenProperties DEF TypeOK, ListTypes, ThreadTypes, StreamInv, Queued
<1>2. Len(wire) = Base + Len(mSendingMsgList) /\ Len(completed) = Base + cb[t]
  BY DEF StreamInv, Progress, AtThread, InCallbacks, Reached
<1>3. cb[t] + 1 \in 1..Len(mSendingMsgList)
  BY <1>1
<1>4. accepted[Base + (cb[t] + 1)] = mSendingMsgList[cb[t] + 1]
  BY <1>3 DEF StreamInv, Queued
<1>5. Base + (cb[t] + 1) = Len(completed) + 1 /\ Len(completed) + 1 \in 1..Len(wire)
  BY <1>1, <1>2
<1>6. wire[Len(completed) + 1] = accepted[Len(completed) + 1]
  BY <1>5 DEF StreamInv, InOrder
<1>7. mSendingMsgList[cb[t] + 1] \in Msgs
  BY <1>3, ElementOfSeq DEF TypeOK, ListTypes
<1> QED BY <1>1, <1>2, <1>4, <1>5, <1>6, <1>7

-----------------------------------------------------------------------------
(* What was queued, written and confirmed stays in order. *)

\* No step disturbs the order of what is queued, written or confirmed.
LEMMA OrderStep ==
    ASSUME SendInv, WriteOwnsBuffers, StreamInv, [Next]_vars
    PROVE  (Queued /\ InOrder)'
<1> USE DEF SendInv, send, local
<1>0. /\ accepted \in Seq(Msgs) /\ wire \in Seq(Msgs) /\ completed \in Seq(Msgs)
      /\ mPendingSendMsgList \in Seq(Msgs) /\ mSendingMsgList \in Seq(Msgs)
      /\ Len(accepted) \in Nat /\ Len(wire) \in Nat /\ Len(completed) \in Nat
      /\ Len(mPendingSendMsgList) \in Nat /\ Len(mSendingMsgList) \in Nat
  BY LenProperties DEF TypeOK, ListTypes
<1>a. Queued /\ InOrder /\ Progress
  BY DEF StreamInv
<1>1. ASSUME UNCHANGED <<accepted, wire, completed, mPendingSendMsgList, mSendingMsgList>>
      PROVE  (Queued /\ InOrder)'
  BY <1>1, <1>a DEF Queued, InOrder, Base
<1>2. CASE UNCHANGED vars
  BY <1>1, <1>2 DEF vars, hist
<1>3. ASSUME NEW t \in Threads, UserCall(t) \/ UserReturn(t) \/ Run(t)
      PROVE  (Queued /\ InOrder)'
  BY <1>1, <1>3 DEF UserCall, Send, Operation, UserReturn, Run, hist
<1>4. ASSUME NEW t \in Threads, Enqueue(t) PROVE (Queued /\ InOrder)'
  <2>1. msg[t] \in Msgs
    BY <1>4 DEF Enqueue, Enqueued, TypeOK, ThreadTypes
  <2>2. /\ accepted' = Append(accepted, msg[t])
        /\ mPendingSendMsgList' = Append(mPendingSendMsgList, msg[t])
        /\ UNCHANGED <<wire, completed, mSendingMsgList>>
    BY <1>4 DEF Enqueue, Enqueued
  <2>3. /\ Len(accepted') = Len(accepted) + 1
        /\ \A k \in 1..Len(accepted) : accepted'[k] = accepted[k]
        /\ accepted'[Len(accepted) + 1] = msg[t]
        /\ Len(mPendingSendMsgList') = Len(mPendingSendMsgList) + 1
        /\ \A k \in 1..Len(mPendingSendMsgList) :
              mPendingSendMsgList'[k] = mPendingSendMsgList[k]
        /\ mPendingSendMsgList'[Len(mPendingSendMsgList) + 1] = msg[t]
    BY <1>0, <2>1, <2>2, AppendProperties
  <2>4. Base' = Base /\ Base \in Nat
        /\ Len(accepted) = Base + Len(mSendingMsgList) + Len(mPendingSendMsgList)
    BY <1>0, <1>a, <2>2, <2>3 DEF Base, Queued
  <2>5. ASSUME NEW k \in 1..Len(mSendingMsgList)
        PROVE  accepted'[Base' + k] = mSendingMsgList'[k]
    <3>1. Base + k \in 1..Len(accepted)
      BY <1>0, <2>4
    <3>2. accepted[Base + k] = mSendingMsgList[k]
      BY <1>a DEF Queued
    <3> QED BY <2>2, <2>3, <2>4, <3>1, <3>2
  <2>6. ASSUME NEW k \in 1..Len(mPendingSendMsgList')
        PROVE  accepted'[Base' + Len(mSendingMsgList') + k] = mPendingSendMsgList'[k]
    <3>1. CASE k \in 1..Len(mPendingSendMsgList)
      <4>1. Base + Len(mSendingMsgList) + k \in 1..Len(accepted)
        BY <1>0, <2>4, <3>1
      <4>2. accepted[Base + Len(mSendingMsgList) + k] = mPendingSendMsgList[k]
        BY <1>a, <3>1 DEF Queued
      <4> QED BY <2>2, <2>3, <2>4, <3>1, <4>1, <4>2
    <3>2. CASE k = Len(mPendingSendMsgList) + 1
      <4>1. Base + Len(mSendingMsgList) + k = Len(accepted) + 1
        BY <1>0, <2>4, <3>2
      <4> QED BY <2>2, <2>3, <2>4, <3>2, <4>1
    <3> QED BY <1>0, <2>3, <3>1, <3>2
  <2>7. Queued'
    BY <2>2, <2>4, <2>5, <2>6 DEF Queued
  <2>8. InOrder'
    <3>1. \A k \in 1..Len(wire) : k \in 1..Len(accepted)
      BY <1>0, <1>a DEF InOrder
    <3> QED BY <1>0, <1>a, <2>2, <2>3, <3>1 DEF InOrder
  <2> QED BY <2>7, <2>8
<1>5. ASSUME NEW t \in Threads, TryFlush(t), CanFlush PROVE (Queued /\ InOrder)'
  <2>1. mSendingMsgList = <<>> /\ Len(<<>>) = 0
    BY <1>5, <1>a, EmptySeq DEF CanFlush, Progress
  <2>2. /\ mSendingMsgList' = mPendingSendMsgList /\ mPendingSendMsgList' = <<>>
        /\ UNCHANGED <<accepted, wire, completed>>
    BY <1>5, <2>1 DEF TryFlush, hist
  <2>3. Base' = Base /\ Base \in Nat
    <3>1. Base = Len(accepted) - Len(mPendingSendMsgList) - 0
      BY <2>1 DEF Base
    <3>2. Base' = Len(accepted) - 0 - Len(mPendingSendMsgList)
      BY <2>1, <2>2 DEF Base
    <3> QED BY <1>0, <1>a, <3>1, <3>2 DEF Queued
  <2>4. \A k \in 1..Len(mPendingSendMsgList) : accepted[Base + k] = mPendingSendMsgList[k]
    <3>1. \A k \in 1..Len(mPendingSendMsgList) :
             accepted[Base + 0 + k] = mPendingSendMsgList[k]
      BY <1>a, <2>1 DEF Queued
    <3> QED BY <2>3, <3>1
  <2>5. Queued'
    BY <2>1, <2>2, <2>3, <2>4 DEF Queued
  <2>6. InOrder'
    BY <1>a, <2>2 DEF InOrder
  <2> QED BY <2>5, <2>6
<1>6. ASSUME NEW t \in Threads, TryFlush(t), ~CanFlush PROVE (Queued /\ InOrder)'
  BY <1>1, <1>6 DEF TryFlush, hist
<1>7. ASSUME NEW t \in Threads, SendCallbacks(t), cb[t] < Len(mSendingMsgList)
      PROVE  (Queued /\ InOrder)'
  <2> DEFINE m == mSendingMsgList[cb[t] + 1]
  <2>1. /\ completed' = Append(completed, m)
        /\ UNCHANGED <<accepted, wire, mPendingSendMsgList, mSendingMsgList>>
    BY <1>7 DEF SendCallbacks
  <2>2. Len(completed) < Len(wire) /\ m \in Msgs /\ m = wire[Len(completed) + 1]
    BY <1>7, NextCallback DEF SendCallbacks
  <2> HIDE DEF m
  <2>3. /\ Len(completed') = Len(completed) + 1
        /\ \A k \in 1..Len(completed) : completed'[k] = completed[k]
        /\ completed'[Len(completed) + 1] = m
    BY <1>0, <2>1, <2>2, AppendProperties
  <2>4. Queued'
    BY <1>a, <2>1 DEF Queued, Base
  <2>5. InOrder'
    BY <1>0, <1>a, <2>1, <2>2, <2>3 DEF InOrder
  <2> QED BY <2>4, <2>5
<1>8. ASSUME NEW t \in Threads, SendCallbacks(t), ~(cb[t] < Len(mSendingMsgList))
      PROVE  (Queued /\ InOrder)'
  <2>1. mSendingMsgList' = <<>> /\ Len(<<>>) = 0
        /\ UNCHANGED <<accepted, wire, completed, mPendingSendMsgList>>
    BY <1>8, EmptySeq DEF SendCallbacks
  <2>2. Base' = Base + Len(mSendingMsgList) /\ Base \in Nat
    <3>1. Base' = Len(accepted) - Len(mPendingSendMsgList) - 0
      BY <2>1 DEF Base
    <3> QED BY <1>0, <1>a, <3>1 DEF Base, Queued
  <2>3. \A k \in 1..Len(mPendingSendMsgList) :
           accepted[Base' + 0 + k] = mPendingSendMsgList[k]
    <3>1. \A k \in 1..Len(mPendingSendMsgList) :
             Base' + 0 + k = Base + Len(mSendingMsgList) + k
      BY <1>0, <2>2
    <3> QED BY <1>a, <3>1 DEF Queued
  <2>4. Queued'
    <3>1. Base' \in Nat
      BY <1>0, <2>2
    <3>2. 1..0 = {}
      OBVIOUS
    <3> QED BY <2>1, <2>3, <3>1, <3>2 DEF Queued
  <2>5. InOrder'
    BY <1>a, <2>1 DEF InOrder
  <2> QED BY <2>4, <2>5
<1>9. ASSUME NEW t \in Threads,
             PostHighWater(t) \/ DispatchFlush(t) \/ Flush(t) \/ Release(t)
      PROVE  (Queued /\ InOrder)'
  BY <1>1, <1>9 DEF PostHighWater, DispatchFlush, Flush, Release, local, hist
<1>10. ASSUME NEW t \in Threads, OnRecvCompleted(t) \/ ArmCheck(t) \/ Arm(t) \/ Armed(t)
       PROVE  (Queued /\ InOrder)'
  BY <1>1, <1>10 DEF OnRecvCompleted, ArmCheck, Arm, Armed, hist
<1>11. ASSUME NEW t \in Threads,
              \/ IsOpen(t) \/ CloseSocket(t) \/ CallClosedHandler(t) \/ ClearHandlers(t)
              \/ Shutdown(t) \/ SetHighWater(t)
       PROVE  (Queued /\ InOrder)'
  BY <1>1, <1>11 DEF IsOpen, CloseSocket, CallClosedHandler, Swallow, ClearHandlers, Shutdown,
                     SetHighWater, hist
<1>12. ASSUME NEW i \in DOMAIN writes, Transmit(i) PROVE (Queued /\ InOrder)'
  <2> DEFINE m == Head(writes[i].todo)
  <2>1. /\ wire' = Append(wire, m)
        /\ UNCHANGED <<accepted, completed, mPendingSendMsgList, mSendingMsgList>>
    BY <1>12 DEF Transmit
  <2>2. Len(wire) < Len(accepted) /\ m \in Msgs /\ m = accepted[Len(wire) + 1]
    BY <1>12, NextOfWrite DEF Transmit
  <2> HIDE DEF m
  <2>3. /\ Len(wire') = Len(wire) + 1
        /\ \A k \in 1..Len(wire) : wire'[k] = wire[k]
        /\ wire'[Len(wire) + 1] = m
    BY <1>0, <2>1, <2>2, AppendProperties
  <2>4. Queued'
    BY <1>a, <2>1 DEF Queued, Base
  <2>5. InOrder'
    <3>1. \A k \in 1..Len(completed) : k \in 1..Len(wire)
      BY <1>0, <1>a DEF InOrder
    <3> QED BY <1>0, <1>a, <2>1, <2>2, <2>3, <3>1 DEF InOrder
  <2> QED BY <2>4, <2>5
<1>13. ASSUME NEW i \in DOMAIN writes, WriteEnds(i) PROVE (Queued /\ InOrder)'
  BY <1>1, <1>13 DEF WriteEnds, hist
<1>14. CASE ReceiveEnds
  BY <1>1, <1>14 DEF ReceiveEnds, hist
<1> QED BY <1>2, <1>3, <1>4, <1>5, <1>6, <1>7, <1>8, <1>9, <1>10, <1>11, <1>12, <1>13,
           <1>14
        DEF Next, Step, WriteProgress

-----------------------------------------------------------------------------
(* Who holds the right to send, and what they have reached. *)

\* A thread enters or leaves no part of the sending.
StaysPut(u) ==
    /\ InCallbacks(u)' <=> InCallbacks(u)
    /\ pc'[u] \in {"dispatchFlush", "flush"} => pc[u] \in {"dispatchFlush", "flush"}
    /\ pc'[u] = "release" => pc[u] = "release"

\* A step that moves neither list nor stream, lets no thread enter or leave a
\* part of the sending that it was not in, and adds no handler or write with
\* the right to send, changes nothing of the progress.
LEMMA KeepsProgress ==
    ASSUME Progress, Base' = Base,
           UNCHANGED <<wire, completed, mSendingMsgList, mSending, cb>>,
           \A u \in Threads : StaysPut(u),
           \A i \in DOMAIN queue' : HandlerHolds(queue'[i]) =>
               i \in DOMAIN queue /\ queue[i] = queue'[i],
           \A i \in DOMAIN writes' : open' /\ i \in DOMAIN writes /\ writes'[i] = writes[i]
    PROVE  Progress'
<1>1. \A t \in Threads : AtThread(t)'
  BY DEF StaysPut, Progress, AtThread, Reached
<1>2. \A i \in DOMAIN queue' : AtHandler(queue[i])'
  <2> SUFFICES ASSUME NEW i \in DOMAIN queue', HandlerHolds(queue'[i])
               PROVE  AtHandler(queue[i])'
    BY DEF AtHandler, HandlerHolds
  <2>1. AtHandler(queue[i]) /\ queue[i] = queue'[i]
    BY DEF Progress
  <2> QED BY <2>1 DEF AtHandler, Reached
<1>3. \A i \in DOMAIN writes' : open' /\ Reached(Len(writes[i].done), 0)'
  BY DEF Progress, Reached
<1>4. ~mSending' => mSendingMsgList' = <<>> /\ Reached(0, 0)'
  BY DEF Progress, Reached
<1> QED BY <1>1, <1>2, <1>3, <1>4 DEF Progress

\* What all the threads but one, the queue and the writes have reached is no
\* concern when that one holds the right to send: it is enough to look there.
LEMMA OnlyHolder ==
    ASSUME SendInv, Progress, NEW t \in Threads, ThreadHolds(t),
           \A u \in Threads \ {t} : pc'[u] = pc[u] /\ ret'[u] = ret[u] /\ cb'[u] = cb[u],
           UNCHANGED <<queue, writes, mSending>>, AtThread(t)'
    PROVE  Progress'
<1>1. mSending /\ writes = <<>>
  BY DEF SendInv, FlagGuardsSending, NobodyHolds, OneHolder
<1>2. \A i \in DOMAIN queue : ~HandlerHolds(queue[i])
  BY DEF SendInv, OneHolder
<1>3. ASSUME NEW u \in Threads \ {t} PROVE AtThread(u)'
  <2>1. ~ThreadHolds(u) /\ AtThread(u)
    BY DEF SendInv, OneHolder, Progress
  <2> QED BY <2>1 DEF ThreadHolds, AtThread, InCallbacks
<1>4. \A i \in DOMAIN queue' : AtHandler(queue[i])'
  BY <1>2 DEF AtHandler, HandlerHolds
<1> QED BY <1>1, <1>3, <1>4 DEF Progress

\* The completions that mSocket.close() queues hold no right to send.
LEMMA ClosedQueue ==
    ASSUME TypeOK, queue' = queue \o Aborted
    PROVE  \A i \in DOMAIN queue' : HandlerHolds(queue'[i]) =>
               i \in DOMAIN queue /\ queue[i] = queue'[i]
<1> DEFINE w == [i \in 1..Len(writes) |-> Handler("written", "error", writes[i].n)]
           r == [i \in 1..receives |-> Handler("received", "error", 0)]
<1>1. /\ \A i \in DOMAIN w : ~HandlerHolds(w[i])
      /\ \A i \in DOMAIN r : ~HandlerHolds(r[i])
  BY DEF HandlerHolds, Handler
<1>2. w \in Seq(Handlers) /\ r \in Seq(Handlers)
  BY AbortedTypes
<1>3. Aborted = w \o r
  BY DEF Aborted
<1> HIDE DEF w, r
<1>4. \A i \in DOMAIN Aborted : ~HandlerHolds(Aborted[i])
  BY ONLY <1>1, <1>2, <1>3, ConcatProperties, LenProperties
<1>5. queue \in Seq(Handlers) /\ Aborted \in Seq(Handlers)
  BY AbortedType DEF TypeOK, ListTypes
<1> QED BY <1>4, <1>5, ConcatProperties, LenProperties

\* No step loses track of what was reached.
LEMMA ProgressStep ==
    ASSUME SendInv, WriteOwnsBuffers, StreamInv, [Next]_vars
    PROVE  Progress'
<1> USE DEF SendInv, TypeOK, ListTypes, sock, send, local, hist, StaysPut
<1>0. /\ pc \in [Threads -> Labels]
      /\ ret \in [Threads -> UserLabels \cup {"idle"}]
      /\ cb \in [Threads -> Nat]
      /\ DOMAIN queue = 1..Len(queue) /\ Len(queue) \in Nat
      /\ DOMAIN writes = 1..Len(writes) /\ Len(writes) \in Nat
  BY LenProperties DEF ThreadTypes
<1>a. /\ Queued /\ InOrder /\ Progress
      /\ ReturnLabels /\ Len(mSendingMsgList) \in Nat /\ Base \in Nat
      /\ Len(completed) \in Nat
      /\ \A i \in DOMAIN writes : open
  BY LenProperties DEF StreamInv, Queued, Progress
<1>b. UNCHANGED <<accepted, mPendingSendMsgList, mSendingMsgList>> => Base' = Base
  BY DEF Base
<1>c. UNCHANGED writes /\ UNCHANGED open =>
        \A i \in DOMAIN writes' : open' /\ i \in DOMAIN writes /\ writes'[i] = writes[i]
  BY <1>a
<1>1. CASE UNCHANGED vars
  <2>1. UNCHANGED <<pc, ret, queue, wire, completed, mSendingMsgList, mSending, cb>>
    BY <1>1 DEF vars
  <2>2. \A u \in Threads : InCallbacks(u)' <=> InCallbacks(u)
    BY <2>1 DEF InCallbacks
  <2>3. UNCHANGED <<accepted, mPendingSendMsgList, writes, open>>
    BY <1>1 DEF vars
  <2> QED BY <1>a, <1>b, <1>c, <2>1, <2>2, <2>3, KeepsProgress
<1>2. ASSUME NEW t \in Threads, NEW m \in Msgs, Send(t, m) PROVE Progress'
  <2>1. \A u \in Threads : StaysPut(u)
    BY <1>0, <1>2, <1>a
       DEF Send, Call, Goto, InCallbacks, InUserCode, ReturnLabels, UserLabels
  <2> QED BY <1>2, <1>a, <1>b, <1>c, <2>1, KeepsProgress DEF Send
<1>3. ASSUME NEW t \in Threads, NEW kind \in Operations, Operation(t, kind) PROVE Progress'
  <2> DEFINE h == Handler(kind, "none", 0)
  <2>1. h \in Handlers /\ ~HandlerHolds(h)
    BY DEF Handler, Handlers, Kinds, Results, Operations, HandlerHolds
  <2>2. \A u \in Threads : StaysPut(u)
    <3>1. t \in IoThreads /\ kind # "functor" =>
             Entry(h) \in {"isOpen", "armCheck", "shutdown", "setHighWater", "withdraw"}
      BY DEF Entry, Handler, Operations
    <3>2. t \in IoThreads => kind # "functor"
      BY <1>3, ThreadsAssumption DEF Operation
    <3> HIDE DEF h
    <3> QED BY <1>0, <1>3, <1>a, <3>1, <3>2
            DEF Operation, Dispatch, h, Call, Goto, InCallbacks, InUserCode, ReturnLabels,
                UserLabels
  <2>3. UNCHANGED queue \/ Post(h)
    BY <1>3 DEF Operation, Dispatch
  <2> HIDE DEF h
  <2>4. \A i \in DOMAIN queue' : HandlerHolds(queue'[i]) =>
           i \in DOMAIN queue /\ queue[i] = queue'[i]
    BY <2>1, <2>3, PostOther
  <2> QED BY <1>3, <1>a, <1>b, <1>c, <2>2, <2>4, KeepsProgress DEF Operation
<1>4. ASSUME NEW t \in Threads, UserReturn(t) PROVE Progress'
  <2>1. \A u \in Threads : StaysPut(u)
    BY <1>0, <1>4, <1>a DEF UserReturn, Goto, InCallbacks, ReturnLabels, UserLabels
  <2> QED BY <1>4, <1>a, <1>b, <1>c, <2>1, KeepsProgress DEF UserReturn
<1>5. ASSUME NEW t \in Threads, Run(t) PROVE Progress'
  <2> DEFINE h == Head(queue)
  <2>1. /\ h = queue[1] /\ 1 \in DOMAIN queue
        /\ \A i \in DOMAIN queue' : i + 1 \in DOMAIN queue /\ queue'[i] = queue[i + 1]
    BY <1>0, <1>5, HeadTailProperties, LenProperties DEF Run
  <2>2. h \in Handlers /\ AtHandler(h)
    <3> HIDE DEF h
    <3>1. queue[1] \in Handlers
      BY <2>1, ElementOfSeq, <1>0
    <3>2. AtHandler(queue[1])
      BY <1>a, <2>1 DEF Progress
    <3> QED BY <2>1, <3>1, <3>2
  <2>3. ~InCallbacks(t) /\ cb[t] = 0
    <3>1. ~InCallbacks(t)
      BY <1>5, <1>0, <1>a DEF Run, InCallbacks, ReturnLabels
    <3> QED BY <1>a, <3>1 DEF Progress, AtThread
  <2>4. pc'[t] = Started(h) /\ ret'[t] = "idle"
    <3> HIDE DEF h
    <3>1. t \in DOMAIN pc /\ t \in DOMAIN ret
      BY <1>0
    <3> QED BY <3>1, <1>5 DEF Run, Goto, h
  <2>5. /\ UNCHANGED <<accepted, wire, completed, mPendingSendMsgList, mSendingMsgList>>
        /\ UNCHANGED <<mSending, cb, writes, open>>
    BY <1>5 DEF Run
  <2>6. \A w, c : Reached(w, c)' <=> Reached(w, c)
    BY <1>b, <2>5 DEF Reached
  <2> HIDE DEF h
  <2>7. AtThread(t)'
    <3>1. /\ Started(h) \in {"dispatchFlush", "flush"} => h.kind = "flush"
          /\ Started(h) \notin {"release", "inCallback"}
          /\ Started(h) = "callbacks" => h.kind = "written" /\ h.res = "ok"
      BY <2>2 DEF Started, Entry, Handlers, Kinds, Operations
    <3>2. pc'[t] = "callbacks" => Reached(Len(mSendingMsgList), cb[t])'
      BY <1>b, <2>2, <2>3, <2>4, <2>5, <3>1 DEF AtHandler, Reached
    <3>3. pc'[t] \in {"dispatchFlush", "flush"} => Reached(0, 0)'
      BY <2>2, <2>4, <2>6, <3>1 DEF AtHandler
    <3> QED BY <2>3, <2>4, <2>5, <3>1, <3>2, <3>3 DEF AtThread, InCallbacks
  <2>8. ASSUME NEW u \in Threads \ {t} PROVE AtThread(u)'
    <3>1. pc'[u] = pc[u] /\ ret'[u] = ret[u]
      BY <1>0, <1>5 DEF Run, Goto
    <3>2. AtThread(u)
      BY <1>a DEF Progress
    <3> QED BY <1>b, <2>5, <3>1, <3>2 DEF AtThread, InCallbacks, Reached
  <2>9. \A i \in DOMAIN queue' : AtHandler(queue[i])'
    <3> SUFFICES ASSUME NEW i \in DOMAIN queue' PROVE AtHandler(queue[i])'
      OBVIOUS
    <3>1. AtHandler(queue[i + 1]) /\ queue'[i] = queue[i + 1]
      BY <1>a, <2>1 DEF Progress
    <3> QED BY <1>b, <2>5, <3>1 DEF AtHandler, Reached
  <2>10. \A i \in DOMAIN writes' : open' /\ Reached(Len(writes[i].done), 0)'
    BY <1>a, <1>b, <2>5 DEF Progress, Reached
  <2>11. ~mSending' => mSendingMsgList' = <<>> /\ Reached(0, 0)'
    BY <1>a, <2>5, <2>6 DEF Progress
  <2> QED BY <2>7, <2>8, <2>9, <2>10, <2>11 DEF Progress
<1>6. ASSUME NEW t \in Threads, Enqueue(t) PROVE Progress'
  <2>2. \A u \in Threads : StaysPut(u)
    BY <1>0, <1>6 DEF Enqueue, Enqueued, Goto, InCallbacks, UserLabels
  <2>4. \A i \in DOMAIN queue' : HandlerHolds(queue'[i]) =>
           i \in DOMAIN queue /\ queue[i] = queue'[i]
    BY <1>6 DEF Enqueue
  <2>5. Base' = Base
    <3>1. msg[t] \in Msgs
      BY <1>6 DEF Enqueue, Enqueued, ThreadTypes
    <3>2. /\ accepted' = Append(accepted, msg[t])
          /\ mPendingSendMsgList' = Append(mPendingSendMsgList, msg[t])
          /\ mSendingMsgList' = mSendingMsgList
      BY <1>6 DEF Enqueue, Enqueued
    <3>3. /\ Len(accepted') = Len(accepted) + 1 /\ Len(accepted) \in Nat
          /\ Len(mPendingSendMsgList') = Len(mPendingSendMsgList) + 1
          /\ Len(mPendingSendMsgList) \in Nat
      BY <3>1, <3>2, AppendProperties, LenProperties
    <3> QED BY <1>a, <3>2, <3>3 DEF Base
  <2> QED BY <1>6, <1>a, <1>c, <2>2, <2>4, <2>5, KeepsProgress DEF Enqueue
<1>p. ASSUME NEW t \in Threads, PostHighWater(t) PROVE Progress'
  <2> DEFINE h == Handler("highWater", "none", 0)
  <2>1. h \in Handlers /\ ~HandlerHolds(h)
    BY DEF Handler, Handlers, Kinds, Results, HandlerHolds
  <2>2. \A u \in Threads : StaysPut(u)
    BY <1>0, <1>p DEF PostHighWater, Enqueued, Goto, InCallbacks, UserLabels
  <2>3. Post(h)
    BY <1>p DEF PostHighWater
  <2> HIDE DEF h
  <2>4. \A i \in DOMAIN queue' : HandlerHolds(queue'[i]) =>
           i \in DOMAIN queue /\ queue[i] = queue'[i]
    BY <2>1, <2>3, PostOther
  <2> QED BY <1>p, <1>a, <1>b, <1>c, <2>2, <2>4, KeepsProgress DEF PostHighWater
<1>7. ASSUME NEW t \in Threads, TryFlush(t), CanFlush PROVE Progress'
  <2>1. NobodyHolds /\ mSendingMsgList = <<>> /\ Reached(0, 0) /\ Len(<<>>) = 0
    BY <1>7, <1>a, EmptySeq DEF CanFlush, FlagGuardsSending, Progress
  <2>2. /\ mSending' /\ UNCHANGED <<queue, writes, ret, cb, accepted, wire, completed>>
        /\ mSendingMsgList' = mPendingSendMsgList /\ mPendingSendMsgList' = <<>>
        /\ pc' = [pc EXCEPT ![t] = "dispatchFlush"]
    BY <1>7, <2>1 DEF TryFlush, Goto
  <2>3. Base' = Base
    <3>1. /\ Len(mPendingSendMsgList) \in Nat /\ Len(accepted) \in Nat
      BY LenProperties
    <3>2. /\ Base = Len(accepted) - Len(mPendingSendMsgList) - 0
          /\ Base' = Len(accepted) - 0 - Len(mPendingSendMsgList)
      BY <2>1, <2>2 DEF Base
    <3> QED BY <3>1, <3>2
  <2>4. Reached(0, 0)'
    BY <2>1, <2>2, <2>3 DEF Reached
  <2>5. \A u \in Threads : AtThread(u)'
    BY <1>0, <1>a, <2>1, <2>2, <2>4
       DEF NobodyHolds, ThreadHolds, AtThread, InCallbacks, Progress
  <2>6. \A i \in DOMAIN queue' : AtHandler(queue[i])'
    BY <2>1, <2>2 DEF NobodyHolds, HandlerHolds, AtHandler
  <2> QED BY <2>1, <2>2, <2>5, <2>6 DEF NobodyHolds, Progress
<1>8. ASSUME NEW t \in Threads, TryFlush(t), ~CanFlush PROVE Progress'
  <2>1. \A u \in Threads : StaysPut(u)
    BY <1>0, <1>8 DEF TryFlush, Return, Goto, InCallbacks, UserLabels
  <2> QED BY <1>8, <1>a, <1>b, <1>c, <2>1, KeepsProgress DEF TryFlush
<1>9. ASSUME NEW t \in Threads, DispatchFlush(t) PROVE Progress'
  <2> DEFINE h == Handler("flush", "none", 0)
  <2>1. h \in Handlers
    BY HandlerType DEF Kinds, Results
  <2>2. ThreadHolds(t) /\ Reached(0, 0) /\ ret[t] # "inCallback" /\ cb[t] = 0
    BY <1>9, <1>a
       DEF DispatchFlush, ThreadHolds, Progress, AtThread, InCallbacks, ReturnLabels
  <2>3. CASE t \in IoThreads
    <3>1. \A u \in Threads : StaysPut(u)
      BY <1>0, <1>9, <2>3 DEF DispatchFlush, Goto, InCallbacks
    <3> QED BY <1>9, <1>a, <1>b, <1>c, <2>3, <3>1, KeepsProgress DEF DispatchFlush
  <2>4. CASE t \notin IoThreads
    <3>1. Post(h) /\ Return(t)
      BY <1>9, <2>4 DEF DispatchFlush
    <3>2. UNCHANGED <<open, writes, accepted, wire, completed, mPendingSendMsgList,
                      mSendingMsgList, mSending, cb, ret>>
      BY <1>9 DEF DispatchFlush
    <3> HIDE DEF h
    <3>3. \A w, c : Reached(w, c)' <=> Reached(w, c)
      BY <1>b, <3>2 DEF Reached
    <3>4. \A u \in Threads : AtThread(u)'
      <4> SUFFICES ASSUME NEW u \in Threads PROVE AtThread(u)'
        OBVIOUS
      <4>1. CASE u = t
        <5>1. pc'[t] = ret[t] /\ ret'[t] = ret[t] /\ cb'[t] = cb[t]
          BY <1>0, <3>1, <3>2 DEF Return, Goto
        <5>2. ret[t] \notin {"dispatchFlush", "flush", "release", "callbacks", "inCallback"}
          BY <1>0, <2>2 DEF UserLabels
        <5> QED BY <2>2, <4>1, <5>1, <5>2 DEF AtThread, InCallbacks
      <4>2. CASE u # t
        <5>1. pc'[u] = pc[u] /\ ret'[u] = ret[u]
          BY <1>0, <3>1, <3>2, <4>2 DEF Return, Goto
        <5>2. AtThread(u)
          BY <1>a DEF Progress
        <5> QED BY <1>b, <3>2, <5>1, <5>2 DEF AtThread, InCallbacks, Reached
      <4> QED BY <4>1, <4>2
    <3>5. \A i \in DOMAIN queue' : AtHandler(queue[i])'
      <4> SUFFICES ASSUME NEW i \in DOMAIN queue' PROVE AtHandler(queue[i])'
        OBVIOUS
      <4>1. CASE i \in DOMAIN queue
        <5>1. queue'[i] = queue[i] /\ AtHandler(queue[i])
          BY <1>a, <2>1, <3>1, <4>1, PostAppends DEF Progress
        <5> QED BY <1>b, <3>2, <5>1 DEF AtHandler, Reached
      <4>2. CASE i = Len(queue) + 1
        <5>1. queue'[i] = h
          BY <2>1, <3>1, <4>2, AppendProperties DEF Post
        <5>2. h.kind = "flush"
          BY DEF h, Handler
        <5> QED BY <2>2, <3>3, <5>1, <5>2 DEF AtHandler
      <4> QED BY <2>1, <3>1, <4>1, <4>2, PostAppends
    <3>6. \A i \in DOMAIN writes' : open' /\ Reached(Len(writes[i].done), 0)'
      BY <1>a, <1>b, <3>2 DEF Progress, Reached
    <3>7. ~mSending' => mSendingMsgList' = <<>> /\ Reached(0, 0)'
      BY <1>a, <3>2, <3>3 DEF Progress
    <3> QED BY <3>4, <3>5, <3>6, <3>7 DEF Progress
  <2> QED BY <2>3, <2>4
<1>10. ASSUME NEW t \in Threads, Flush(t) PROVE Progress'
  <2> DEFINE h == Handler("written", "error", 0)
             w == [done |-> <<>>, todo |-> mSendingMsgList, n |-> 0]
  <2>1. h \in Handlers /\ ~HandlerHolds(h)
    BY DEF Handler, Handlers, Kinds, Results, HandlerHolds
  <2>2. \A u \in Threads : StaysPut(u)
    BY <1>0, <1>10, <1>a DEF Flush, Return, Goto, InCallbacks, ReturnLabels, UserLabels
  <2>3. Reached(0, 0) /\ writes = <<>> /\ mSending
    BY <1>10, <1>a DEF Flush, Progress, AtThread, ThreadHolds, OneHolder,
                       FlagGuardsSending, NobodyHolds
  <2>4. UNCHANGED <<open, accepted, wire, completed, mPendingSendMsgList, mSendingMsgList,
                    mSending, cb>>
    BY <1>10 DEF Flush
  <2>5. CASE ~open
    <3>1. writes' = writes /\ Post(h)
      BY <1>10, <2>5 DEF Flush
    <3> HIDE DEF h
    <3>2. \A i \in DOMAIN queue' : HandlerHolds(queue'[i]) =>
             i \in DOMAIN queue /\ queue[i] = queue'[i]
      BY <2>1, <3>1, PostOther
    <3> QED BY <1>a, <1>b, <1>c, <2>2, <2>4, <3>1, <3>2, KeepsProgress
  <2>6. CASE open
    <3>1. writes' = Append(writes, w) /\ queue' = queue
      BY <1>10, <2>6 DEF Flush
    <3>2. w \in WriteOps /\ w.done = <<>>
      BY EmptySeq DEF WriteOps
    <3> HIDE DEF w
    <3>3. DOMAIN writes' = {1} /\ writes'[1] = w
      BY <2>3, <3>1, <3>2, AppendProperties, EmptySeq
    <3>4. \A a, b : Reached(a, b)' <=> Reached(a, b)
      BY <1>b, <2>4 DEF Reached
    <3>5. \A i \in DOMAIN writes' : open' /\ Reached(Len(writes[i].done), 0)'
      <4>1. \A i \in DOMAIN writes' : Len(writes'[i].done) = 0
        BY <3>2, <3>3, EmptySeq
      <4> QED BY <2>3, <2>4, <2>6, <3>4, <4>1
    <3>6. \A u \in Threads : AtThread(u)'
      BY <1>a, <1>b, <2>2, <2>4 DEF Progress, AtThread, Reached
    <3>7. \A i \in DOMAIN queue' : AtHandler(queue[i])'
      BY <1>a, <1>b, <2>4, <3>1 DEF Progress, AtHandler, Reached
    <3> QED BY <2>3, <2>4, <3>5, <3>6, <3>7 DEF Progress
  <2> QED BY <2>5, <2>6

<1>11. ASSUME NEW t \in Threads, SendCallbacks(t) PROVE Progress'
  <2>1. /\ ThreadHolds(t) /\ ret[t] = "idle" /\ mSending
        /\ Reached(Len(mSendingMsgList), cb[t])
    BY <1>11, <1>a DEF SendCallbacks, ThreadHolds, ReturnLabels, Progress, AtThread,
                       InCallbacks, FlagGuardsSending, NobodyHolds
  <2>2. UNCHANGED <<accepted, wire, mPendingSendMsgList, ret, queue, writes, mSending>>
    BY <1>11 DEF SendCallbacks
  <2>3. \A u \in Threads \ {t} : pc'[u] = pc[u] /\ ret'[u] = ret[u] /\ cb'[u] = cb[u]
    BY <1>0, <1>11 DEF SendCallbacks, Goto
  <2>4. CASE cb[t] < Len(mSendingMsgList)
    <3> DEFINE m == mSendingMsgList[cb[t] + 1]
    <3>1. /\ completed' = Append(completed, m) /\ UNCHANGED mSendingMsgList
          /\ cb'[t] = cb[t] + 1 /\ pc'[t] = "inCallback"
      BY <1>0, <1>11, <2>4 DEF SendCallbacks, Goto
    <3>2. m \in Msgs
      BY <1>11, <2>4, NextCallback DEF SendCallbacks
    <3> HIDE DEF m
    <3>3. Len(completed') = Len(completed) + 1
      BY <3>1, <3>2, AppendProperties
    <3>4. Reached(Len(mSendingMsgList), cb[t])'
      BY <1>0, <1>a, <1>b, <2>1, <2>2, <3>1, <3>3 DEF Reached
    <3>5. AtThread(t)'
      BY <3>1, <3>4 DEF AtThread, InCallbacks
    <3> QED BY <1>a, <2>1, <2>2, <2>3, <3>5, OnlyHolder
  <2>5. CASE ~(cb[t] < Len(mSendingMsgList))
    <3>1. /\ mSendingMsgList' = <<>> /\ UNCHANGED completed
          /\ cb'[t] = 0 /\ pc'[t] = "release"
      BY <1>0, <1>11, <2>5 DEF SendCallbacks, Goto
    <3>2. Base' = Base + Len(mSendingMsgList)
      <4>1. Base' = Len(accepted) - Len(mPendingSendMsgList) - 0
        BY <2>2, <3>1, EmptySeq DEF Base
      <4>2. Len(accepted) \in Nat /\ Len(mPendingSendMsgList) \in Nat
        BY LenProperties
      <4> QED BY <1>a, <4>1, <4>2 DEF Base
    <3>3. Len(wire) = Base + Len(mSendingMsgList) /\ Len(completed) = Base + cb[t]
      BY <2>1 DEF Reached
    <3>4. Len(completed) <= Len(wire)
      BY <1>a DEF InOrder
    <3>5. cb[t] = Len(mSendingMsgList)
      BY <1>0, <1>a, <2>5, <3>3, <3>4
    <3>6. Reached(0, 0)'
      BY <1>a, <2>2, <3>1, <3>2, <3>3, <3>5 DEF Reached
    <3>7. AtThread(t)'
      BY <2>1, <2>2, <3>1, <3>6 DEF AtThread, InCallbacks
    <3> QED BY <1>a, <2>1, <2>2, <2>3, <3>7, OnlyHolder
  <2> QED BY <2>4, <2>5
<1>12. ASSUME NEW t \in Threads, Release(t) PROVE Progress'
  <2>1. /\ ThreadHolds(t) /\ ret[t] = "idle" /\ cb[t] = 0
        /\ mSendingMsgList = <<>> /\ Reached(0, 0)
    BY <1>12, <1>a DEF Release, ThreadHolds, ReturnLabels, Progress, AtThread, InCallbacks
  <2>2. UNCHANGED <<accepted, wire, completed, mPendingSendMsgList, mSendingMsgList,
                    ret, cb, queue, writes, open>>
    BY <1>12 DEF Release
  <2>3. Reached(0, 0)' /\ mSendingMsgList' = <<>>
    BY <1>b, <2>1, <2>2 DEF Reached
  <2>4. pc' = [pc EXCEPT ![t] = "tryFlush"]
    BY <1>12 DEF Release, Goto
  <2>5. AtThread(t)'
    BY <1>0, <2>1, <2>2, <2>4 DEF AtThread, InCallbacks
  <2>6. \A u \in Threads \ {t} : AtThread(u)'
    BY <1>0, <1>a, <1>b, <2>2, <2>4 DEF Progress, AtThread, InCallbacks, Reached
  <2>7. \A i \in DOMAIN queue' : AtHandler(queue[i])'
    BY <1>a, <1>b, <2>2 DEF Progress, AtHandler, Reached
  <2>8. \A i \in DOMAIN writes' : open' /\ Reached(Len(writes[i].done), 0)'
    BY <1>a, <1>b, <2>2 DEF Progress, Reached
  <2> QED BY <2>3, <2>5, <2>6, <2>7, <2>8 DEF Progress
<1>13. ASSUME NEW t \in Threads, Arm(t) PROVE Progress'
  <2> DEFINE h == Handler("received", "error", 0)
  <2>1. h \in Handlers /\ ~HandlerHolds(h)
    BY DEF Handler, Handlers, Kinds, Results, HandlerHolds
  <2>2. \A u \in Threads : StaysPut(u)
    BY <1>0, <1>13 DEF Arm, Return, Goto, InCallbacks, UserLabels
  <2>3. UNCHANGED queue \/ Post(h)
    BY <1>13 DEF Arm
  <2> HIDE DEF h
  <2>4. \A i \in DOMAIN queue' : HandlerHolds(queue'[i]) =>
           i \in DOMAIN queue /\ queue[i] = queue'[i]
    BY <2>1, <2>3, PostOther
  <2> QED BY <1>13, <1>a, <1>b, <1>c, <2>2, <2>4, KeepsProgress DEF Arm
<1>14. ASSUME NEW t \in Threads, OnRecvCompleted(t) \/ ArmCheck(t) \/ Armed(t)
       PROVE  Progress'
  <2>1. \A u \in Threads : StaysPut(u)
    BY <1>0, <1>14, <1>a
       DEF OnRecvCompleted, ArmCheck, Armed, Return, Goto, InCallbacks, UserLabels
  <2> QED BY <1>14, <1>a, <1>b, <1>c, <2>1, KeepsProgress DEF OnRecvCompleted, ArmCheck, Armed
<1>15. ASSUME NEW t \in Threads,
              \/ IsOpen(t) \/ CallClosedHandler(t) \/ ClearHandlers(t)
              \/ Shutdown(t) \/ SetHighWater(t)
       PROVE  Progress'
  <2>1. \A u \in Threads : StaysPut(u)
    BY <1>0, <1>15 DEF IsOpen, CallClosedHandler, Swallow, ClearHandlers, Shutdown, SetHighWater,
                       Return, Goto, InCallbacks, UserLabels
  <2>2. UNCHANGED <<open, writes, queue, accepted, wire, completed, mPendingSendMsgList,
                    mSendingMsgList, mSending, cb>>
    BY <1>15 DEF IsOpen, CallClosedHandler, Swallow, ClearHandlers, Shutdown, SetHighWater
  <2> QED BY <1>a, <1>b, <1>c, <2>1, <2>2, KeepsProgress
<1>16. ASSUME NEW t \in Threads, CloseSocket(t) PROVE Progress'
  <2>1. \A u \in Threads : StaysPut(u)
    BY <1>0, <1>16 DEF CloseSocket, Swallow, Return, Goto, InCallbacks, UserLabels
  <2>2. \A i \in DOMAIN queue' : HandlerHolds(queue'[i]) =>
           i \in DOMAIN queue /\ queue[i] = queue'[i]
    BY <1>16, ClosedQueue DEF CloseSocket, Swallow
  <2>3. writes' = <<>> /\ DOMAIN <<>> = {}
    BY <1>16 DEF CloseSocket, Swallow
  <2>4. UNCHANGED <<accepted, wire, completed, mPendingSendMsgList, mSendingMsgList,
                    mSending, cb>>
    BY <1>16 DEF CloseSocket, Swallow
  <2> QED BY <1>a, <1>b, <2>1, <2>2, <2>3, <2>4, KeepsProgress
<1>17. ASSUME NEW i \in DOMAIN writes, Transmit(i) PROVE Progress'
  <2> DEFINE m == Head(writes[i].todo)
             w == [done |-> Append(writes[i].done, m), todo |-> Tail(writes[i].todo),
                   n |-> writes[i].n + Size[m]]
  <2>1. i = 1 /\ Len(writes) = 1 /\ writes # <<>> /\ mSending
    <3>1. i = 1 /\ Len(writes) = 1
      BY <1>0 DEF OneHolder
    <3>2. DOMAIN writes # {} /\ DOMAIN <<>> = {}
      BY <3>1
    <3>3. writes # <<>>
      BY ONLY <3>2
    <3> QED BY <3>1, <3>3 DEF FlagGuardsSending, NobodyHolds
  <2>2. /\ writes' = [writes EXCEPT ![i] = w] /\ wire' = Append(wire, m)
        /\ UNCHANGED <<open, queue, pc, ret, cb, mSending, accepted, completed,
                       mPendingSendMsgList, mSendingMsgList>>
    BY <1>17 DEF Transmit
  <2>3. m \in Msgs /\ open
    BY <1>17, NextOfWrite DEF Transmit
  <2>4. writes[i].done \in Seq(Msgs) /\ Len(writes[i].done) \in Nat
    <3>1. writes[i] \in WriteOps
      BY <1>0, ElementOfSeq
    <3> QED BY <3>1, LenProperties DEF WriteOps
  <2> HIDE DEF m
  <2>5. Len(w.done) = Len(writes[i].done) + 1 /\ Len(wire') = Len(wire) + 1
    BY <2>2, <2>3, <2>4, AppendProperties
  <2> HIDE DEF w
  <2>6. Reached(Len(writes[i].done), 0)'
    <3>1. Len(wire) = Base + Len(writes[i].done) /\ Len(completed) = Base + 0
      BY <1>a DEF Progress, Reached
    <3>2. writes'[i] = w
      BY <1>0, <2>2
    <3>3. /\ Len(writes'[i].done) = Len(writes[i].done) + 1
          /\ Len(wire') = Base + (Len(writes[i].done) + 1)
          /\ Len(completed') = Base + 0 /\ Base' = Base
      BY <1>a, <1>b, <2>2, <2>4, <2>5, <3>1, <3>2
    <3> QED BY <3>3 DEF Reached
  <2>7. DOMAIN writes' = {i}
    BY <1>0, <2>1, <2>2
  <2>8. \A j \in DOMAIN queue : ~HandlerHolds(queue[j])
    BY <2>1 DEF OneHolder
  <2>9. \A j \in DOMAIN queue' : AtHandler(queue[j])'
    BY <2>2, <2>8 DEF HandlerHolds, AtHandler
  <2>10. ASSUME NEW u \in Threads PROVE AtThread(u)'
    <3>1. ~ThreadHolds(u) /\ AtThread(u)
      BY <1>a, <2>1 DEF OneHolder, Progress
    <3> QED BY <2>2, <3>1 DEF ThreadHolds, AtThread, InCallbacks
  <2> QED BY <2>1, <2>2, <2>3, <2>6, <2>7, <2>9, <2>10 DEF Progress
<1>18. ASSUME NEW i \in DOMAIN writes, WriteEnds(i) PROVE Progress'
  <2> DEFINE h == Handler("written", IF writes[i].todo = <<>> THEN "ok" ELSE "error",
                          writes[i].n)
  <2>1. i = 1 /\ Len(writes) = 1 /\ writes # <<>> /\ mSending
    <3>1. i = 1 /\ Len(writes) = 1
      BY <1>0 DEF OneHolder
    <3>2. DOMAIN writes # {} /\ DOMAIN <<>> = {}
      BY <3>1
    <3>3. writes # <<>>
      BY ONLY <3>2
    <3> QED BY <3>1, <3>3 DEF FlagGuardsSending, NobodyHolds
  <2>2. writes' = <<>> /\ DOMAIN <<>> = {}
    BY <1>18, <2>1, SubSeqEmpty, ConcatEmptySeq DEF WriteEnds, RemoveAt
  <2>3. writes[i] \in WriteOps
    BY <1>0, ElementOfSeq
  <2>4. h \in Handlers
    BY <2>3, HandlerType DEF Kinds, Results, WriteOps
  <2>5. /\ Post(h) /\ UNCHANGED <<open, pc, ret, cb, mSending, accepted, wire, completed,
                                  mPendingSendMsgList, mSendingMsgList>>
    BY <1>18 DEF WriteEnds
  <2>6. AtHandler(h)
    <3>1. CASE writes[i].todo = <<>>
      <4>1. writes[i].done \in Seq(Msgs)
        BY <2>3 DEF WriteOps
      <4>2. mSendingMsgList = writes[i].done
        <5>1. writes[i].done \o <<>> = mSendingMsgList
          BY <3>1 DEF WriteOwnsBuffers
        <5> QED BY <4>1, <5>1, ConcatEmptySeq
      <4> QED BY <1>a, <4>2 DEF Progress, AtHandler, Handler
    <3>2. CASE writes[i].todo # <<>>
      BY <3>2 DEF AtHandler, Handler
    <3> QED BY <3>1, <3>2
  <2> HIDE DEF h
  <2>7. \A j \in DOMAIN queue' : AtHandler(queue[j])'
    <3> SUFFICES ASSUME NEW j \in DOMAIN queue' PROVE AtHandler(queue[j])'
      OBVIOUS
    <3>1. \/ j \in DOMAIN queue /\ queue'[j] = queue[j]
          \/ j = Len(queue) + 1 /\ queue'[j] = h
      BY <2>4, <2>5, PostAppends, AppendProperties DEF Post
    <3>2. AtHandler(queue'[j])
      BY <1>a, <2>6, <3>1 DEF Progress
    <3> QED BY <1>b, <2>5, <3>2 DEF AtHandler, Reached
  <2>8. \A u \in Threads : AtThread(u)'
    BY <1>a, <1>b, <2>5 DEF Progress, AtThread, InCallbacks, Reached
  <2> QED BY <2>1, <2>2, <2>5, <2>7, <2>8 DEF Progress
<1>19. CASE ReceiveEnds
  <2>1. PICK res \in {"data", "eof", "error"} : Post(Handler("received", res, 0))
    BY <1>19 DEF ReceiveEnds
  <2> DEFINE h == Handler("received", res, 0)
  <2>2. h \in Handlers /\ ~HandlerHolds(h)
    BY DEF Handler, Handlers, Kinds, Results, HandlerHolds
  <2>3. \A i \in DOMAIN queue' : HandlerHolds(queue'[i]) =>
           i \in DOMAIN queue /\ queue[i] = queue'[i]
    <3> HIDE DEF h
    <3> QED BY <2>1, <2>2, PostOther DEF h
  <2>4. UNCHANGED <<open, writes, pc, ret, cb, mSending, accepted, wire, completed,
                    mPendingSendMsgList, mSendingMsgList>>
    BY <1>19 DEF ReceiveEnds
  <2>5. \A u \in Threads : StaysPut(u)
    BY <2>4 DEF InCallbacks
  <2> QED BY <1>a, <1>b, <1>c, <2>3, <2>4, <2>5, KeepsProgress
<1> QED BY <1>1, <1>2, <1>3, <1>4, <1>5, <1>6, <1>p, <1>7, <1>8, <1>9, <1>10, <1>11, <1>12,
           <1>13, <1>14, <1>15, <1>16, <1>17, <1>18, <1>19
        DEF Next, UserCall, Step, WriteProgress

-----------------------------------------------------------------------------
(* The refinement. *)

\* Every step of the session is a step of the stream, or leaves it alone.
LEMMA StreamStep ==
    ASSUME SendInv, WriteOwnsBuffers, StreamInv, [Next]_vars
    PROVE  [Stream!Next]_(Stream!vars)
<1> USE DEF SendInv, TypeOK, ListTypes, sock, hist, local, Stream!vars
<1>1. CASE UNCHANGED vars
  BY <1>1 DEF vars
<1>2. ASSUME NEW t \in Threads, UserCall(t) \/ UserReturn(t) \/ Run(t)
      PROVE  UNCHANGED Stream!vars
  BY <1>2 DEF UserCall, Send, Operation, UserReturn, Run
<1>3. ASSUME NEW t \in Threads, Enqueue(t) PROVE Stream!Accept
  <2>1. msg[t] \in Msgs
    BY <1>3 DEF Enqueue, Enqueued, ThreadTypes
  <2> QED BY <1>3, <2>1 DEF Enqueue, Enqueued, Stream!Accept
<1>4. ASSUME NEW t \in Threads, SendCallbacks(t) PROVE Stream!Confirm \/ UNCHANGED Stream!vars
  <2>1. CASE cb[t] < Len(mSendingMsgList)
    <3>1. /\ completed' = Append(completed, mSendingMsgList[cb[t] + 1])
          /\ UNCHANGED <<open, accepted, wire>>
      BY <1>4, <2>1 DEF SendCallbacks
    <3>2. /\ Len(completed) < Len(wire)
          /\ mSendingMsgList[cb[t] + 1] = wire[Len(completed) + 1]
      BY <1>4, <2>1, NextCallback DEF SendCallbacks
    <3> QED BY <3>1, <3>2 DEF Stream!Confirm
  <2>2. CASE ~(cb[t] < Len(mSendingMsgList))
    BY <1>4, <2>2 DEF SendCallbacks
  <2> QED BY <2>1, <2>2
<1>5. ASSUME NEW t \in Threads, CloseSocket(t) PROVE Stream!Close \/ UNCHANGED Stream!vars
  BY <1>5 DEF CloseSocket, Swallow, Stream!Close, FlagTypes
<1>6. ASSUME NEW t \in Threads,
             \/ PostHighWater(t) \/ TryFlush(t) \/ DispatchFlush(t) \/ Flush(t)
             \/ Release(t)
      PROVE  UNCHANGED Stream!vars
  BY <1>6 DEF PostHighWater, TryFlush, DispatchFlush, Flush, Release
<1>7. ASSUME NEW t \in Threads, OnRecvCompleted(t) \/ ArmCheck(t) \/ Arm(t) \/ Armed(t)
      PROVE  UNCHANGED Stream!vars
  BY <1>7 DEF OnRecvCompleted, ArmCheck, Arm, Armed
<1>8. ASSUME NEW t \in Threads,
             \/ IsOpen(t) \/ CallClosedHandler(t) \/ ClearHandlers(t)
             \/ Shutdown(t) \/ SetHighWater(t)
      PROVE  UNCHANGED Stream!vars
  BY <1>8 DEF IsOpen, CallClosedHandler, Swallow, ClearHandlers, Shutdown, SetHighWater
<1>9. ASSUME NEW i \in DOMAIN writes, Transmit(i) PROVE Stream!Transmit
  <2>1. /\ wire' = Append(wire, Head(writes[i].todo)) /\ UNCHANGED <<open, accepted, completed>>
        /\ writes[i].todo # <<>>
    BY <1>9 DEF Transmit
  <2>2. /\ open /\ Len(wire) < Len(accepted)
        /\ Head(writes[i].todo) = accepted[Len(wire) + 1]
    BY <2>1, NextOfWrite
  <2> QED BY <2>1, <2>2 DEF Stream!Transmit
<1>10. ASSUME NEW i \in DOMAIN writes, WriteEnds(i) PROVE UNCHANGED Stream!vars
  BY <1>10 DEF WriteEnds
<1>11. CASE ReceiveEnds
  BY <1>11 DEF ReceiveEnds
<1> QED BY <1>1, <1>2, <1>3, <1>4, <1>5, <1>6, <1>7, <1>8, <1>9, <1>10, <1>11
        DEF Next, Step, WriteProgress, Stream!Next

\* What is written and confirmed stays the beginning of what was queued, for
\* any number of threads and messages.
THEOREM StreamInvariance == Spec => []StreamInv
<1>1. SendInv /\ WriteOwnsBuffers /\ StreamInv /\ [Next]_vars => StreamInv'
  BY OrderStep, ProgressStep DEF StreamInv
<1> QED BY <1>1, StreamInvInit, SendSlot, BuffersOwned, PTL DEF Spec

\* The session implements the stream of SendStream: the messages of all
\* threads reach the connection in the order in which send queued them, each
\* once, nothing is written after the close, and the callbacks are called in
\* that order for what was written (TcpSession.hpp:140-356).
THEOREM SessionIsStream == Spec => StreamSpec
<1>1. Init => Stream!Init
  BY DEF Init, Stream!Init
<1>2. SendInv /\ WriteOwnsBuffers /\ StreamInv /\ [Next]_vars => [Stream!Next]_(Stream!vars)
  BY StreamStep
<1> QED BY <1>1, <1>2, SendSlot, BuffersOwned, StreamInvariance, PTL
        DEF Spec, StreamSpec, Stream!Spec

-----------------------------------------------------------------------------
(* The bytes queued.  A sum over a list is a recursive function, and what  *)
(* it computes is proved by induction on the length: an induction over the *)
(* members of a set of numbers, which needs no operator as a parameter.    *)

\* A set that holds 0, and n + 1 with each n, holds every number.
LEMMA NatSetInduction ==
    ASSUME NEW T, 0 \in T, \A n \in Nat : n \in T => n + 1 \in T
    PROVE  Nat \subseteq T
<1> SUFFICES ASSUME Nat \ T # {} PROVE FALSE
  OBVIOUS
<1>1. PICK x \in Nat \ T : \A y \in Nat \ T : ~ (<<y, x>> \in OpToRel(<, Nat))
  BY NatLessThanWellFounded, WFMin
<1>2. \A y \in Nat \ T : ~ (y < x)
  BY <1>1 DEF OpToRel
<1>3. x - 1 \in Nat
  BY SMT
<1> QED BY <1>2, <1>3

\* f is the function that Sums defines recursively.
IsSums(f, s) == f = [i \in 0..Len(s) |-> IF i = 0 THEN 0 ELSE f[i - 1] + Size[s[i]]]

\* Such a function exists for every list: it is built entry by entry.
LEMMA SumsDef == ASSUME NEW s \in Seq(Msgs) PROVE IsSums(Sums(s), s)
<1> DEFINE Upto(n, f) == f = [i \in 0..n |-> IF i = 0 THEN 0 ELSE f[i - 1] + Size[s[i]]]
           T == {n \in Nat : \E f : Upto(n, f)}
<1>1. 0 \in T
  <2> DEFINE f == [i \in 0..0 |-> 0]
  <2>1. Upto(0, f)
    OBVIOUS
  <2> QED BY <2>1
<1>2. ASSUME NEW n \in Nat, n \in T PROVE n + 1 \in T
  <2>1. PICK f : Upto(n, f)
    BY <1>2
  <2> DEFINE g == [i \in 0..n + 1 |-> IF i = n + 1 THEN f[n] + Size[s[n + 1]] ELSE f[i]]
  <2>2. \A i \in 0..n : g[i] = f[i]
    BY SMT
  <2>3. g[n + 1] = f[n] + Size[s[n + 1]]
    OBVIOUS
  <2>4. \A i \in 0..n : f[i] = IF i = 0 THEN 0 ELSE f[i - 1] + Size[s[i]]
    BY <2>1
  <2>5. \A i \in 0..n + 1 : g[i] = IF i = 0 THEN 0 ELSE g[i - 1] + Size[s[i]]
    BY <2>2, <2>3, <2>4
  <2>6. Upto(n + 1, g)
    BY <2>5
  <2> HIDE DEF g
  <2>7. \E h : Upto(n + 1, h)
    BY <2>6
  <2>8. n + 1 \in Nat
    OBVIOUS
  <2> HIDE DEF Upto
  <2> QED BY <2>7, <2>8
<1> HIDE DEF T
<1>3. Len(s) \in T
  BY <1>1, <1>2, NatSetInduction
<1>4. \E f : IsSums(f, s)
  BY <1>3 DEF T, IsSums
<1>5. Sums(s) = CHOOSE f : IsSums(f, s)
  BY DEF Sums, IsSums
<1> QED BY <1>4, <1>5

\* Where two lists begin alike, so do their sums.
LEMMA SumsAgree ==
    ASSUME NEW s \in Seq(Msgs), NEW t \in Seq(Msgs), Len(s) <= Len(t),
           \A i \in 1..Len(s) : s[i] = t[i]
    PROVE  \A n \in 0..Len(s) : Sums(s)[n] = Sums(t)[n] /\ Sums(s)[n] \in Nat
<1> DEFINE f == Sums(s)
           g == Sums(t)
           T == {n \in Nat : n <= Len(s) => f[n] = g[n] /\ f[n] \in Nat}
<1>1. Len(s) \in Nat /\ Len(t) \in Nat
  BY LenProperties
<1>2. /\ f = [i \in 0..Len(s) |-> IF i = 0 THEN 0 ELSE f[i - 1] + Size[s[i]]]
      /\ g = [i \in 0..Len(t) |-> IF i = 0 THEN 0 ELSE g[i - 1] + Size[t[i]]]
  BY SumsDef DEF IsSums
<1> HIDE DEF f, g
<1>3. 0 \in T
  BY <1>1, <1>2
<1>4. ASSUME NEW n \in Nat, n \in T PROVE n + 1 \in T
  <2> SUFFICES ASSUME n + 1 <= Len(s) PROVE f[n + 1] = g[n + 1] /\ f[n + 1] \in Nat
    OBVIOUS
  <2>1. f[n] = g[n] /\ f[n] \in Nat
    BY <1>1, <1>4
  <2>2. f[n + 1] = f[n] + Size[s[n + 1]] /\ g[n + 1] = g[n] + Size[t[n + 1]]
    BY <1>1, <1>2
  <2>3. s[n + 1] = t[n + 1] /\ s[n + 1] \in Msgs
    BY <1>1, ElementOfSeq
  <2>4. Size[s[n + 1]] \in Nat
    BY <2>3, MsgsAssumption
  <2> QED BY <2>1, <2>2, <2>3, <2>4
<1> HIDE DEF T
<1>5. Nat \subseteq T
  BY <1>3, <1>4, NatSetInduction
<1> QED BY <1>1, <1>5 DEF T, f, g

\* An empty list has no bytes.
LEMMA BytesEmpty == Bytes(<<>>) = 0
<1> DEFINE s == <<>>
<1>1. s \in Seq(Msgs) /\ Len(s) = 0
  BY EmptySeq
<1> HIDE DEF s
<1>2. IsSums(Sums(s), s)
  BY <1>1, SumsDef
<1>3. 0 \in 0..Len(s)
  BY <1>1
<1>4. Sums(s)[0] = 0
  BY <1>2, <1>3 DEF IsSums
<1> QED BY <1>1, <1>4 DEF Bytes, s

\* A message adds its size to the bytes of a list.
LEMMA BytesAppend ==
    ASSUME NEW s \in Seq(Msgs), NEW m \in Msgs
    PROVE  /\ Bytes(s) \in Nat /\ Bytes(Append(s, m)) \in Nat
           /\ Bytes(Append(s, m)) = Bytes(s) + Size[m]
<1> DEFINE t == Append(s, m)
<1>1. /\ t \in Seq(Msgs) /\ Len(t) = Len(s) + 1 /\ Len(s) \in Nat
      /\ \A i \in 1..Len(s) : s[i] = t[i]
      /\ t[Len(s) + 1] = m
  BY AppendProperties, LenProperties
<1> HIDE DEF t
<1>2. Sums(s)[Len(s)] = Sums(t)[Len(s)] /\ Sums(s)[Len(s)] \in Nat
  BY <1>1, SumsAgree
<1>3. Sums(t)[Len(s) + 1] = Sums(t)[Len(s)] + Size[m]
  BY <1>1, SumsDef DEF IsSums
<1>4. Size[m] \in Nat
  BY MsgsAssumption
<1> QED BY <1>1, <1>2, <1>3, <1>4 DEF Bytes, t

\* Who will subtract the bytes of mSendingMsgList knows how many they are,
\* and an outstanding write how many it has written.
SizesKnown ==
    /\ \A t \in Threads : InCallbacks(t) => job[t].n = Bytes(mSendingMsgList)
    /\ \A i \in DOMAIN queue : queue[i].kind = "written" /\ queue[i].res = "ok" =>
          queue[i].n = Bytes(mSendingMsgList)
    /\ \A i \in DOMAIN writes : writes[i].n = Bytes(writes[i].done)

\* SizeAccounting, said of every thread that is about to subtract.
Listed == Bytes(mPendingSendMsgList) + Bytes(mSendingMsgList)
Counted ==
    /\ \A t \in Threads : pc[t] = "release" => mSendingSize = Listed + job[t].n
    /\ (\A t \in Threads : pc[t] # "release") => mSendingSize = Listed

SizeInv == SizesKnown /\ Counted

\* At the start nothing is queued, and nothing counted.
LEMMA SizeInvInit == Init => SizeInv
<1> SUFFICES ASSUME Init PROVE SizeInv
  OBVIOUS
<1>1. Listed = 0
  BY BytesEmpty DEF Init, Listed
<1>2. Counted
  BY <1>1 DEF Init, Counted
<1>3. SizesKnown
  BY DEF Init, SizesKnown, InCallbacks
<1> QED BY <1>2, <1>3 DEF SizeInv

\* A thread enters no callback, and neither enters nor leaves the section
\* that subtracts.
CountsAsBefore(u) ==
    /\ InCallbacks(u)' => InCallbacks(u)
    /\ pc'[u] = "release" <=> pc[u] = "release"

\* A step that touches neither the lists nor the count, and brings nobody to
\* where they matter, changes nothing.
LEMMA KeepsSizes ==
    ASSUME SizeInv,
           UNCHANGED <<mPendingSendMsgList, mSendingMsgList, mSendingSize, job>>,
           \A u \in Threads : CountsAsBefore(u),
           \A i \in DOMAIN queue' : HandlerHolds(queue'[i]) =>
               i \in DOMAIN queue /\ queue[i] = queue'[i],
           \A i \in DOMAIN writes' : i \in DOMAIN writes /\ writes'[i] = writes[i]
    PROVE  SizeInv'
<1>1. Counted'
  BY DEF SizeInv, Counted, Listed, CountsAsBefore
<1>2. \A u \in Threads : InCallbacks(u)' => job'[u].n = Bytes(mSendingMsgList')
  BY DEF SizeInv, SizesKnown, CountsAsBefore
<1>3. \A i \in DOMAIN queue' : queue'[i].kind = "written" /\ queue'[i].res = "ok" =>
          queue'[i].n = Bytes(mSendingMsgList')
  BY DEF SizeInv, SizesKnown, HandlerHolds
<1>4. \A i \in DOMAIN writes' : writes'[i].n = Bytes(writes'[i].done)
  BY DEF SizeInv, SizesKnown
<1> QED BY <1>1, <1>2, <1>3, <1>4 DEF SizeInv, SizesKnown

\* No step loses track of the bytes.
LEMMA SizeStep ==
    ASSUME SendInv, WriteOwnsBuffers, SizeInv, [Next]_vars
    PROVE  SizeInv'
<1> USE DEF SendInv, TypeOK, ListTypes, sock, send, local, hist, CountsAsBefore
<1>0. /\ pc \in [Threads -> Labels]
      /\ ret \in [Threads -> UserLabels \cup {"idle"}]
      /\ job \in [Threads -> Handlers]
      /\ DOMAIN queue = 1..Len(queue) /\ Len(queue) \in Nat
      /\ DOMAIN writes = 1..Len(writes) /\ Len(writes) \in Nat
  BY LenProperties DEF ThreadTypes
<1>a. SizesKnown /\ Counted /\ ReturnLabels
  BY DEF SizeInv
<1>b. \A s \in Seq(Msgs) : Bytes(s) \in Nat
  <2> SUFFICES ASSUME NEW s \in Seq(Msgs) PROVE Bytes(s) \in Nat
    OBVIOUS
  <2>1. CASE s = <<>>
    BY <2>1, BytesEmpty
  <2>2. CASE s # <<>>
    <3>1. s[1] \in Msgs
      BY <2>2, ElementOfSeq, EmptySeq, LenProperties
    <3> QED BY <3>1, BytesAppend
  <2> QED BY <2>1, <2>2
<1>c. UNCHANGED writes => \A i \in DOMAIN writes' : i \in DOMAIN writes /\ writes'[i] = writes[i]
  OBVIOUS
<1>d. UNCHANGED queue => \A i \in DOMAIN queue' : HandlerHolds(queue'[i]) =>
                             i \in DOMAIN queue /\ queue[i] = queue'[i]
  OBVIOUS
<1>1. CASE UNCHANGED vars
  <2>1. UNCHANGED <<pc, ret, queue, writes, job, mPendingSendMsgList, mSendingMsgList,
                    mSendingSize>>
    BY <1>1 DEF vars
  <2>2. \A u \in Threads : CountsAsBefore(u)
    BY <2>1 DEF InCallbacks
  <2> QED BY <1>c, <1>d, <2>1, <2>2, KeepsSizes
<1>2. ASSUME NEW t \in Threads, NEW m \in Msgs, Send(t, m) PROVE SizeInv'
  <2>1. \A u \in Threads : CountsAsBefore(u)
    BY <1>0, <1>2, <1>a
       DEF Send, Call, Goto, InCallbacks, InUserCode, ReturnLabels, UserLabels
  <2> QED BY <1>2, <1>c, <1>d, <2>1, KeepsSizes DEF Send
<1>3. ASSUME NEW t \in Threads, NEW kind \in Operations, Operation(t, kind) PROVE SizeInv'
  <2> DEFINE h == Handler(kind, "none", 0)
  <2>1. h \in Handlers /\ ~HandlerHolds(h)
    BY DEF Handler, Handlers, Kinds, Results, Operations, HandlerHolds
  <2>2. \A u \in Threads : CountsAsBefore(u)
    <3>1. t \in IoThreads /\ kind # "functor" =>
             Entry(h) \in {"isOpen", "armCheck", "shutdown", "setHighWater", "withdraw"}
      BY DEF Entry, Handler, Operations
    <3>2. t \in IoThreads => kind # "functor"
      BY <1>3, ThreadsAssumption DEF Operation
    <3> HIDE DEF h
    <3> QED BY <1>0, <1>3, <1>a, <3>1, <3>2
            DEF Operation, Dispatch, h, Call, Goto, InCallbacks, InUserCode, ReturnLabels,
                UserLabels
  <2>3. UNCHANGED queue \/ Post(h)
    BY <1>3 DEF Operation, Dispatch
  <2> HIDE DEF h
  <2>4. \A i \in DOMAIN queue' : HandlerHolds(queue'[i]) =>
           i \in DOMAIN queue /\ queue[i] = queue'[i]
    BY <2>1, <2>3, PostOther
  <2> QED BY <1>3, <1>c, <2>2, <2>4, KeepsSizes DEF Operation
<1>4. ASSUME NEW t \in Threads, UserReturn(t) PROVE SizeInv'
  <2>1. \A u \in Threads : CountsAsBefore(u)
    BY <1>0, <1>4, <1>a DEF UserReturn, Goto, InCallbacks, ReturnLabels, UserLabels
  <2> QED BY <1>4, <1>c, <1>d, <2>1, KeepsSizes DEF UserReturn
<1>5. ASSUME NEW t \in Threads, Run(t) PROVE SizeInv'
  <2> DEFINE h == Head(queue)
  <2>1. /\ h = queue[1] /\ 1 \in DOMAIN queue
        /\ \A i \in DOMAIN queue' : i + 1 \in DOMAIN queue /\ queue'[i] = queue[i + 1]
    BY <1>0, <1>5, HeadTailProperties, LenProperties DEF Run
  <2>2. h \in Handlers
    BY <1>0, <2>1, ElementOfSeq
  <2>3. h.kind = "written" /\ h.res = "ok" => h.n = Bytes(mSendingMsgList)
    <3>1. queue[1].kind = "written" /\ queue[1].res = "ok" =>
             queue[1].n = Bytes(mSendingMsgList)
      BY <1>a, <2>1 DEF SizesKnown
    <3> QED BY <2>1, <3>1
  <2> HIDE DEF h
  <2>4. pc' = [pc EXCEPT ![t] = Started(h)] /\ ret' = [ret EXCEPT ![t] = "idle"]
        /\ job' = [job EXCEPT ![t] = h] /\ pc[t] = "idle"
    BY <1>5 DEF Run, Goto, h
  <2>5. UNCHANGED <<writes, mPendingSendMsgList, mSendingMsgList, mSendingSize>>
    BY <1>5 DEF Run
  <2>6. /\ Started(h) \notin {"release", "inCallback"}
        /\ Started(h) = "callbacks" => h.kind = "written" /\ h.res = "ok"
    BY <2>2 DEF Started, Entry, Handlers, Kinds, Operations
  <2>7. InCallbacks(t)' => job'[t].n = Bytes(mSendingMsgList')
    BY <1>0, <2>3, <2>4, <2>5, <2>6 DEF InCallbacks
  <2>8. \A u \in Threads \ {t} : pc'[u] = pc[u] /\ ret'[u] = ret[u] /\ job'[u] = job[u]
    BY <1>0, <2>4
  <2>9. \A u \in Threads \ {t} : InCallbacks(u)' => job'[u].n = Bytes(mSendingMsgList')
    BY <1>a, <2>5, <2>8 DEF InCallbacks, SizesKnown
  <2>10. \A i \in DOMAIN queue' : queue'[i].kind = "written" /\ queue'[i].res = "ok" =>
             queue'[i].n = Bytes(mSendingMsgList')
    BY <1>a, <2>1, <2>5 DEF SizesKnown
  <2>11. \A i \in DOMAIN writes' : writes'[i].n = Bytes(writes'[i].done)
    BY <1>a, <2>5 DEF SizesKnown
  <2>12. Counted'
    <3>1. Listed' = Listed /\ mSendingSize' = mSendingSize
      BY <2>5 DEF Listed
    <3>2. pc'[t] # "release" /\ pc[t] # "release"
      BY <1>0, <2>4, <2>6
    <3> QED BY <1>a, <2>8, <3>1, <3>2 DEF Counted
  <2> QED BY <2>7, <2>9, <2>10, <2>11, <2>12 DEF SizeInv, SizesKnown
<1>6. ASSUME NEW t \in Threads, Enqueue(t) PROVE SizeInv'
  <2>1. msg[t] \in Msgs
    BY <1>6 DEF Enqueue, Enqueued, ThreadTypes
  <2>2. /\ mSendingSize' = mSendingSize + Size[msg[t]]
        /\ mPendingSendMsgList' = Append(mPendingSendMsgList, msg[t])
        /\ UNCHANGED <<writes, mSendingMsgList, job>>
    BY <1>6 DEF Enqueue, Enqueued
  <2>3. Listed' = Listed + Size[msg[t]] /\ Listed \in Nat /\ Size[msg[t]] \in Nat
    <3>1. /\ Bytes(mPendingSendMsgList) \in Nat /\ Bytes(mSendingMsgList) \in Nat
          /\ Bytes(mPendingSendMsgList') = Bytes(mPendingSendMsgList) + Size[msg[t]]
      BY <1>b, <2>1, <2>2, BytesAppend
    <3>2. Size[msg[t]] \in Nat
      BY <2>1, MsgsAssumption
    <3>3. Listed' = Bytes(mPendingSendMsgList') + Bytes(mSendingMsgList)
      BY <2>2 DEF Listed
    <3> QED BY <3>1, <3>2, <3>3 DEF Listed
  <2>4. \A u \in Threads : CountsAsBefore(u)
    BY <1>0, <1>6 DEF Enqueue, Enqueued, Goto, InCallbacks, UserLabels
  <2>5. Counted'
    <3>1. \A u \in Threads : job[u].n \in Nat
      BY <1>0 DEF Handlers
    <3>2. ASSUME NEW u \in Threads, pc'[u] = "release"
          PROVE  mSendingSize' = Listed' + job'[u].n
      <4>1. mSendingSize = Listed + job[u].n
        BY <1>a, <2>4, <3>2 DEF Counted
      <4>2. job'[u].n = job[u].n /\ job[u].n \in Nat
        BY <2>2, <3>1
      <4>3. mSendingSize' = mSendingSize + Size[msg[t]]
        BY <2>2
      <4>4. ASSUME NEW a \in Nat, NEW z \in Nat, NEW n \in Nat PROVE (a + n) + z = (a + z) + n
        OBVIOUS
      <4> QED BY ONLY <2>3, <4>1, <4>2, <4>3, <4>4
    <3>3. (\A u \in Threads : pc'[u] # "release") => mSendingSize' = Listed'
      BY <1>a, <2>2, <2>3, <2>4 DEF Counted
    <3> QED BY <3>2, <3>3 DEF Counted
  <2>9. \A i \in DOMAIN queue' : queue'[i].kind = "written" /\ queue'[i].res = "ok" =>
            queue'[i].n = Bytes(mSendingMsgList')
    BY <1>6, <1>a, <2>2 DEF Enqueue, SizesKnown
  <2>10. \A u \in Threads : InCallbacks(u)' => job'[u].n = Bytes(mSendingMsgList')
    BY <1>a, <2>2, <2>4 DEF SizesKnown
  <2>11. \A i \in DOMAIN writes' : writes'[i].n = Bytes(writes'[i].done)
    BY <1>a, <2>2 DEF SizesKnown
  <2> QED BY <2>5, <2>9, <2>10, <2>11 DEF SizeInv, SizesKnown
<1>p. ASSUME NEW t \in Threads, PostHighWater(t) PROVE SizeInv'
  <2> DEFINE h == Handler("highWater", "none", 0)
  <2>1. h \in Handlers /\ ~HandlerHolds(h)
    BY DEF Handler, Handlers, Kinds, Results, HandlerHolds
  <2>2. \A u \in Threads : CountsAsBefore(u)
    BY <1>0, <1>p DEF PostHighWater, Enqueued, Goto, InCallbacks, UserLabels
  <2>3. Post(h)
    BY <1>p DEF PostHighWater
  <2> HIDE DEF h
  <2>4. \A i \in DOMAIN queue' : HandlerHolds(queue'[i]) =>
           i \in DOMAIN queue /\ queue[i] = queue'[i]
    BY <2>1, <2>3, PostOther
  <2> QED BY <1>p, <1>c, <2>2, <2>4, KeepsSizes DEF PostHighWater
<1>7. ASSUME NEW t \in Threads, TryFlush(t) PROVE SizeInv'
  <2>1. \A u \in Threads : CountsAsBefore(u)
    BY <1>0, <1>7 DEF TryFlush, Return, Goto, InCallbacks, UserLabels
  <2>2. UNCHANGED <<queue, writes, job, mSendingSize>>
    BY <1>7 DEF TryFlush
  <2>3. CASE ~CanFlush
    BY <1>7, <1>c, <1>d, <2>1, <2>2, <2>3, KeepsSizes DEF TryFlush
  <2>4. CASE CanFlush
    <3>1. /\ mSendingMsgList' = mPendingSendMsgList
          /\ mPendingSendMsgList' = mSendingMsgList
      BY <1>7, <2>4 DEF TryFlush
    <3>2. NobodyHolds
      BY <2>4 DEF CanFlush, FlagGuardsSending
    <3>3. Listed' = Listed
      BY <1>b, <3>1 DEF Listed
    <3>4. Counted'
      BY <1>a, <2>1, <2>2, <3>3 DEF Counted
    <3>5. \A u \in Threads : ~InCallbacks(u)'
      BY <2>1, <3>2 DEF NobodyHolds, ThreadHolds, InCallbacks
    <3>6. \A i \in DOMAIN queue' : ~HandlerHolds(queue'[i])
      BY <2>2, <3>2 DEF NobodyHolds
    <3>7. writes' = <<>> /\ DOMAIN <<>> = {}
      BY <2>2, <3>2 DEF NobodyHolds
    <3> QED BY <3>4, <3>5, <3>6, <3>7 DEF SizeInv, SizesKnown, HandlerHolds
  <2> QED BY <2>3, <2>4
<1>8. ASSUME NEW t \in Threads, DispatchFlush(t) PROVE SizeInv'
  <2>1. \A u \in Threads : CountsAsBefore(u)
    BY <1>0, <1>8 DEF DispatchFlush, Return, Goto, InCallbacks, UserLabels
  <2> DEFINE h == Handler("flush", "none", 0)
  <2>2. UNCHANGED queue \/ Post(h)
    BY <1>8 DEF DispatchFlush
  <2>3. h \in Handlers /\ h.kind = "flush"
    BY HandlerType DEF Handler, Kinds, Results
  <2>4. UNCHANGED <<writes, job, mPendingSendMsgList, mSendingMsgList, mSendingSize>>
    BY <1>8 DEF DispatchFlush
  <2> HIDE DEF h
  <2>5. ASSUME NEW i \in DOMAIN queue', queue'[i].kind = "written", queue'[i].res = "ok"
        PROVE  queue'[i].n = Bytes(mSendingMsgList')
    <3>1. i \in DOMAIN queue /\ queue'[i] = queue[i]
      BY <2>2, <2>3, <2>5, PostAppends, AppendProperties DEF Post
    <3> QED BY <1>a, <2>4, <2>5, <3>1 DEF SizesKnown
  <2>6. Counted'
    BY <1>a, <2>1, <2>4 DEF Counted, Listed
  <2>7. \A u \in Threads : InCallbacks(u)' => job'[u].n = Bytes(mSendingMsgList')
    BY <1>a, <2>1, <2>4 DEF SizesKnown
  <2>8. \A i \in DOMAIN writes' : writes'[i].n = Bytes(writes'[i].done)
    BY <1>a, <2>4 DEF SizesKnown
  <2> QED BY <2>5, <2>6, <2>7, <2>8 DEF SizeInv, SizesKnown
<1>9. ASSUME NEW t \in Threads, Flush(t) PROVE SizeInv'
  <2> DEFINE h == Handler("written", "error", 0)
             w == [done |-> <<>>, todo |-> mSendingMsgList, n |-> 0]
  <2>1. \A u \in Threads : CountsAsBefore(u)
    BY <1>0, <1>9 DEF Flush, Return, Goto, InCallbacks, UserLabels
  <2>2. /\ UNCHANGED <<job, mPendingSendMsgList, mSendingMsgList, mSendingSize>>
        /\ UNCHANGED queue \/ Post(h)
        /\ UNCHANGED writes \/ writes' = Append(writes, w)
    BY <1>9 DEF Flush
  <2>3. h \in Handlers /\ ~HandlerHolds(h)
    BY HandlerType DEF Handler, Kinds, Results, HandlerHolds
  <2>4. w \in WriteOps /\ w.n = Bytes(w.done)
    BY EmptySeq, BytesEmpty DEF WriteOps
  <2> HIDE DEF h, w
  <2>5. \A i \in DOMAIN queue' : HandlerHolds(queue'[i]) =>
           i \in DOMAIN queue /\ queue[i] = queue'[i]
    BY <2>2, <2>3, PostOther
  <2>6. \A i \in DOMAIN queue' : queue'[i].kind = "written" /\ queue'[i].res = "ok" =>
            queue'[i].n = Bytes(mSendingMsgList')
    BY <1>a, <2>2, <2>5 DEF SizesKnown, HandlerHolds
  <2>7. ASSUME NEW i \in DOMAIN writes' PROVE writes'[i].n = Bytes(writes'[i].done)
    <3>1. (i \in DOMAIN writes /\ writes'[i] = writes[i]) \/ writes'[i] = w
      BY <1>0, <2>2, <2>4, AppendProperties
    <3> QED BY <1>a, <2>4, <3>1 DEF SizesKnown
  <2>8. Counted'
    BY <1>a, <2>1, <2>2 DEF Counted, Listed
  <2>9. \A u \in Threads : InCallbacks(u)' => job'[u].n = Bytes(mSendingMsgList')
    BY <1>a, <2>1, <2>2 DEF SizesKnown
  <2> QED BY <2>6, <2>7, <2>8, <2>9 DEF SizeInv, SizesKnown
<1>10. ASSUME NEW t \in Threads, SendCallbacks(t) PROVE SizeInv'
  <2>1. /\ ThreadHolds(t) /\ ret[t] = "idle" /\ pc[t] = "callbacks"
        /\ job[t].n = Bytes(mSendingMsgList)
    BY <1>10, <1>a DEF SendCallbacks, ThreadHolds, ReturnLabels, SizesKnown, InCallbacks
  <2>2. UNCHANGED <<mPendingSendMsgList, mSendingSize, job, ret, queue, writes>>
    BY <1>10 DEF SendCallbacks
  <2>3. \A u \in Threads \ {t} : ~InCallbacks(u) /\ pc[u] # "release" /\ pc'[u] = pc[u]
    <3>1. \A u \in Threads \ {t} : ~ThreadHolds(u)
      BY <2>1 DEF OneHolder
    <3>2. \A u \in Threads \ {t} : pc'[u] = pc[u]
      BY <1>0, <1>10 DEF SendCallbacks, Goto
    <3> QED BY <3>1, <3>2 DEF ThreadHolds, InCallbacks
  <2>4. \A i \in DOMAIN queue : ~HandlerHolds(queue[i])
    BY <2>1 DEF OneHolder
  <2>5. mSendingSize = Listed
    BY <1>a, <2>1, <2>3 DEF Counted
  <2>6. CASE cb[t] < Len(mSendingMsgList)
    <3>1. pc'[t] = "inCallback" /\ UNCHANGED mSendingMsgList
      BY <1>0, <1>10, <2>6 DEF SendCallbacks, Goto
    <3>2. \A u \in Threads : CountsAsBefore(u)
      BY <2>1, <2>2, <2>3, <3>1 DEF InCallbacks
    <3> QED BY <1>c, <1>d, <2>2, <3>1, <3>2, KeepsSizes
  <2>7. CASE ~(cb[t] < Len(mSendingMsgList))
    <3>1. pc'[t] = "release" /\ mSendingMsgList' = <<>>
      BY <1>0, <1>10, <2>7 DEF SendCallbacks, Goto
    <3>2. mSendingSize' = Listed' + job'[t].n
      <4>1. Listed' = Bytes(mPendingSendMsgList) + 0
        BY <2>2, <3>1, BytesEmpty DEF Listed
      <4>2. Bytes(mPendingSendMsgList) \in Nat /\ Bytes(mSendingMsgList) \in Nat
        BY <1>b
      <4> QED BY <2>1, <2>2, <2>5, <4>1, <4>2 DEF Listed
    <3>3. Counted'
      BY <2>3, <3>1, <3>2 DEF Counted
    <3>4. \A u \in Threads : ~InCallbacks(u)'
      BY <2>1, <2>2, <2>3, <3>1 DEF InCallbacks
    <3>5. \A i \in DOMAIN writes' : writes'[i].n = Bytes(writes'[i].done)
      BY <1>a, <2>2 DEF SizesKnown
    <3>6. \A i \in DOMAIN queue' : ~HandlerHolds(queue'[i])
      BY <2>2, <2>4
    <3> QED BY <3>3, <3>4, <3>5, <3>6 DEF SizeInv, SizesKnown, HandlerHolds
  <2> QED BY <2>6, <2>7
<1>11. ASSUME NEW t \in Threads, Release(t) PROVE SizeInv'
  <2>1. pc[t] = "release" /\ ThreadHolds(t) /\ ret[t] = "idle"
    BY <1>11, <1>a DEF Release, ThreadHolds, ReturnLabels
  <2>2. UNCHANGED <<mPendingSendMsgList, mSendingMsgList, job, ret, queue, writes>>
    BY <1>11 DEF Release
  <2>3. pc' = [pc EXCEPT ![t] = "tryFlush"] /\ mSendingSize' = mSendingSize - job[t].n
    BY <1>11 DEF Release, Goto
  <2>4. \A u \in Threads \ {t} : ~ThreadHolds(u)
    BY <2>1 DEF OneHolder
  <2>5. \A u \in Threads : pc'[u] # "release" /\ ~InCallbacks(u)'
    BY <1>0, <2>1, <2>2, <2>3, <2>4 DEF ThreadHolds, InCallbacks
  <2>6. Listed' = Listed /\ Listed \in Nat
    BY <1>b, <2>2 DEF Listed
  <2>7. mSendingSize = Listed + job[t].n /\ job[t].n \in Nat
    BY <1>0, <1>a, <2>1 DEF Counted, Handlers
  <2>8. Counted'
    BY <2>3, <2>5, <2>6, <2>7 DEF Counted
  <2>9. /\ \A i \in DOMAIN queue' : queue'[i].kind = "written" /\ queue'[i].res = "ok" =>
              queue'[i].n = Bytes(mSendingMsgList')
        /\ \A i \in DOMAIN writes' : writes'[i].n = Bytes(writes'[i].done)
    BY <1>a, <2>2 DEF SizesKnown
  <2> QED BY <2>5, <2>8, <2>9 DEF SizeInv, SizesKnown
<1>12. ASSUME NEW t \in Threads, Arm(t) PROVE SizeInv'
  <2> DEFINE h == Handler("received", "error", 0)
  <2>1. h \in Handlers /\ ~HandlerHolds(h)
    BY DEF Handler, Handlers, Kinds, Results, HandlerHolds
  <2>2. \A u \in Threads : CountsAsBefore(u)
    BY <1>0, <1>12 DEF Arm, Return, Goto, InCallbacks, UserLabels
  <2>3. UNCHANGED queue \/ Post(h)
    BY <1>12 DEF Arm
  <2> HIDE DEF h
  <2>4. \A i \in DOMAIN queue' : HandlerHolds(queue'[i]) =>
           i \in DOMAIN queue /\ queue[i] = queue'[i]
    BY <2>1, <2>3, PostOther
  <2> QED BY <1>12, <1>c, <2>2, <2>4, KeepsSizes DEF Arm
<1>13. ASSUME NEW t \in Threads, OnRecvCompleted(t) \/ ArmCheck(t) \/ Armed(t)
       PROVE  SizeInv'
  <2>1. \A u \in Threads : CountsAsBefore(u)
    BY <1>0, <1>13, <1>a
       DEF OnRecvCompleted, ArmCheck, Armed, Return, Goto, InCallbacks, UserLabels
  <2> QED BY <1>13, <1>c, <1>d, <2>1, KeepsSizes DEF OnRecvCompleted, ArmCheck, Armed
<1>14. ASSUME NEW t \in Threads,
              \/ IsOpen(t) \/ CallClosedHandler(t) \/ ClearHandlers(t)
              \/ Shutdown(t) \/ SetHighWater(t)
       PROVE  SizeInv'
  <2>1. \A u \in Threads : CountsAsBefore(u)
    BY <1>0, <1>14 DEF IsOpen, CallClosedHandler, Swallow, ClearHandlers, Shutdown, SetHighWater,
                       Return, Goto, InCallbacks, UserLabels
  <2>2. UNCHANGED <<writes, queue, job, mPendingSendMsgList, mSendingMsgList, mSendingSize>>
    BY <1>14 DEF IsOpen, CallClosedHandler, Swallow, ClearHandlers, Shutdown, SetHighWater
  <2> QED BY <1>c, <1>d, <2>1, <2>2, KeepsSizes
<1>15. ASSUME NEW t \in Threads, CloseSocket(t) PROVE SizeInv'
  <2>1. \A u \in Threads : CountsAsBefore(u)
    BY <1>0, <1>15 DEF CloseSocket, Swallow, Return, Goto, InCallbacks, UserLabels
  <2>2. \A i \in DOMAIN queue' : HandlerHolds(queue'[i]) =>
           i \in DOMAIN queue /\ queue[i] = queue'[i]
    BY <1>15, ClosedQueue DEF CloseSocket, Swallow
  <2>3. writes' = <<>> /\ DOMAIN <<>> = {}
    BY <1>15 DEF CloseSocket, Swallow
  <2> QED BY <1>15, <2>1, <2>2, <2>3, KeepsSizes DEF CloseSocket, Swallow
<1>16. ASSUME NEW i \in DOMAIN writes, Transmit(i) PROVE SizeInv'
  <2> DEFINE m == Head(writes[i].todo)
             w == [done |-> Append(writes[i].done, m), todo |-> Tail(writes[i].todo),
                   n |-> writes[i].n + Size[m]]
  <2>1. writes[i] \in WriteOps
    BY <1>0, ElementOfSeq
  <2>2. m \in Msgs
    BY <1>16, <2>1, HeadTailProperties DEF Transmit, WriteOps
  <2>3. /\ writes' = [writes EXCEPT ![i] = w]
        /\ UNCHANGED <<queue, pc, ret, job, mPendingSendMsgList, mSendingMsgList, mSendingSize>>
    BY <1>16 DEF Transmit
  <2> HIDE DEF m
  <2>4. w.n = Bytes(w.done)
    BY <1>a, <2>1, <2>2, BytesAppend DEF SizesKnown, WriteOps
  <2> HIDE DEF w
  <2>5. \A j \in DOMAIN writes' : writes'[j].n = Bytes(writes'[j].done)
    BY <1>a, <2>3, <2>4 DEF SizesKnown
  <2>6. Counted'
    BY <1>a, <2>3 DEF Counted, Listed
  <2>7. /\ \A u \in Threads : InCallbacks(u)' => job'[u].n = Bytes(mSendingMsgList')
        /\ \A j \in DOMAIN queue' : queue'[j].kind = "written" /\ queue'[j].res = "ok" =>
              queue'[j].n = Bytes(mSendingMsgList')
    BY <1>a, <2>3 DEF SizesKnown, InCallbacks
  <2> QED BY <2>5, <2>6, <2>7 DEF SizeInv, SizesKnown
<1>17. ASSUME NEW i \in DOMAIN writes, WriteEnds(i) PROVE SizeInv'
  <2> DEFINE h == Handler("written", IF writes[i].todo = <<>> THEN "ok" ELSE "error",
                          writes[i].n)
  <2>1. i = 1 /\ Len(writes) = 1
    BY <1>0 DEF OneHolder
  <2>2. writes' = <<>> /\ DOMAIN <<>> = {}
    BY <1>17, <2>1, SubSeqEmpty, ConcatEmptySeq DEF WriteEnds, RemoveAt
  <2>3. writes[i] \in WriteOps
    BY <1>0, ElementOfSeq
  <2>4. h \in Handlers
    BY <2>3, HandlerType DEF Kinds, Results, WriteOps
  <2>5. /\ Post(h)
        /\ UNCHANGED <<pc, ret, job, mPendingSendMsgList, mSendingMsgList, mSendingSize>>
    BY <1>17 DEF WriteEnds
  <2>6. h.res = "ok" => h.n = Bytes(mSendingMsgList)
    <3>1. CASE writes[i].todo = <<>>
      <4>1. writes[i].done \in Seq(Msgs)
        BY <2>3 DEF WriteOps
      <4>2. mSendingMsgList = writes[i].done
        <5>1. writes[i].done \o <<>> = mSendingMsgList
          BY <3>1 DEF WriteOwnsBuffers
        <5> QED BY <4>1, <5>1, ConcatEmptySeq
      <4>3. writes[i].n = Bytes(writes[i].done)
        BY <1>a DEF SizesKnown
      <4> QED BY <4>2, <4>3 DEF Handler
    <3>2. CASE writes[i].todo # <<>>
      BY <3>2 DEF Handler
    <3> QED BY <3>1, <3>2
  <2> HIDE DEF h
  <2>7. ASSUME NEW j \in DOMAIN queue', queue'[j].kind = "written", queue'[j].res = "ok"
        PROVE  queue'[j].n = Bytes(mSendingMsgList')
    <3>1. \/ j \in DOMAIN queue /\ queue'[j] = queue[j]
          \/ j = Len(queue) + 1 /\ queue'[j] = h
      BY <2>4, <2>5, PostAppends, AppendProperties DEF Post
    <3> QED BY <1>a, <2>5, <2>6, <2>7, <3>1 DEF SizesKnown
  <2>8. Counted'
    BY <1>a, <2>5 DEF Counted, Listed
  <2>9. \A u \in Threads : InCallbacks(u)' => job'[u].n = Bytes(mSendingMsgList')
    BY <1>a, <2>5 DEF SizesKnown, InCallbacks
  <2> QED BY <2>2, <2>7, <2>8, <2>9 DEF SizeInv, SizesKnown
<1>18. CASE ReceiveEnds
  <2>1. PICK res \in {"data", "eof", "error"} : Post(Handler("received", res, 0))
    BY <1>18 DEF ReceiveEnds
  <2> DEFINE h == Handler("received", res, 0)
  <2>2. h \in Handlers /\ ~HandlerHolds(h)
    BY DEF Handler, Handlers, Kinds, Results, HandlerHolds
  <2>3. \A i \in DOMAIN queue' : HandlerHolds(queue'[i]) =>
           i \in DOMAIN queue /\ queue[i] = queue'[i]
    <3> HIDE DEF h
    <3> QED BY <2>1, <2>2, PostOther DEF h
  <2>4. UNCHANGED <<writes, pc, ret, job, mPendingSendMsgList, mSendingMsgList, mSendingSize>>
    BY <1>18 DEF ReceiveEnds
  <2>5. \A u \in Threads : CountsAsBefore(u)
    BY <2>4 DEF InCallbacks
  <2> QED BY <1>c, <2>3, <2>4, <2>5, KeepsSizes
<1> QED BY <1>1, <1>2, <1>3, <1>4, <1>5, <1>6, <1>p, <1>7, <1>8, <1>9, <1>10, <1>11, <1>12,
           <1>13, <1>14, <1>15, <1>16, <1>17, <1>18
        DEF Next, UserCall, Step, WriteProgress

\* mSendingSize counts the bytes of both lists, and of the list just sent
\* until its bytes are subtracted, for every interleaving of the threads, any
\* number of messages and every size (TcpSession.hpp:148, 352).
THEOREM SizeAccountingAlways == Spec => []SizeAccounting
<1>1. SendInv /\ WriteOwnsBuffers /\ SizeInv /\ [Next]_vars => SizeInv'
  BY SizeStep
<1>2. SendInv /\ SizeInv => SizeAccounting
  <2> SUFFICES ASSUME SendInv, SizeInv PROVE SizeAccounting
    OBVIOUS
  <2>1. CASE \E t \in Threads : pc[t] = "release"
    <3> DEFINE u == CHOOSE t \in Threads : pc[t] = "release"
    <3>1. u \in Threads /\ pc[u] = "release"
      BY <2>1
    <3> HIDE DEF u
    <3>2. mSendingSize = Listed + job[u].n
      BY <3>1 DEF SizeInv, Counted
    <3> QED BY <2>1, <3>2 DEF SizeAccounting, Listed, u
  <2>2. CASE \A t \in Threads : pc[t] # "release"
    <3>1. mSendingSize = Listed /\ mSendingSize \in Int
      BY <2>2 DEF SizeInv, Counted, SendInv, TypeOK, CounterTypes
    <3> QED BY <2>2, <3>1 DEF SizeAccounting, Listed
  <2> QED BY <2>1, <2>2
<1> QED BY <1>1, <1>2, SizeInvInit, SendSlot, BuffersOwned, PTL DEF Spec

-----------------------------------------------------------------------------
(***************************************************************************)
(* Proofs about the receiving and closing side of TcpSession when one      *)
(* thread runs the io_context, for any number of callers, messages and     *)
(* calls.  With two such threads the theorems are false: mRecvPosted and   *)
(* the closed handler have no lock of their own, they belong to the one    *)
(* thread that runs the handlers.                                          *)
(***************************************************************************)

Received(s) == \E i \in DOMAIN s : s[i].kind = "received"
OneReceived(s) ==
    \A i, j \in DOMAIN s : s[i].kind = "received" /\ s[j].kind = "received" => i = j

\* A receive is under way, or its completion is yet to be handled.
Outstanding == receives > 0 \/ Received(queue)

\* Where a thread outside the io_context may be: it only sends and posts.
CallerLabels == {"idle", "enqueue", "postHighWater", "tryFlush", "dispatchFlush"}
CallersOutside(w) == \A t \in Threads \ {w} : pc[t] \in CallerLabels /\ ret[t] = "idle"

\* mRecvPosted is what the thread w takes it for: a receive is outstanding.
\* It lags behind between async_receive and the assignment after it, and
\* between the completion's start and the assignment at its top.
RecvInv(w) ==
    /\ receives <= 1 /\ OneReceived(queue)
    /\ receives = 1 => ~Received(queue)
    /\ pc[w] = "received" => ~Outstanding
    /\ pc[w] \in {"arm", "armed"} => ~mRecvPosted
    /\ pc[w] = "armed" => Outstanding
    /\ pc[w] # "armed" /\ Outstanding => mRecvPosted
    /\ mRecvPosted => Outstanding \/ pc[w] = "received"

\* The socket is closed once, and from then on the data handler is gone, or
\* w is about to drop it, or an exception kept w from doing so.
CloseInv(w) ==
    /\ closedCalls <= 1
    /\ open => closedCalls = 0
    /\ pc[w] = "close" => open
    /\ pc[w] = "callClosed" => ~open /\ closedCalls = 0
    /\ ~open => \/ ~mDataHandler \/ swallowed # {}
                \/ pc[w] \in {"callClosed", "clearHandlers"}

OneIoInv(w) == TypeOK /\ CallersOutside(w) /\ RecvInv(w) /\ CloseInv(w)

\* The labels these invariants look at.
Watched == {"received", "arm", "armed", "close", "callClosed", "clearHandlers"}

\* A step that changes nothing the invariants look at.
Calm(w) ==
    /\ receives' = receives /\ mRecvPosted' = mRecvPosted /\ open' = open
    /\ closedCalls' = closedCalls /\ mDataHandler' = mDataHandler /\ swallowed' = swallowed
    /\ Received(queue') <=> Received(queue)
    /\ OneReceived(queue) => OneReceived(queue')
    /\ pc'[w] = pc[w] \/ (pc[w] \notin Watched /\ pc'[w] \notin Watched)

----------------------------------------------------------------------------
(* Completions in the queue. *)

\* Queueing another handler is no receive completion.
LEMMA PostedOther ==
    ASSUME queue \in Seq(Handlers), NEW h \in Handlers, Post(h), h.kind # "received"
    PROVE  /\ Received(queue') <=> Received(queue)
           /\ OneReceived(queue) => OneReceived(queue')
<1>1. /\ Len(queue) \in Nat /\ DOMAIN queue = 1..Len(queue)
      /\ DOMAIN queue' = 1..Len(queue) + 1 /\ queue'[Len(queue) + 1] = h
      /\ \A i \in 1..Len(queue) : queue'[i] = queue[i]
  BY DEF Post
<1> QED
  BY <1>1, SMT DEF Received, OneReceived

\* The completion of the only receive becomes the only one queued.
LEMMA PostedReceived ==
    ASSUME queue \in Seq(Handlers), NEW h \in Handlers, Post(h), h.kind = "received",
           ~Received(queue)
    PROVE  Received(queue') /\ OneReceived(queue')
<1>1. /\ Len(queue) \in Nat /\ DOMAIN queue = 1..Len(queue)
      /\ DOMAIN queue' = 1..Len(queue) + 1 /\ queue'[Len(queue) + 1] = h
      /\ \A i \in 1..Len(queue) : queue'[i] = queue[i]
  BY DEF Post
<1> QED
  BY <1>1, SMT DEF Received, OneReceived

\* Taking the first handler leaves no second receive completion behind.
LEMMA TookFirst ==
    ASSUME queue \in Seq(Handlers), queue # <<>>, OneReceived(queue)
    PROVE  /\ OneReceived(Tail(queue))
           /\ Head(queue).kind = "received" => Received(queue) /\ ~Received(Tail(queue))
           /\ Head(queue).kind # "received" => (Received(Tail(queue)) <=> Received(queue))
<1> DEFINE r == Tail(queue)
<1>1. /\ Len(queue) \in Nat /\ Len(queue) > 0 /\ DOMAIN queue = 1..Len(queue)
      /\ DOMAIN r = 1..(Len(queue) - 1) /\ Head(queue) = queue[1]
      /\ \A i \in 1..(Len(queue) - 1) : r[i] = queue[i + 1]
  OBVIOUS
<1> HIDE DEF r
<1>2. OneReceived(r)
  BY <1>1, SMT DEF OneReceived
<1>3. ASSUME Head(queue).kind = "received" PROVE Received(queue) /\ ~Received(r)
  <2>1. 1 \in DOMAIN queue /\ queue[1].kind = "received"
    BY <1>1, <1>3
  <2>2. ASSUME NEW j \in DOMAIN r, r[j].kind = "received" PROVE FALSE
    <3>1. j + 1 \in DOMAIN queue /\ queue[j + 1].kind = "received" /\ j + 1 # 1
      BY <1>1, <2>2
    <3> QED
      BY <2>1, <3>1 DEF OneReceived
  <2> QED
    BY <2>1, <2>2 DEF Received
<1>4. ASSUME Head(queue).kind # "received" PROVE Received(r) <=> Received(queue)
  <2>1. ASSUME NEW i \in DOMAIN queue, queue[i].kind = "received" PROVE Received(r)
    <3>1. i - 1 \in DOMAIN r /\ r[i - 1] = queue[i]
      BY <1>1, <1>4, <2>1, SMT
    <3> QED
      BY <2>1, <3>1 DEF Received
  <2>2. ASSUME NEW i \in DOMAIN r, r[i].kind = "received" PROVE Received(queue)
    <3>1. i + 1 \in DOMAIN queue /\ r[i] = queue[i + 1]
      BY <1>1, SMT
    <3> QED
      BY <2>2, <3>1 DEF Received
  <2> QED
    BY <2>1, <2>2 DEF Received
<1> QED
  BY <1>2, <1>3, <1>4 DEF r

\* A close turns the receive under way, if there is one, into a completion.
LEMMA AbortedReceived ==
    ASSUME TypeOK, receives <= 1, OneReceived(queue), receives = 1 => ~Received(queue)
    PROVE  /\ OneReceived(queue \o Aborted)
           /\ Received(queue \o Aborted) <=> Received(queue) \/ receives = 1
<1> DEFINE n == Len(queue)
           k == Len(writes)
           q == queue \o Aborted
<1>0. /\ queue \in Seq(Handlers) /\ writes \in Seq(WriteOps) /\ n \in Nat /\ k \in Nat
      /\ receives \in {0, 1} /\ DOMAIN queue = 1..n
  BY DEF TypeOK, ListTypes, CounterTypes
<1>1. /\ Aborted \in Seq(Handlers) /\ Len(Aborted) = k + receives
      /\ \A i \in 1..k : Aborted[i].kind = "written"
      /\ \A i \in (k + 1)..(k + receives) : Aborted[i].kind = "received"
  <2> DEFINE a == [i \in 1..k |-> Handler("written", "error", writes[i].n)]
             b == [i \in 1..receives |-> Handler("received", "error", 0)]
  <2>1. \A i \in 1..k : Handler("written", "error", writes[i].n) \in Handlers
                        /\ Handler("written", "error", writes[i].n).kind = "written"
    <3>1. ASSUME NEW i \in 1..k PROVE writes[i].n \in Nat
      <4>1. writes[i] \in WriteOps
        BY <1>0
      <4> QED
        BY <4>1 DEF WriteOps
    <3> QED
      BY <3>1, HandlerType DEF Kinds, Results, Handler
  <2>2. Handler("received", "error", 0) \in Handlers /\ Handler("received", "error", 0).kind = "received"
    BY HandlerType DEF Kinds, Results, Handler
  <2>3. a \in Seq(Handlers) /\ Len(a) = k /\ \A i \in 1..k : a[i].kind = "written"
    <3> HIDE DEF k
    <3> QED
      BY <1>0, <2>1
  <2>4. b \in Seq(Handlers) /\ Len(b) = receives /\ \A i \in 1..receives : b[i].kind = "received"
    BY <1>0, <2>2
  <2>5. Aborted = a \o b
    BY DEF Aborted
  <2> HIDE DEF a, b, k
  <2>6. /\ a \o b \in Seq(Handlers) /\ Len(a \o b) = k + receives
        /\ \A i \in 1..(k + receives) : (a \o b)[i] = IF i <= k THEN a[i] ELSE b[i - k]
    <3>1. /\ a \in Seq(Handlers) /\ Len(a) = k
          /\ b \in Seq(Handlers) /\ Len(b) = receives
      BY <2>3, <2>4
    <3> QED
      BY ONLY <3>1, ConcatProperties
  <2>7. \A i \in 1..k : (a \o b)[i].kind = "written"
    BY <1>0, <2>3, <2>6, SMT
  <2>8. ASSUME NEW i \in (k + 1)..(k + receives) PROVE (a \o b)[i].kind = "received"
    <3>1. (a \o b)[i] = b[i - k] /\ i - k \in 1..receives
      BY <1>0, <2>6, SMT
    <3> QED
      BY <2>4, <3>1
  <2> QED
    BY <2>5, <2>6, <2>7, <2>8
<1> HIDE DEF n, k
<1>2. /\ DOMAIN q = 1..(n + k + receives)
      /\ \A i \in 1..n : q[i] = queue[i]
      /\ \A i \in (n + 1)..(n + k + receives) : q[i] = Aborted[i - n]
  <2> HIDE DEF Aborted
  <2>1. Len(queue) = n
    BY DEF n
  <2>2. queue \in Seq(Handlers) /\ Aborted \in Seq(Handlers)
    BY <1>0, <1>1
  <2>3. /\ queue \o Aborted \in Seq(Handlers) /\ Len(queue \o Aborted) = n + Len(Aborted)
        /\ \A i \in 1..(n + Len(Aborted)) :
              (queue \o Aborted)[i] = IF i <= n THEN queue[i] ELSE Aborted[i - n]
    BY ONLY <2>1, <2>2, ConcatProperties
  <2>4. n + Len(Aborted) = n + k + receives
    BY <1>0, <1>1
  <2>5. DOMAIN (queue \o Aborted) = 1..Len(queue \o Aborted)
    BY <2>3
  <2> QED
    BY <1>0, <2>3, <2>4, <2>5
<1> HIDE DEF q
<1>3. \A i \in DOMAIN q : q[i].kind = "received" <=>
        (i \in 1..n /\ queue[i].kind = "received") \/ i \in (n + k + 1)..(n + k + receives)
  <2> SUFFICES ASSUME NEW i \in DOMAIN q
               PROVE  q[i].kind = "received" <=>
                        (i \in 1..n /\ queue[i].kind = "received")
                        \/ i \in (n + k + 1)..(n + k + receives)
    OBVIOUS
  <2>1. CASE i \in 1..n
    BY <1>0, <1>2, <2>1, SMT
  <2>2. CASE i \in (n + 1)..(n + k)
    <3>1. q[i] = Aborted[i - n] /\ i - n \in 1..k
      BY <1>0, <1>2, <2>2, SMT
    <3> QED
      BY <1>0, <1>1, <2>2, <3>1, SMT
  <2>3. CASE i \in (n + k + 1)..(n + k + receives)
    <3>1. i \in (n + 1)..(n + k + receives) /\ i - n \in (k + 1)..(k + receives)
      BY <1>0, <2>3, SMT
    <3>2. ~(i \in 1..n)
      BY <1>0, <2>3, SMT
    <3> QED
      BY <1>1, <1>2, <2>3, <3>1, <3>2
  <2> QED
    BY <1>0, <1>2, <2>1, <2>2, <2>3, SMT
<1>4. OneReceived(q)
  BY <1>0, <1>2, <1>3, SMT DEF OneReceived, Received
<1>5. Received(q) => Received(queue) \/ receives = 1
  BY <1>0, <1>2, <1>3, SMT DEF Received
<1>6. Received(queue) => Received(q)
  BY <1>0, <1>2, <1>3, SMT DEF Received
<1>7. ASSUME receives = 1 PROVE Received(q)
  <2>1. n + k + 1 \in DOMAIN q /\ n + k + 1 \in (n + k + 1)..(n + k + receives)
    BY <1>0, <1>2, <1>7, SMT
  <2> QED
    BY <1>3, <2>1 DEF Received
<1> QED
  BY <1>4, <1>5, <1>6, <1>7 DEF q

----------------------------------------------------------------------------
(* Every step keeps the invariant. *)

\* A calm step, one that leaves the receiving side alone, keeps the invariant.
LEMMA CalmKeeps ==
    ASSUME NEW w, OneIoInv(w), Calm(w), TypeOK', CallersOutside(w)'
    PROVE  OneIoInv(w)'
<1>1. RecvInv(w)'
  BY DEF OneIoInv, RecvInv, Calm, Outstanding, Watched
<1>2. CloseInv(w)'
  BY DEF OneIoInv, CloseInv, Calm, Watched
<1> QED
  BY <1>1, <1>2 DEF OneIoInv

\* A thread outside the io_context stays where it only sends and posts.
LEMMA CallersStep ==
    ASSUME NEW w, IoThreads = {w}, TypeOK, CallersOutside(w), [Next]_vars
    PROVE  CallersOutside(w)'
<1> USE ThreadsAssumption DEF Threads
<1>0. /\ DOMAIN pc = Threads /\ DOMAIN ret = Threads
      /\ \A t \in Threads \ {w} : t \notin IoThreads /\ pc[t] \in CallerLabels /\ ret[t] = "idle"
  BY DEF TypeOK, ThreadTypes, CallersOutside
<1> SUFFICES ASSUME NEW t \in Threads \ {w}
             PROVE  pc'[t] \in CallerLabels /\ ret'[t] = "idle"
  BY DEF CallersOutside
<1> USE DEF Goto, Return, Call, local
<1>1. CASE UNCHANGED vars
  BY <1>0, <1>1 DEF vars
<1>2. ASSUME NEW u \in Threads, NEW m \in Msgs, Send(u, m)
      PROVE  pc'[t] \in CallerLabels /\ ret'[t] = "idle"
  BY <1>0, <1>2 DEF Send, InUserCode, CallerLabels
<1>3. ASSUME NEW u \in Threads, NEW kind \in Operations, Operation(u, kind)
      PROVE  pc'[t] \in CallerLabels /\ ret'[t] = "idle"
  BY <1>0, <1>3 DEF Operation, Dispatch
<1>4. ASSUME NEW u \in Threads, Step(u)
      PROVE  pc'[t] \in CallerLabels /\ ret'[t] = "idle"
  <2>1. CASE u # t
    <3>1. pc'[t] = pc[t] /\ ret' = ret
      <4>1. CASE \/ Enqueue(u) \/ PostHighWater(u) \/ TryFlush(u) \/ DispatchFlush(u)
                 \/ Flush(u) \/ SendCallbacks(u) \/ Release(u)
        BY <1>0, <2>1, <4>1 DEF Enqueue, Enqueued, PostHighWater, TryFlush, DispatchFlush,
                                Flush, SendCallbacks, Release
      <4>2. CASE OnRecvCompleted(u) \/ ArmCheck(u) \/ Arm(u) \/ Armed(u)
        BY <1>0, <2>1, <4>2 DEF OnRecvCompleted, ArmCheck, Arm, Armed
      <4>3. CASE \/ IsOpen(u) \/ CloseSocket(u) \/ CallClosedHandler(u)
                 \/ ClearHandlers(u) \/ Shutdown(u) \/ SetHighWater(u)
        BY <1>0, <2>1, <4>3 DEF IsOpen, CloseSocket, CallClosedHandler, Swallow,
                                ClearHandlers, Shutdown, SetHighWater
      <4> QED
        BY <1>4, <4>1, <4>2, <4>3 DEF Step
    <3> QED
      BY <1>0, <3>1
  <2>2. CASE u = t
    <3>1. CASE Enqueue(u) \/ PostHighWater(u)
      BY <1>0, <2>2, <3>1 DEF Enqueue, Enqueued, PostHighWater, CallerLabels
    <3>2. CASE TryFlush(u)
      BY <1>0, <2>2, <3>2 DEF TryFlush, CallerLabels
    <3>3. CASE DispatchFlush(u)
      BY <1>0, <2>2, <3>3 DEF DispatchFlush, CallerLabels
    <3>4. ~(\/ Flush(u) \/ SendCallbacks(u) \/ Release(u)
            \/ OnRecvCompleted(u) \/ ArmCheck(u) \/ Arm(u) \/ Armed(u))
      BY <1>0, <2>2 DEF Flush, SendCallbacks, Release, OnRecvCompleted, ArmCheck, Arm,
                        Armed, CallerLabels
    <3>5. ~(\/ IsOpen(u) \/ CloseSocket(u) \/ CallClosedHandler(u)
            \/ ClearHandlers(u) \/ Shutdown(u) \/ SetHighWater(u))
      BY <1>0, <2>2 DEF IsOpen, CloseSocket, CallClosedHandler, ClearHandlers, Shutdown,
                        SetHighWater, CallerLabels
    <3> QED
      BY <1>4, <3>1, <3>2, <3>3, <3>4, <3>5 DEF Step
  <2> QED
    BY <2>1, <2>2
<1>5. ASSUME NEW u \in Threads, UserReturn(u) \/ Run(u)
      PROVE  pc'[t] \in CallerLabels /\ ret'[t] = "idle"
  BY <1>0, <1>5 DEF UserReturn, Run
<1>6. CASE WriteProgress \/ ReceiveEnds
  BY <1>0, <1>6 DEF WriteProgress, Transmit, WriteEnds, ReceiveEnds
<1> QED
  BY <1>1, <1>2, <1>3, <1>4, <1>5, <1>6 DEF Next, UserCall

\* Calls from user code only post, or start an operation that is not watched.
LEMMA UserCallCalm ==
    ASSUME NEW w, IoThreads = {w}, OneIoInv(w), NEW t \in Threads, UserCall(t)
    PROVE  Calm(w)
<1>0. /\ TypeOK /\ queue \in Seq(Handlers) /\ pc \in [Threads -> Labels] /\ w \in Threads
      /\ pc[t] \in CallerLabels \cup UserLabels
  BY DEF OneIoInv, TypeOK, ListTypes, ThreadTypes, Threads, UserCall, Send, Operation, InUserCode,
         CallerLabels
<1> USE DEF Goto, Call, local, hist, recv, hands, sock, send, mark
<1>1. ASSUME NEW m \in Msgs, Send(t, m) PROVE Calm(w)
  BY <1>0, <1>1 DEF Send, Calm, CallerLabels, UserLabels, Watched
<1>2. ASSUME NEW kind \in Operations, Operation(t, kind) PROVE Calm(w)
  <2> DEFINE h == Handler(kind, "none", 0)
  <2>1. h \in Handlers /\ h.kind # "received" /\ Entry(h) \notin Watched
    <3>1. h \in Handlers
      BY HandlerType DEF Kinds, Results
    <3> QED
      BY <3>1 DEF Handler, Operations, Entry, Watched
  <2>2. CASE t \in IoThreads
    <3>1. t = w /\ queue' = queue /\ pc' = [pc EXCEPT ![w] = Entry(h)]
      BY <1>2, <2>2 DEF Operation, Dispatch
    <3>2. pc'[w] \notin Watched /\ pc[w] \notin Watched
      BY <1>0, <2>1, <3>1 DEF CallerLabels, UserLabels, Watched
    <3> QED
      BY <1>2, <3>1, <3>2 DEF Operation, Calm
  <2>3. CASE t \notin IoThreads
    <3>1. Post(h) /\ pc' = pc
      BY <1>2, <2>3 DEF Operation, Dispatch
    <3>2. /\ Received(queue') <=> Received(queue)
          /\ OneReceived(queue) => OneReceived(queue')
      BY <1>0, <2>1, <3>1, PostedOther
    <3> QED
      BY <1>2, <3>1, <3>2 DEF Operation, Calm
  <2> QED
    BY <2>2, <2>3
<1> QED
  BY <1>1, <1>2 DEF UserCall

\* The sending side does not touch the receiving side.
LEMMA SendStepsCalm ==
    ASSUME NEW w, OneIoInv(w), w \in Threads, NEW t \in Threads,
           \/ Enqueue(t) \/ PostHighWater(t) \/ TryFlush(t) \/ DispatchFlush(t)
           \/ Flush(t) \/ SendCallbacks(t) \/ Release(t) \/ Shutdown(t)
           \/ SetHighWater(t)
    PROVE  Calm(w)
<1>0. /\ queue \in Seq(Handlers) /\ pc \in [Threads -> Labels]
      /\ ret[t] \in UserLabels \cup {"idle"} /\ ret[t] \notin Watched
  BY DEF OneIoInv, TypeOK, ListTypes, ThreadTypes, UserLabels, Watched
<1>1. /\ Handler("highWater", "none", 0) \in Handlers /\ Handler("highWater", "none", 0).kind # "received"
      /\ Handler("flush", "none", 0) \in Handlers /\ Handler("flush", "none", 0).kind # "received"
      /\ Handler("written", "error", 0) \in Handlers /\ Handler("written", "error", 0).kind # "received"
  BY HandlerType DEF Kinds, Results, Handler
<1>2. /\ receives' = receives /\ mRecvPosted' = mRecvPosted /\ open' = open
      /\ closedCalls' = closedCalls /\ mDataHandler' = mDataHandler /\ swallowed' = swallowed
  BY DEF Enqueue, PostHighWater, TryFlush, DispatchFlush, Flush, SendCallbacks, Release,
         Shutdown, SetHighWater, sock, recv, hands, hist
<1>3. pc'[w] = pc[w] \/ (pc[w] \notin Watched /\ pc'[w] \notin Watched)
  BY <1>0 DEF Enqueue, Enqueued, PostHighWater, TryFlush, DispatchFlush, Flush,
              SendCallbacks, Release, Shutdown, SetHighWater, Goto, Return, Watched
<1>4. /\ Received(queue') <=> Received(queue)
      /\ OneReceived(queue) => OneReceived(queue')
  <2>1. \/ queue' = queue \/ Post(Handler("highWater", "none", 0))
        \/ Post(Handler("flush", "none", 0)) \/ Post(Handler("written", "error", 0))
    BY DEF Enqueue, PostHighWater, TryFlush, DispatchFlush, Flush, SendCallbacks, Release,
           Shutdown, SetHighWater
  <2> QED
    BY <1>0, <1>1, <2>1, PostedOther
<1> QED
  BY <1>2, <1>3, <1>4 DEF Calm

\* So does what becomes of a write, and what user code does when it returns.
LEMMA OthersCalm ==
    ASSUME NEW w, OneIoInv(w), w \in Threads, WriteProgress \/ \E t \in Threads : UserReturn(t)
    PROVE  Calm(w)
<1>0. queue \in Seq(Handlers) /\ pc \in [Threads -> Labels] /\ writes \in Seq(WriteOps)
  BY DEF OneIoInv, TypeOK, ListTypes, ThreadTypes
<1>1. ASSUME NEW t \in Threads, UserReturn(t) PROVE Calm(w)
  BY <1>0, <1>1 DEF UserReturn, Calm, Goto, Watched, sock, hist
<1>2. ASSUME NEW i \in DOMAIN writes, Transmit(i) PROVE Calm(w)
  BY <1>2 DEF Transmit, Calm, recv, hands
<1>3. ASSUME NEW i \in DOMAIN writes, WriteEnds(i) PROVE Calm(w)
  <2> DEFINE h == Handler("written", IF writes[i].todo = <<>> THEN "ok" ELSE "error", writes[i].n)
  <2>0. writes[i] \in WriteOps
    BY <1>0, <1>3
  <2>1. writes[i].n \in Nat
    BY <2>0 DEF WriteOps
  <2>2. h \in Handlers /\ h.kind # "received"
    BY <2>1, HandlerType DEF Kinds, Results, Handler
  <2>3. Post(h)
    BY <1>3 DEF WriteEnds
  <2> HIDE DEF h
  <2>4. /\ Received(queue') <=> Received(queue)
        /\ OneReceived(queue) => OneReceived(queue')
    BY <1>0, <2>2, <2>3, PostedOther
  <2> QED
    BY <1>3, <2>4 DEF WriteEnds, Calm, recv, hands, hist
<1> QED
  BY <1>1, <1>2, <1>3 DEF WriteProgress

\* The io thread takes a handler: a receive completion stops being queued and is being handled.
LEMMA RunStep ==
    ASSUME NEW w, IoThreads = {w}, OneIoInv(w), NEW t \in Threads, Run(t)
    PROVE  RecvInv(w)' /\ CloseInv(w)'
<1> DEFINE h == Head(queue)
<1>1. /\ t = w /\ w \in Threads /\ pc[w] = "idle" /\ queue # <<>> /\ queue' = Tail(queue)
      /\ queue \in Seq(Handlers) /\ pc \in [Threads -> Labels]
      /\ receives' = receives /\ mRecvPosted' = mRecvPosted /\ open' = open
      /\ closedCalls' = closedCalls /\ mDataHandler' = mDataHandler /\ swallowed' = swallowed
      /\ pc'[w] = Started(h)
  BY DEF Run, OneIoInv, TypeOK, ListTypes, ThreadTypes, Goto, sock, recv, hands, hist
<1>2. h \in Handlers
  BY <1>1
<1>3. /\ Started(h) \in {"received"} \cup (Labels \ Watched)
      /\ h.kind = "received" <=> Started(h) = "received"
  BY <1>2 DEF Started, Entry, Handlers, Kinds, Operations, Labels, UserLabels, Watched
<1>4. receives \in Nat
  BY DEF OneIoInv, TypeOK, CounterTypes
<1> HIDE DEF h
<1>5. /\ OneReceived(queue')
      /\ h.kind = "received" => Received(queue) /\ ~Received(queue')
      /\ h.kind # "received" => (Received(queue') <=> Received(queue))
  BY <1>1, TookFirst DEF OneIoInv, RecvInv, h
<1>6. RecvInv(w)'
  BY <1>1, <1>3, <1>4, <1>5 DEF OneIoInv, RecvInv, Outstanding, Watched
<1>7. CloseInv(w)'
  BY <1>1, <1>3 DEF OneIoInv, CloseInv, Watched
<1> QED
  BY <1>6, <1>7

\* A receive that ends queues its completion: the one outstanding stays one.
LEMMA ReceiveEndsStep ==
    ASSUME NEW w, OneIoInv(w), ReceiveEnds
    PROVE  RecvInv(w)' /\ CloseInv(w)'
<1>1. /\ receives > 0 /\ receives' = receives - 1 /\ pc' = pc /\ mRecvPosted' = mRecvPosted
      /\ open' = open /\ closedCalls' = closedCalls /\ mDataHandler' = mDataHandler
      /\ swallowed' = swallowed
  BY DEF ReceiveEnds, recv, hands, hist
<1>2. PICK res \in {"data", "eof", "error"} : Post(Handler("received", res, 0))
  BY DEF ReceiveEnds
<1>3. Handler("received", res, 0) \in Handlers /\ Handler("received", res, 0).kind = "received"
  BY HandlerType DEF Kinds, Results, Handler
<1>4. /\ receives \in Nat /\ receives <= 1 /\ queue \in Seq(Handlers) /\ (receives = 1 => ~Received(queue))
  BY DEF OneIoInv, TypeOK, CounterTypes, ListTypes, RecvInv
<1>5. receives = 1 /\ receives' = 0
  BY <1>1, <1>4
<1>6. Received(queue') /\ OneReceived(queue')
  BY <1>2, <1>3, <1>4, <1>5, PostedReceived
<1>7. RecvInv(w)'
  BY <1>1, <1>5, <1>6 DEF OneIoInv, RecvInv, Outstanding
<1> QED
  BY <1>1, <1>7 DEF OneIoInv, CloseInv

\* The receive loop and the close run on w alone.
LEMMA RecvStepsOfW ==
    ASSUME NEW w, IoThreads = {w}, OneIoInv(w), NEW t \in Threads,
           OnRecvCompleted(t) \/ ArmCheck(t) \/ Arm(t) \/ Armed(t)
    PROVE  RecvInv(w)' /\ CloseInv(w)'
<1>0. /\ w \in Threads /\ queue \in Seq(Handlers) /\ pc \in [Threads -> Labels] /\ receives \in Nat
      /\ \A u \in Threads : ret[u] \in UserLabels \cup {"idle"}
  BY DEF OneIoInv, TypeOK, ListTypes, ThreadTypes, CounterTypes, Threads
<1>1. t = w
  BY DEF OneIoInv, CallersOutside, CallerLabels, OnRecvCompleted, ArmCheck, Arm, Armed
<1>2. ret[w] \notin Watched
  BY <1>0 DEF UserLabels, Watched
<1> USE DEF Goto, Return
<1>3. CASE OnRecvCompleted(w)
  <2>1. /\ pc[w] = "received" /\ mRecvPosted' = FALSE /\ pc'[w] \notin Watched
        /\ queue' = queue /\ receives' = receives /\ open' = open
        /\ closedCalls' = closedCalls /\ mDataHandler' = mDataHandler /\ swallowed' = swallowed
    BY <1>0, <1>3 DEF OnRecvCompleted, Watched, sock, hands, hist
  <2> QED
    BY <2>1 DEF OneIoInv, RecvInv, CloseInv, Outstanding, Watched
<1>4. CASE ArmCheck(w)
  <2>1. /\ pc[w] = "armCheck" /\ mRecvPosted' = mRecvPosted
        /\ pc'[w] \notin Watched \/ (pc'[w] = "arm" /\ ~mRecvPosted)
        /\ queue' = queue /\ receives' = receives /\ open' = open
        /\ closedCalls' = closedCalls /\ mDataHandler' = mDataHandler /\ swallowed' = swallowed
    BY <1>0, <1>2, <1>4 DEF ArmCheck, Watched, sock, recv, hands, hist
  <2> QED
    BY <2>1 DEF OneIoInv, RecvInv, CloseInv, Outstanding, Watched
<1>5. CASE Armed(w)
  <2>1. /\ pc[w] = "armed" /\ mRecvPosted' = TRUE /\ pc'[w] \notin Watched
        /\ queue' = queue /\ receives' = receives /\ open' = open
        /\ closedCalls' = closedCalls /\ mDataHandler' = mDataHandler /\ swallowed' = swallowed
    BY <1>0, <1>2, <1>5 DEF Armed, Watched, sock, hands, hist
  <2> QED
    BY <2>1 DEF OneIoInv, RecvInv, CloseInv, Outstanding, Watched
<1>6. CASE Arm(w)
  <2>1. /\ pc[w] = "arm" /\ mRecvPosted' = mRecvPosted /\ open' = open
        /\ closedCalls' = closedCalls /\ mDataHandler' = mDataHandler /\ swallowed' = swallowed
    BY <1>6 DEF Arm, mark, recv, hands, hist
  <2>2. ~mRecvPosted /\ receives = 0 /\ ~Received(queue) /\ OneReceived(queue)
    BY <1>0, <2>1 DEF OneIoInv, RecvInv, Outstanding
  <2>3. CASE receives' = receives /\ queue' = queue /\ pc'[w] = ret[w]
    BY <1>2, <2>1, <2>2, <2>3 DEF OneIoInv, RecvInv, CloseInv, Outstanding, Watched
  <2>4. CASE receives' = receives + 1 /\ queue' = queue /\ pc'[w] = "armed"
    BY <2>1, <2>2, <2>4 DEF OneIoInv, RecvInv, CloseInv, Outstanding
  <2>5. CASE Post(Handler("received", "error", 0)) /\ receives' = receives /\ pc'[w] = "armed"
    <3>1. Handler("received", "error", 0) \in Handlers /\ Handler("received", "error", 0).kind = "received"
      BY HandlerType DEF Kinds, Results, Handler
    <3>2. Received(queue') /\ OneReceived(queue')
      BY <1>0, <2>2, <2>5, <3>1, PostedReceived
    <3> QED
      BY <2>1, <2>2, <2>5, <3>2 DEF OneIoInv, RecvInv, CloseInv, Outstanding
  <2> QED
    BY <1>0, <1>6, <2>3, <2>4, <2>5 DEF Arm
<1> QED
  BY <1>1, <1>3, <1>4, <1>5, <1>6

\* causeClosed runs on w alone: it cancels the receive, and drops the data
\* handler before it returns unless something threw.
LEMMA CloseStepsOfW ==
    ASSUME NEW w, IoThreads = {w}, OneIoInv(w), NEW t \in Threads,
           IsOpen(t) \/ CloseSocket(t) \/ CallClosedHandler(t) \/ ClearHandlers(t)
    PROVE  RecvInv(w)' /\ CloseInv(w)'
<1>0. /\ w \in Threads /\ queue \in Seq(Handlers) /\ pc \in [Threads -> Labels] /\ receives \in Nat
      /\ closedCalls \in Nat
      /\ \A u \in Threads : ret[u] \in UserLabels \cup {"idle"}
  BY DEF OneIoInv, TypeOK, ListTypes, ThreadTypes, CounterTypes, Threads
<1>1. t = w
  BY DEF OneIoInv, CallersOutside, CallerLabels, IsOpen, CloseSocket, CallClosedHandler, Swallow, ClearHandlers
<1>2. ret[w] \notin Watched
  BY <1>0 DEF UserLabels, Watched
<1> USE DEF Goto, Return
<1>3. CASE IsOpen(w)
  <2>1. /\ pc[w] = "isOpen" /\ mRecvPosted' = mRecvPosted /\ queue' = queue /\ receives' = receives
        /\ pc'[w] \notin Watched \/ (pc'[w] = "close" /\ open)
        /\ open' = open /\ closedCalls' = closedCalls /\ mDataHandler' = mDataHandler
        /\ swallowed' = swallowed
    BY <1>0, <1>2, <1>3 DEF IsOpen, Watched, sock, recv, hands, hist
  <2> QED
    BY <2>1 DEF OneIoInv, RecvInv, CloseInv, Outstanding, Watched
<1>4. CASE CloseSocket(w)
  <2>1. /\ pc[w] = "close" /\ mRecvPosted' = mRecvPosted
        /\ \/ pc'[w] = "callClosed" /\ swallowed' = swallowed
           \/ pc'[w] = ret[w] /\ swallowed' = swallowed \cup {"close"}
        /\ queue' = queue \o Aborted /\ receives' = 0 /\ open' = FALSE
        /\ closedCalls' = closedCalls /\ mDataHandler' = mDataHandler
    BY <1>0, <1>4 DEF CloseSocket, Swallow, recv, hands, hist
  <2>2. OneReceived(queue') /\ (Received(queue') <=> Received(queue) \/ receives = 1)
    BY <2>1, AbortedReceived DEF OneIoInv, RecvInv
  <2>3. Outstanding' <=> Outstanding
    BY <1>0, <2>1, <2>2 DEF Outstanding, OneIoInv, RecvInv
  <2>4. RecvInv(w)'
    BY <1>2, <2>1, <2>2, <2>3 DEF OneIoInv, RecvInv, Watched
  <2>5. CloseInv(w)'
    BY <1>2, <2>1 DEF OneIoInv, CloseInv, Watched
  <2> QED
    BY <2>4, <2>5
<1>5. CASE CallClosedHandler(w)
  <2>1. /\ pc[w] = "callClosed" /\ mRecvPosted' = mRecvPosted
        /\ \/ pc'[w] = "clearHandlers" /\ swallowed' = swallowed
           \/ pc'[w] = ret[w] /\ swallowed' = swallowed \cup {"handler"}
        /\ queue' = queue /\ receives' = receives /\ open' = open /\ mDataHandler' = mDataHandler
        /\ closedCalls' = closedCalls \/ closedCalls' = closedCalls + 1
    BY <1>0, <1>5 DEF CallClosedHandler, Swallow, sock, recv, hands
  <2> QED
    BY <1>2, <2>1 DEF OneIoInv, RecvInv, CloseInv, Outstanding, Watched
<1>6. CASE ClearHandlers(w)
  <2>1. /\ pc[w] = "clearHandlers" /\ pc'[w] \notin Watched /\ mRecvPosted' = mRecvPosted
        /\ queue' = queue /\ receives' = receives /\ open' = open /\ mDataHandler' = FALSE
        /\ closedCalls' = closedCalls
    BY <1>0, <1>2, <1>6 DEF ClearHandlers, sock, recv, hist
  <2> QED
    BY <2>1 DEF OneIoInv, RecvInv, CloseInv, Outstanding, Watched
<1> QED
  BY <1>1, <1>3, <1>4, <1>5, <1>6

\* Every step of the session with one io thread keeps the invariant.
LEMMA OneIoStep ==
    ASSUME NEW w, IoThreads = {w}, OneIoInv(w), [Next]_vars
    PROVE  OneIoInv(w)'
<1>0. TypeOK /\ CallersOutside(w) /\ w \in Threads
  BY DEF OneIoInv, Threads
<1>1. TypeOK' /\ CallersOutside(w)'
  BY <1>0, FlagStep, CounterStep, ListStep, ThreadStep, CallersStep DEF TypeOK
<1>2. CASE UNCHANGED vars
  <2>1. Calm(w)
    BY <1>2 DEF vars, Calm, sock, recv, hands, hist
  <2> QED
    BY <1>1, <2>1, CalmKeeps
<1>3. ASSUME NEW t \in Threads, UserCall(t) PROVE OneIoInv(w)'
  BY <1>1, <1>3, UserCallCalm, CalmKeeps
<1>4. ASSUME NEW t \in Threads, Step(t) PROVE OneIoInv(w)'
  <2>1. CASE \/ Enqueue(t) \/ PostHighWater(t) \/ TryFlush(t) \/ DispatchFlush(t)
             \/ Flush(t) \/ SendCallbacks(t) \/ Release(t) \/ Shutdown(t)
             \/ SetHighWater(t)
    BY <1>0, <1>1, <2>1, SendStepsCalm, CalmKeeps
  <2>2. CASE OnRecvCompleted(t) \/ ArmCheck(t) \/ Arm(t) \/ Armed(t)
    BY <1>1, <2>2, RecvStepsOfW DEF OneIoInv
  <2>3. CASE IsOpen(t) \/ CloseSocket(t) \/ CallClosedHandler(t) \/ ClearHandlers(t)
    BY <1>1, <2>3, CloseStepsOfW DEF OneIoInv
  <2> QED
    BY <1>4, <2>1, <2>2, <2>3 DEF Step
<1>5. CASE WriteProgress \/ \E t \in Threads : UserReturn(t)
  BY <1>0, <1>1, <1>5, OthersCalm, CalmKeeps
<1>6. ASSUME NEW t \in Threads, Run(t) PROVE OneIoInv(w)'
  BY <1>1, <1>6, RunStep DEF OneIoInv
<1>7. CASE ReceiveEnds
  BY <1>1, <1>7, ReceiveEndsStep DEF OneIoInv
<1> QED
  BY <1>2, <1>3, <1>4, <1>5, <1>6, <1>7 DEF Next

\* A new session has no receive outstanding and its data handler in place.
LEMMA OneIoInit == ASSUME NEW w, IoThreads = {w} PROVE Init => OneIoInv(w)
<1> SUFFICES ASSUME Init PROVE OneIoInv(w)
  OBVIOUS
<1>1. TypeOK
  BY TypeInit
<1>2. /\ pc = [t \in Threads |-> "idle"] /\ ret = [t \in Threads |-> "idle"] /\ queue = <<>>
      /\ receives = 0 /\ ~mRecvPosted /\ open /\ closedCalls = 0 /\ w \in Threads
  BY DEF Init, Threads
<1>3. ~Received(queue) /\ OneReceived(queue)
  BY <1>2 DEF Received, OneReceived
<1>4. RecvInv(w) /\ CloseInv(w)
  BY <1>2, <1>3 DEF RecvInv, CloseInv, Outstanding
<1>5. CallersOutside(w)
  BY <1>2 DEF CallersOutside, CallerLabels
<1> QED
  BY <1>1, <1>4, <1>5 DEF OneIoInv

----------------------------------------------------------------------------
(* Theorems. *)

\* With one io thread the invariant of the receive loop and of the close holds.
THEOREM OneIoInvariance == ASSUME NEW w, IoThreads = {w} PROVE Spec => []OneIoInv(w)
<1>1. Init => OneIoInv(w)
  BY OneIoInit
<1>2. OneIoInv(w) /\ [Next]_vars => OneIoInv(w)'
  BY OneIoStep
<1> QED
  BY <1>1, <1>2, PTL DEF Spec

\* With one io thread at most one async_receive has the receive buffer, or its
\* completion waits: startRecv called any number of times, from any thread,
\* starts no second one (TcpSession.hpp:229-265).
THEOREM OneReceive == ASSUME NEW w, IoThreads = {w} PROVE Spec => []OneReceiveAtATime
<1>1. OneIoInv(w) => OneReceiveAtATime
  <2> SUFFICES ASSUME OneIoInv(w) PROVE OneReceiveAtATime
    OBVIOUS
  <2>1. receives \in {0, 1} /\ OneReceived(queue) /\ (receives = 1 => ~Received(queue))
    BY DEF OneIoInv, TypeOK, CounterTypes, RecvInv
  <2>2. CASE ReceivedHandlers = {}
    <3>1. Cardinality(ReceivedHandlers) = 0
      BY <2>2, FS_EmptySet
    <3> QED
      BY <2>1, <3>1 DEF OneReceiveAtATime
  <2>3. CASE ReceivedHandlers # {}
    <3>1. PICK i \in ReceivedHandlers : TRUE
      BY <2>3
    <3>2. ReceivedHandlers = {i}
      BY <2>1, <3>1 DEF ReceivedHandlers, OneReceived
    <3>3. Cardinality(ReceivedHandlers) = 1
      BY <3>2, FS_Singleton
    <3>4. receives = 0
      BY <2>1, <3>1 DEF ReceivedHandlers, Received
    <3> QED
      BY <3>3, <3>4 DEF OneReceiveAtATime
  <2> QED
    BY <2>2, <2>3
<1> QED
  BY <1>1, OneIoInvariance, PTL

\* With one io thread mRecvPosted is never stale: whenever it is set a
\* completion will come and reset it (TcpSession.hpp:257, 269).
THEOREM RecvFlagAlwaysFresh == ASSUME NEW w, IoThreads = {w} PROVE Spec => []RecvFlagFresh
<1>1. OneIoInv(w) => RecvFlagFresh
  BY DEF OneIoInv, RecvInv, RecvFlagFresh, Outstanding, Received, ReceivedHandlers
<1> QED
  BY <1>1, OneIoInvariance, PTL

\* With one io thread the closed handler is called once, whatever closes the
\* session, however often, and even if it throws (TcpSession.hpp:414-440).
THEOREM ClosedOnlyOnce == ASSUME NEW w, IoThreads = {w} PROVE Spec => []ClosedOnce
<1>1. OneIoInv(w) => ClosedOnce
  BY DEF OneIoInv, CloseInv, ClosedOnce
<1> QED
  BY <1>1, OneIoInvariance, PTL

\* With one io thread data received before a close and handled after it
\* reaches the data handler only if mSocket.close() or the closed handler
\* threw: else the same thread dropped the handler (TcpSession.hpp:416-434).
THEOREM NoLateData == ASSUME NEW w, IoThreads = {w} PROVE Spec => NoDataAfterClose
<1> DEFINE Late == \A t \in IoThreads : pc[t] = "received" /\ pc'[t] = "inData" =>
                              open \/ swallowed # {}
<1>1. OneIoInv(w) /\ [Next]_vars => [Late]_vars
  <2> SUFFICES ASSUME OneIoInv(w), Next, pc[w] = "received", pc'[w] = "inData"
               PROVE  open \/ swallowed # {}
    OBVIOUS
  <2>0. /\ w \in Threads /\ DOMAIN pc = Threads /\ \A t \in Threads \ {w} : pc[t] \in CallerLabels
        /\ pc'[w] # pc[w]
    BY DEF OneIoInv, CallersOutside, TypeOK, ThreadTypes, Threads
  <2>1. mDataHandler
    <3>1. ASSUME NEW t \in Threads, UserCall(t) PROVE FALSE
      BY <2>0, <3>1 DEF UserCall, Send, Operation, InUserCode, Dispatch, Call, Goto, UserLabels,
                        CallerLabels
    <3>2. ASSUME NEW t \in Threads, UserReturn(t) \/ Run(t) PROVE FALSE
      BY <2>0, <3>2 DEF UserReturn, Run, Goto
    <3>3. ~(WriteProgress \/ ReceiveEnds)
      BY <2>0 DEF WriteProgress, Transmit, WriteEnds, ReceiveEnds
    <3>4. ASSUME NEW t \in Threads, Step(t) PROVE mDataHandler
      <4>1. t = w
        <5> USE <2>0 DEF Goto, Return
        <5>1. ASSUME t # w PROVE pc'[w] = pc[w]
          <6>1. CASE \/ Enqueue(t) \/ PostHighWater(t) \/ TryFlush(t) \/ DispatchFlush(t)
                     \/ Flush(t) \/ SendCallbacks(t) \/ Release(t)
            BY <5>1, <6>1 DEF Enqueue, Enqueued, PostHighWater, TryFlush, DispatchFlush,
                              Flush, SendCallbacks, Release
          <6>2. CASE OnRecvCompleted(t) \/ ArmCheck(t) \/ Arm(t) \/ Armed(t)
            BY <5>1, <6>2 DEF OnRecvCompleted, ArmCheck, Arm, Armed
          <6>3. CASE IsOpen(t) \/ CloseSocket(t) \/ CallClosedHandler(t) \/ ClearHandlers(t)
                     \/ Shutdown(t) \/ SetHighWater(t)
            BY <5>1, <6>3 DEF IsOpen, CloseSocket, CallClosedHandler, Swallow,
                              ClearHandlers, Shutdown, SetHighWater
          <6> QED
            BY <3>4, <6>1, <6>2, <6>3 DEF Step
        <5> QED
          BY <5>1
      <4>2. OnRecvCompleted(w)
        BY <3>4, <4>1 DEF Step, Enqueue, PostHighWater, TryFlush, DispatchFlush, Flush,
              SendCallbacks, Release, ArmCheck, Arm, Armed, IsOpen, CloseSocket,
              CallClosedHandler, ClearHandlers, Shutdown, SetHighWater
      <4> QED
        BY <2>0, <4>2 DEF OnRecvCompleted, Goto
    <3> QED
      BY <3>1, <3>2, <3>3, <3>4 DEF Next
  <2> QED
    BY <2>1 DEF OneIoInv, CloseInv
<1>2. Spec => [][Next]_vars
  BY PTL DEF Spec
<1> QED
  BY <1>1, <1>2, OneIoInvariance, PTL DEF NoDataAfterClose

=============================================================================
