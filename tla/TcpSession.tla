----------------------------- MODULE TcpSession -----------------------------
(***************************************************************************)
(* net/TcpSession.hpp: one TCP session shared by application threads       *)
(* (Callers) and by the threads that run its io_context (IoThreads).       *)
(*                                                                         *)
(* A step of a thread is one atomic piece of the code: a critical section  *)
(* under mSendGuard, one unsynchronised access to a shared member, or one  *)
(* call into asio.  User code runs on an io thread at UserLabels and may   *)
(* call the session from there, inline, as asio::dispatch does.            *)
(* The receive buffer is only a number of unread chunks here.              *)
(***************************************************************************)
EXTENDS Integers, Sequences, FiniteSets, SequencesExt

CONSTANTS
    Callers,       \* application threads, outside the io_context
    IoThreads,     \* threads in io_context::run()
    Msgs, NoMsg,   \* the messages sent, each naming one call of send
    Size,          \* SendableMsg::size of each message; none is empty
    HighWater,     \* the level setHighWater is called with
    Calls,         \* the operations other than send that the users call
    MaxUnread,     \* receive buffer capacity, in chunks
    MaxInputs      \* bound: calls other than send, and chunks received

ASSUME ThreadsAssumption == Callers \cap IoThreads = {}
ASSUME MsgsAssumption == NoMsg \notin Msgs /\ Size \in [Msgs -> Nat \ {0}]
ASSUME NatAssumption == HighWater \in Nat /\ MaxUnread \in Nat /\ MaxInputs \in Nat

VARIABLES
    open, sendShut,        \* mSocket.is_open(); its send side was shut down
    writes, receives,      \* async_writes and async_receives outstanding
    queue,                 \* handlers ready to run in the io_context, FIFO
    mSending, mPendingSendMsgList, mSendingSize,   \* under mSendGuard
    mSendingMsgList,       \* belongs to whoever set mSending
    mHighWaterCallback,    \* TRUE: not nullptr, as for the handlers below
    mRecvPosted, unread,
    mDataHandler, mClosedHandler, mEofHandler,
    pc, ret,               \* where a thread is, and where its call returns to
    msg, job, cb,          \* its locals: message sent, handler run, loop index
    accepted,              \* history: messages in the order send queued them
    wire, completed,       \* history: messages written, callbacks called
    closedCalls,           \* history: calls of the closed handler
    swallowed,             \* history: what threw in causeClosed, which
                           \* catches it: mSocket.close() or the handler
    alerted,               \* history: above the mark, and the user was told
    stale,                 \* history: the callback was withdrawn while a call
                           \* of it was queued, or about to be
    inputs                 \* how much of MaxInputs is used

sock  == <<open, sendShut, writes, receives>>
send  == <<mSending, mPendingSendMsgList, mSendingSize, mSendingMsgList>>
mark  == <<mHighWaterCallback, alerted, stale>>
recv  == <<mRecvPosted, unread>>
hands == <<mDataHandler, mClosedHandler, mEofHandler>>
local == <<ret, msg, job, cb>>
hist  == <<accepted, wire, completed, closedCalls, swallowed>>
vars  == <<sock, queue, send, mark, recv, hands, pc, local, hist, inputs>>

Threads == Callers \cup IoThreads

-----------------------------------------------------------------------------
(* The io_context. *)

Operations == {"startRecv", "close", "shutdown", "setHighWater", "withdraw", "functor"}
Kinds == Operations \cup {"flush", "written", "received", "highWater"}
Results == {"none", "ok", "data", "eof", "error"}
Handlers == [kind : Kinds, res : Results, n : Nat]

Handler(kind, res, n) == [kind |-> kind, res |-> res, n |-> n]

\* asio::post: the handler runs later, even when an io thread posts it.
Post(h) == queue' = Append(queue, h)

\* Mutant: a failed write is not noticed.
EntryIgnoresErrors(h) ==
    CASE h.kind = "close" -> "isOpen"
      [] h.kind = "written" -> IF h.res = "ok" THEN "callbacks" ELSE "idle"
      [] h.kind = "startRecv" -> "armCheck"
      [] h.kind \in {"highWater", "functor"} -> "inFunctor"
      [] OTHER -> h.kind

\* The label at which an io thread starts a handler.
Entry(h) ==
    CASE h.kind = "close" -> "isOpen"
      [] h.kind = "written" -> IF h.res = "ok" THEN "callbacks" ELSE "isOpen"
      [] h.kind = "startRecv" -> "armCheck"
      [] h.kind \in {"highWater", "functor"} -> "inFunctor"
      [] OTHER -> h.kind

\* The places where an io thread runs code of the user.
UserLabels == {"inData", "inCallback", "inEof", "inFunctor"}
Labels == UserLabels \cup
    {"idle", "enqueue", "postHighWater", "tryFlush", "dispatchFlush", "flush", "callbacks",
     "release", "received", "armCheck", "arm", "armed", "isOpen", "close", "callClosed",
      "clearHandlers", "shutdown", "setHighWater", "withdraw", "thrown"}

Goto(t, label) == pc' = [pc EXCEPT ![t] = label]
Return(t) == Goto(t, ret[t])

\* Who may call the session: an idle caller, or an io thread in a callback.
InUserCode(t) == IF t \in IoThreads THEN pc[t] \in UserLabels ELSE pc[t] = "idle"
Call(t, label) == Goto(t, label) /\ ret' = [ret EXCEPT ![t] = pc[t]]

\* Mutant: a caller does not dispatch, and runs the operation itself.
DispatchInline(t, h) == Call(t, Entry(h)) /\ UNCHANGED queue

\* asio::dispatch: inline when the thread runs the io_context, else posted.
Dispatch(t, h) ==
    IF t \in IoThreads THEN Call(t, Entry(h)) /\ UNCHANGED queue
                       ELSE Post(h) /\ UNCHANGED <<pc, ret>>

\* startRecv, close, shutdown, setHighWater, and a functor given to dispatch
\* or runAfter: each only dispatches.  On an io thread a functor is a plain
\* call, and nothing to model.
Operation(t, kind) ==
    /\ InUserCode(t) /\ inputs < MaxInputs
    /\ kind = "functor" => t \in Callers
    /\ inputs' = inputs + 1
    /\ Dispatch(t, Handler(kind, "none", 0))
    /\ UNCHANGED <<sock, send, mark, recv, hands, msg, job, cb, hist>>

\* A call of mHighWaterCallback is queued.
HighWaterQueued == \E i \in DOMAIN queue : queue[i].kind = "highWater"

\* Where a queued handler starts.  The call of an empty mHighWaterCallback
\* throws, and nobody catches.
Started(h) == IF h.kind = "highWater" /\ ~mHighWaterCallback THEN "thrown" ELSE Entry(h)

\* scheduler::do_run_one: an idle io thread takes the first handler.
Run(t) ==
    /\ t \in IoThreads /\ pc[t] = "idle" /\ queue # <<>>
    /\ queue' = Tail(queue)
    /\ job' = [job EXCEPT ![t] = Head(queue)]
    /\ Goto(t, Started(Head(queue)))
    /\ ret' = [ret EXCEPT ![t] = "idle"]
    /\ alerted' = (alerted \/ Head(queue).kind = "highWater")
    /\ UNCHANGED <<sock, send, mHighWaterCallback, stale, recv, hands, msg, cb, hist, inputs>>

\* How much of the buffer a data handler may have used, by its reader's savePos.
Consumable == 0..unread

\* User code returns to what called it.
UserReturn(t) ==
    /\ t \in IoThreads
    /\ \/ /\ pc[t] = "inData"
          /\ \E used \in Consumable : unread' = unread - used
          /\ Goto(t, "armCheck") /\ UNCHANGED mEofHandler
       \/ /\ pc[t] = "inCallback"
          /\ Goto(t, "callbacks") /\ UNCHANGED <<unread, mEofHandler>>
       \/ /\ pc[t] = "inEof"
          /\ mEofHandler' = FALSE
          /\ Goto(t, "idle") /\ UNCHANGED unread
       \/ /\ pc[t] = "inFunctor"
          /\ Goto(t, "idle") /\ UNCHANGED <<unread, mEofHandler>>
    /\ ret' = [ret EXCEPT ![t] = "idle"]
    /\ UNCHANGED <<sock, queue, send, mark, mRecvPosted, mDataHandler, mClosedHandler,
                   msg, job, cb, hist, inputs>>

-----------------------------------------------------------------------------
(* Sending. *)

\* send: the unsynchronised is_open test.  If it fails, send does nothing.
Send(t, m) ==
    /\ InUserCode(t) /\ open
    /\ m \notin ToSet(accepted) /\ \A u \in Threads : msg[u] # m
    /\ Call(t, "enqueue")
    /\ msg' = [msg EXCEPT ![t] = m]
    /\ UNCHANGED <<sock, queue, send, mark, recv, hands, job, cb, hist, inputs>>

\* Mutant: the mark is tested after the early return on mSending.
AboveMarkLate(size) == ~mSending /\ mHighWaterCallback /\ size > HighWater

\* Mutant: the test for nullptr is forgotten.
AboveMarkUntested(size) == size > HighWater

\* Whether the call of the high-water callback is posted, at that size.
AboveMark(size) == mHighWaterCallback /\ size > HighWater

\* Some thread in send is between its test of mHighWaterCallback and the
\* asio::post, and holds mSendGuard.
HighWaterComing == \E t \in Threads : pc[t] = "postHighWater"

\* The end of send's critical section: tryFlush, or the early return.
Enqueued(t) == Goto(t, IF mSending THEN ret[t] ELSE "tryFlush")

\* send: the critical section, up to the test of mHighWaterCallback.
Enqueue(t) ==
    /\ pc[t] = "enqueue" /\ ~HighWaterComing
    /\ mSendingSize' = mSendingSize + Size[msg[t]]
    /\ mPendingSendMsgList' = Append(mPendingSendMsgList, msg[t])
    /\ IF AboveMark(mSendingSize') THEN Goto(t, "postHighWater") ELSE Enqueued(t)
    /\ accepted' = Append(accepted, msg[t])
    /\ msg' = [msg EXCEPT ![t] = NoMsg]
    /\ UNCHANGED <<sock, queue, mSending, mSendingMsgList, mark, recv, hands, ret, job, cb,
                   wire, completed, closedCalls, swallowed, inputs>>

\* send: the call of mHighWaterCallback is posted, and the critical section
\* ends.  setHighWater takes no lock, and may have come in between.
PostHighWater(t) ==
    /\ pc[t] = "postHighWater"
    /\ Post(Handler("highWater", "none", 0))
    /\ Enqueued(t)
    /\ UNCHANGED <<sock, send, mark, recv, hands, local, hist, inputs>>

\* Mutant: the test of mSending is forgotten.
CanFlushUnguarded == mPendingSendMsgList # <<>>

\* When tryFlush starts a write.
CanFlush == ~mSending /\ mPendingSendMsgList # <<>>

\* tryFlush: the critical section, which takes over the pending messages.
TryFlush(t) ==
    /\ pc[t] = "tryFlush" /\ ~HighWaterComing
    /\ IF CanFlush
       THEN /\ mSendingMsgList' = mPendingSendMsgList
            /\ mPendingSendMsgList' = mSendingMsgList
            /\ mSending' = TRUE
            /\ Goto(t, "dispatchFlush")
       ELSE Return(t) /\ UNCHANGED <<mSending, mPendingSendMsgList, mSendingMsgList>>
    /\ UNCHANGED <<sock, queue, mSendingSize, mark, recv, hands, local, hist, inputs>>

\* tryFlush: the dispatch of flush, after the lock was released.
DispatchFlush(t) ==
    /\ pc[t] = "dispatchFlush"
    /\ IF t \in IoThreads THEN Goto(t, "flush") /\ UNCHANGED queue
                          ELSE Post(Handler("flush", "none", 0)) /\ Return(t)
    /\ UNCHANGED <<sock, send, mark, recv, hands, local, hist, inputs>>

\* flush: one async_write of the whole of mSendingMsgList.  On a closed
\* socket asio completes it at once, with an error.
Flush(t) ==
    /\ pc[t] = "flush"
    /\ IF open
       THEN /\ writes' = Append(writes, [done |-> <<>>, todo |-> mSendingMsgList, n |-> 0])
            /\ UNCHANGED queue
       ELSE Post(Handler("written", "error", 0)) /\ UNCHANGED writes
    /\ Return(t)
    /\ UNCHANGED <<open, sendShut, receives, send, mark, recv, hands, local, hist, inputs>>

\* Mutant: mSendingMsgList is not cleared, and the next swap queues it again.
SendCallbacksNoClear(t) ==
    /\ pc[t] = "callbacks"
    /\ IF cb[t] < Len(mSendingMsgList)
       THEN /\ completed' = Append(completed, mSendingMsgList[cb[t] + 1])
            /\ cb' = [cb EXCEPT ![t] = cb[t] + 1]
            /\ Goto(t, "inCallback")
       ELSE /\ cb' = [cb EXCEPT ![t] = 0]
            /\ Goto(t, "release") /\ UNCHANGED completed
    /\ UNCHANGED <<sock, queue, send, mark, recv, hands, ret, msg, job, accepted, wire,
                   closedCalls, swallowed, inputs>>

\* onSendCompleted without error: the next callback, or mSendingMsgList.clear().
SendCallbacks(t) ==
    /\ pc[t] = "callbacks"
    /\ IF cb[t] < Len(mSendingMsgList)
       THEN /\ completed' = Append(completed, mSendingMsgList[cb[t] + 1])
            /\ cb' = [cb EXCEPT ![t] = cb[t] + 1]
            /\ Goto(t, "inCallback") /\ UNCHANGED mSendingMsgList
       ELSE /\ mSendingMsgList' = <<>>
            /\ cb' = [cb EXCEPT ![t] = 0]
            /\ Goto(t, "release") /\ UNCHANGED completed
    /\ UNCHANGED <<sock, queue, mSending, mPendingSendMsgList, mSendingSize, mark, recv,
                   hands, ret, msg, job, accepted, wire, closedCalls, swallowed, inputs>>

\* Mutant: the slot is released, and no flush follows.
ReleaseOnly(t) ==
    /\ pc[t] = "release" /\ ~HighWaterComing
    /\ mSending' = FALSE
    /\ mSendingSize' = mSendingSize - job[t].n
    /\ Return(t)
    /\ alerted' = (alerted /\ mSendingSize' > HighWater)
    /\ UNCHANGED <<sock, queue, mPendingSendMsgList, mSendingMsgList, mHighWaterCallback,
                   stale, recv, hands, local, hist, inputs>>

\* onSendCompleted: the critical section; tryFlush follows.
Release(t) ==
    /\ pc[t] = "release" /\ ~HighWaterComing
    /\ mSending' = FALSE
    /\ mSendingSize' = mSendingSize - job[t].n
    /\ Goto(t, "tryFlush")
    /\ alerted' = (alerted /\ mSendingSize' > HighWater)
    /\ UNCHANGED <<sock, queue, mPendingSendMsgList, mSendingMsgList, mHighWaterCallback,
                   stale, recv, hands, local, hist, inputs>>

-----------------------------------------------------------------------------
(* The socket: what becomes of the operations outstanding. *)

\* The next message of a write reaches the connection.
Transmit(i) ==
    /\ ~sendShut /\ writes[i].todo # <<>>
    /\ LET m == Head(writes[i].todo) IN
         /\ writes' = [writes EXCEPT ![i] = [done |-> Append(writes[i].done, m),
                                             todo |-> Tail(writes[i].todo),
                                             n    |-> writes[i].n + Size[m]]]
         /\ wire' = Append(wire, m)
    /\ UNCHANGED <<open, sendShut, receives, queue, send, mark, recv, hands, pc, local,
                   accepted, completed, closedCalls, swallowed, inputs>>

\* A write ends: all was written, or the connection failed before.
WriteEnds(i) ==
    /\ Post(Handler("written", IF writes[i].todo = <<>> THEN "ok" ELSE "error", writes[i].n))
    /\ writes' = RemoveAt(writes, i)
    /\ UNCHANGED <<open, sendShut, receives, send, mark, recv, hands, pc, local, hist, inputs>>

\* A receive ends with data, at the end of the stream, or with an error.
ReceiveEnds ==
    /\ receives > 0
    /\ receives' = receives - 1
    /\ \E res \in {"data", "eof", "error"} :
         /\ res = "data" => inputs < MaxInputs
         /\ inputs' = IF res = "data" THEN inputs + 1 ELSE inputs
         /\ Post(Handler("received", res, 0))
    /\ UNCHANGED <<open, sendShut, writes, send, mark, recv, hands, pc, local, hist>>

-----------------------------------------------------------------------------
(* Receiving. *)

\* Mutant: startRecv while a receive is outstanding starts another.
ArmCheckUnguarded(t) ==
    /\ pc[t] = "armCheck"
    /\ Goto(t, "arm")
    /\ UNCHANGED <<sock, queue, send, mark, recv, hands, local, hist, inputs>>

\* startAsyncRecv: the test of mRecvPosted.
ArmCheck(t) ==
    /\ pc[t] = "armCheck"
    /\ IF mRecvPosted THEN Return(t) ELSE Goto(t, "arm")
    /\ UNCHANGED <<sock, queue, send, mark, recv, hands, local, hist, inputs>>

\* Mutant: mRecvPosted is set even if the buffer was full.
ArmFlagAnyway(t) ==
    /\ pc[t] = "arm"
    /\ Goto(t, "armed")
    /\ IF open /\ unread < MaxUnread THEN receives' = receives + 1 ELSE UNCHANGED receives
    /\ UNCHANGED <<open, sendShut, writes, queue, send, mark, recv, hands, local, hist, inputs>>

\* startAsyncRecv: async_receive into the free part of the buffer.  A full
\* buffer throws, and the throw is caught: no operation is outstanding.  On
\* a closed socket asio completes the operation at once, with an error.
Arm(t) ==
    /\ pc[t] = "arm"
    /\ \/ unread >= MaxUnread /\ Return(t) /\ UNCHANGED <<receives, queue>>
       \/ /\ unread < MaxUnread
          /\ Goto(t, "armed")
          /\ IF open THEN receives' = receives + 1 /\ UNCHANGED queue
                     ELSE Post(Handler("received", "error", 0)) /\ UNCHANGED receives
    /\ UNCHANGED <<open, sendShut, writes, send, mark, recv, hands, local, hist, inputs>>

\* startAsyncRecv: mRecvPosted is assigned after async_receive.
Armed(t) ==
    /\ pc[t] = "armed"
    /\ mRecvPosted' = TRUE
    /\ Return(t)
    /\ UNCHANGED <<sock, queue, send, mark, unread, hands, local, hist, inputs>>

\* onRecvCompleted, up to the first call of user code.
OnRecvCompleted(t) ==
    /\ pc[t] = "received"
    /\ mRecvPosted' = FALSE
    /\ unread' = IF job[t].res = "data" THEN unread + 1 ELSE unread
    /\ Goto(t, CASE job[t].res = "data" -> IF mDataHandler THEN "inData" ELSE "armCheck"
                 [] job[t].res = "eof" /\ mEofHandler -> "inEof"
                 [] OTHER -> "isOpen")
    /\ UNCHANGED <<sock, queue, send, mark, hands, local, hist, inputs>>

-----------------------------------------------------------------------------
(* Closing, and the other dispatched operations. *)

\* causeClosed: the is_open test.
IsOpen(t) ==
    /\ pc[t] = "isOpen"
    /\ IF open THEN Goto(t, "close") ELSE Return(t)
    /\ UNCHANGED <<sock, queue, send, mark, recv, hands, local, hist, inputs>>

\* The completions of the operations that mSocket.close() cancels.
Aborted ==
    [i \in 1..Len(writes) |-> Handler("written", "error", writes[i].n)]
    \o [i \in 1..receives |-> Handler("received", "error", 0)]

\* Mutant: the closed handler is skipped.
CloseSocketQuietly(t) ==
    /\ pc[t] = "close"
    /\ open' = FALSE /\ writes' = <<>> /\ receives' = 0
    /\ queue' = queue \o Aborted
    /\ Goto(t, "clearHandlers")
    /\ UNCHANGED <<sendShut, send, mark, recv, hands, local, hist, inputs>>

\* causeClosed: what was called throws, and catch (...) skips the rest.
Swallow(t, thrower) == Return(t) /\ swallowed' = swallowed \cup {thrower}

\* causeClosed: mSocket.close().  Where it throws, asio has closed the
\* descriptor and cancelled the operations all the same.
CloseSocket(t) ==
    /\ pc[t] = "close"
    /\ open' = FALSE /\ writes' = <<>> /\ receives' = 0
    /\ queue' = queue \o Aborted
    /\ \/ Goto(t, "callClosed") /\ UNCHANGED swallowed
       \/ Swallow(t, "close")
    /\ UNCHANGED <<sendShut, send, mark, recv, hands, local, accepted, wire, completed,
                   closedCalls, inputs>>

\* causeClosed: the closed handler, which may throw.  Whatever it calls finds
\* the socket closed and returns, so it is one step.
CallClosedHandler(t) ==
    /\ pc[t] = "callClosed"
    /\ closedCalls' = IF mClosedHandler THEN closedCalls + 1 ELSE closedCalls
    /\ \/ Goto(t, "clearHandlers") /\ UNCHANGED swallowed
       \/ mClosedHandler /\ Swallow(t, "handler")
    /\ UNCHANGED <<sock, queue, send, mark, recv, hands, local, accepted, wire,
                   completed, inputs>>

\* Mutant: the data handler is kept.
ClearClosedHandler(t) ==
    /\ pc[t] = "clearHandlers"
    /\ mClosedHandler' = FALSE
    /\ Return(t)
    /\ UNCHANGED <<sock, queue, send, mark, recv, mDataHandler, mEofHandler, local, hist,
                   inputs>>

\* causeClosed: the handlers are dropped, unless something threw before.
ClearHandlers(t) ==
    /\ pc[t] = "clearHandlers"
    /\ mClosedHandler' = FALSE /\ mDataHandler' = FALSE
    /\ Return(t)
    /\ UNCHANGED <<sock, queue, send, mark, recv, mEofHandler, local, hist, inputs>>

\* shutdown(shutdown_send), whose exception is caught: then nothing is shut
\* down.  Shutting down the other side only ends a receive at the end of the
\* stream, which the peer can do too.
Shutdown(t) ==
    /\ pc[t] = "shutdown"
    /\ sendShut' \in {sendShut, sendShut \/ open}
    /\ Return(t)
    /\ UNCHANGED <<open, writes, receives, queue, send, mark, recv, hands, local, hist,
                   inputs>>

\* setHighWater.  Who installs a callback above the mark is taken to know that.
SetHighWater(t) ==
    /\ pc[t] \in {"setHighWater", "withdraw"}
    /\ mHighWaterCallback' = (pc[t] = "setHighWater")
    /\ alerted' = (mSendingSize > HighWater)
    /\ stale' = (pc[t] = "withdraw" /\ (stale \/ HighWaterQueued \/ HighWaterComing))
    /\ Return(t)
    /\ UNCHANGED <<sock, queue, send, recv, hands, local, hist, inputs>>

-----------------------------------------------------------------------------

\* The constructor: Make demands a data handler; the others may be nullptr.
Init ==
    /\ open = TRUE /\ sendShut = FALSE /\ writes = <<>> /\ receives = 0
    /\ queue = <<>>
    /\ mSending = FALSE /\ mPendingSendMsgList = <<>> /\ mSendingSize = 0
    /\ mSendingMsgList = <<>>
    /\ mHighWaterCallback = FALSE /\ alerted = FALSE /\ stale = FALSE
    /\ mRecvPosted = FALSE /\ unread = 0
    /\ mDataHandler = TRUE /\ mClosedHandler \in BOOLEAN /\ mEofHandler \in BOOLEAN
    /\ pc = [t \in Threads |-> "idle"] /\ ret = [t \in Threads |-> "idle"]
    /\ msg = [t \in Threads |-> NoMsg] /\ cb = [t \in Threads |-> 0]
    /\ job = [t \in Threads |-> Handler("functor", "none", 0)]
    /\ accepted = <<>> /\ wire = <<>> /\ completed = <<>>
    /\ closedCalls = 0 /\ swallowed = {}
    /\ inputs = 0

UserCall(t) ==
    \/ \E m \in Msgs : Send(t, m)
    \/ \E kind \in Calls \cap Operations : Operation(t, kind)

\* What a thread does by itself once it is in the session's code.
Step(t) ==
    \/ Enqueue(t) \/ PostHighWater(t) \/ TryFlush(t) \/ DispatchFlush(t) \/ Flush(t)
    \/ SendCallbacks(t) \/ Release(t)
    \/ OnRecvCompleted(t) \/ ArmCheck(t) \/ Arm(t) \/ Armed(t)
    \/ IsOpen(t) \/ CloseSocket(t) \/ CallClosedHandler(t) \/ ClearHandlers(t)
    \/ Shutdown(t) \/ SetHighWater(t)

WriteProgress == \E i \in DOMAIN writes : Transmit(i) \/ WriteEnds(i)

\* An exception that leaves io_context::run() ends the process.
Alive == \A t \in Threads : pc[t] # "thrown"

Next ==
    /\ Alive
    /\ \/ \E t \in Threads : UserCall(t) \/ Step(t) \/ UserReturn(t) \/ Run(t)
       \/ WriteProgress \/ ReceiveEnds

Spec == Init /\ [][Next]_vars

\* The scheduling the code relies on: a thread inside the session goes on, an
\* io thread takes handlers, user code returns, and a write ends in some way.
Fairness ==
    /\ \A t \in Threads : WF_vars(Alive /\ (Step(t) \/ UserReturn(t) \/ Run(t)))
    /\ WF_vars(Alive /\ WriteProgress)

FairSpec == Spec /\ Fairness

-----------------------------------------------------------------------------
(* Properties. *)

WriteOps == [done : Seq(Msgs), todo : Seq(Msgs), n : Nat]
FlagTypes ==
    /\ {open, sendShut, mSending, mHighWaterCallback, alerted, stale, mRecvPosted,
        mDataHandler, mClosedHandler, mEofHandler} \subseteq BOOLEAN
    /\ swallowed \subseteq {"close", "handler"}
CounterTypes ==
    /\ receives \in Nat /\ unread \in Nat /\ closedCalls \in Nat /\ inputs \in Nat
    /\ mSendingSize \in Int
ListTypes ==
    /\ queue \in Seq(Handlers)
    /\ writes \in Seq(WriteOps)
    /\ mPendingSendMsgList \in Seq(Msgs) /\ mSendingMsgList \in Seq(Msgs)
    /\ accepted \in Seq(Msgs) /\ wire \in Seq(Msgs) /\ completed \in Seq(Msgs)
ThreadTypes ==
    /\ pc \in [Threads -> Labels]
    /\ ret \in [Threads -> UserLabels \cup {"idle"}]
    /\ msg \in [Threads -> Msgs \cup {NoMsg}]
    /\ \A t \in Threads : pc[t] = "enqueue" => msg[t] \in Msgs
    /\ job \in [Threads -> Handlers]
    /\ cb \in [Threads -> Nat]

\* Every variable holds values of the program's types.
TypeOK == FlagTypes /\ CounterTypes /\ ListTypes /\ ThreadTypes

\* The right to send: from the swap in tryFlush to mSending = false in
\* onSendCompleted it is with a thread, a queued handler or a write.
ThreadHolds(t) ==
    \/ pc[t] \in {"dispatchFlush", "flush", "callbacks", "inCallback", "release"}
    \/ ret[t] = "inCallback"
HandlerHolds(h) == h.kind = "flush" \/ (h.kind = "written" /\ h.res = "ok")
NobodyHolds ==
    /\ \A t \in Threads : ~ThreadHolds(t)
    /\ \A i \in DOMAIN queue : ~HandlerHolds(queue[i])
    /\ writes = <<>>

\* At most one async_write is outstanding on the socket, whoever sends and
\* whatever the callbacks do: two would interleave their bytes.
OneWriteAtATime == Len(writes) <= 1

\* mSending is false only when nobody is entitled to touch mSendingMsgList,
\* which flush and onSendCompleted use without the lock.
FlagGuardsSending == ~mSending => NobodyHolds

\* The right to send is in one place at a time.
OneHolder ==
    /\ \A t, u \in Threads : ThreadHolds(t) /\ ThreadHolds(u) => t = u
    /\ \A i, j \in DOMAIN queue : HandlerHolds(queue[i]) /\ HandlerHolds(queue[j]) => i = j
    /\ Len(writes) <= 1
    /\ (\E t \in Threads : ThreadHolds(t)) \/ writes # <<>> =>
           \A i \in DOMAIN queue : ~HandlerHolds(queue[i])
    /\ writes # <<>> => \A t \in Threads : ~ThreadHolds(t)

\* Where a thread may return to.
ReturnLabels ==
    \A t \in Threads :
        /\ pc[t] \in UserLabels => ret[t] \in {"idle", pc[t]}
        /\ pc[t] \in {"idle", "callbacks", "release", "received"} => ret[t] = "idle"
        /\ pc[t] \in {"dispatchFlush", "flush"} => ret[t] # "inCallback"

\* The inductive invariant behind OneWriteAtATime.
SendInv == TypeOK /\ ReturnLabels /\ OneHolder /\ FlagGuardsSending

\* The messages an outstanding write reads from stay in mSendingMsgList,
\* unchanged, until it ends: asio holds pointers into them.
WriteOwnsBuffers ==
    \A i \in DOMAIN writes : writes[i].done \o writes[i].todo = mSendingMsgList

\* No message is stranded: when messages are pending and no write is under
\* way, some thread is about to call tryFlush.  (send returns early when it
\* sees mSending, so the thread that resets it must look again.)
NoLostFlush ==
    mPendingSendMsgList # <<>> /\ ~mSending =>
        \E t \in Threads : pc[t] \in {"tryFlush", "postHighWater"}

\* mSending is left true without anyone to reset it only by a failed write,
\* and then the session is closed or is being closed.
StuckOnlyWhenClosing ==
    mSending /\ NobodyHolds =>
        \/ ~open
        \/ \E t \in Threads : pc[t] \in {"isOpen", "close"}
        \/ \E i \in DOMAIN queue : queue[i].kind = "written"

\* The sizes of the first i messages of a list together, and of all of them.
Sums(s) ==
    LET sum[i \in 0..Len(s)] == IF i = 0 THEN 0 ELSE sum[i - 1] + Size[s[i]]
    IN  sum
Bytes(s) == Sums(s)[Len(s)]

\* mSendingSize counts the bytes of the messages in both lists; between
\* clear() and the critical section also those of the list just sent.
SizeAccounting ==
    mSendingSize = Bytes(mPendingSendMsgList) + Bytes(mSendingMsgList)
        + (IF \E t \in Threads : pc[t] = "release"
           THEN job[CHOOSE t \in Threads : pc[t] = "release"].n ELSE 0)

\* While more is queued than the mark allows, the user has been told, or the
\* call of the high-water callback is queued, or is about to be.
AlertedAboveMark ==
    mHighWaterCallback /\ mSendingSize > HighWater =>
        alerted \/ HighWaterQueued \/ HighWaterComing

\* The process ends with an exception only if the user withdrew the high-water
\* callback while a call of it was queued, or while a thread in send had tested
\* the callback and was about to queue one: no other send queues one behind.
ThrowsOnlyIfWithdrawn == ~Alive => stale

ReceivedHandlers == {i \in DOMAIN queue : queue[i].kind = "received"}

\* With one io thread, at most one async_receive has the receive buffer, and
\* none while its completion is yet to be handled.
OneReceiveAtATime == receives + Cardinality(ReceivedHandlers) <= 1

\* With one io thread, mRecvPosted is set only if a completion will come and
\* reset it: a stale flag stops the receive loop for good.
RecvFlagFresh ==
    mRecvPosted =>
        receives > 0 \/ ReceivedHandlers # {} \/ \E t \in IoThreads : pc[t] = "received"

\* causeClosed says "already closed": the closed handler is called once.
ClosedOnce == closedCalls <= 1

\* With one io thread, data that was received before a close and is handled
\* after it reaches the data handler only if causeClosed swallowed an exception,
\* and left the data handler set.
NoDataAfterClose ==
    [][\A t \in IoThreads :
           pc[t] = "received" /\ pc'[t] = "inData" => open \/ swallowed # {}]_vars

\* The session is an outgoing stream: its history variables are the stream's.
Stream == INSTANCE SendStream WITH
    Msgs <- Msgs, open <- open, accepted <- accepted, wire <- wire, completed <- completed
StreamSpec == Stream!Spec
StreamFairSpec == Stream!FairSpec

\* A call of close that the io_context has accepted closes the socket, and a
\* session that closes, for whatever reason, calls its closed handler, unless
\* mSocket.close() threw.
CloseReported ==
    mClosedHandler /\ (~open \/ \E i \in DOMAIN queue : queue[i].kind = "close")
        ~> ~open /\ (closedCalls > 0 \/ "close" \in swallowed)

=============================================================================
