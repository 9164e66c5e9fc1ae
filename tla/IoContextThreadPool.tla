------------------------ MODULE IoContextThreadPool ------------------------
(***************************************************************************)
(* net/IoContextThreadPool.hpp, net/IoContextThread.hpp and the run loop   *)
(* of net/WrapperIoContext.hpp: a pool of io_contexts, each run by threads *)
(* that start creates and stop joins.                                      *)
(*                                                                         *)
(* start and stop of the pool, and of one of its IoContextThreads, may be  *)
(* called by any application thread and, if HandlerCalls says so, by a     *)
(* handler that runs on a thread of the pool.  A destructor is a stop.     *)
(***************************************************************************)
EXTENDS Integers, FiniteSets, FiniteSetsExt

CONSTANTS
    Callers,       \* application threads
    PoolSize,      \* io_contexts in the pool
    ThreadNum,     \* threads that start creates for each of them
    NoOne,         \* holds a mutex that is free
    HandlerCalls,  \* what handlers call: a subset of {"start", "stop"}
    MaxCalls,      \* bound: calls of start and stop
    MaxHandlers    \* bound: handlers posted

Contexts == 1..PoolSize

\* std::thread objects there can be: twice as many as there should be.
IoThreads == Contexts \X (1..2 * ThreadNum)
Threads == Callers \cup IoThreads

ASSUME SizesAssumption == PoolSize \in Nat \ {0} /\ ThreadNum \in Nat \ {0}
ASSUME ThreadsAssumption == Callers \cap IoThreads = {} /\ NoOne \notin Threads
ASSUME CallsAssumption == HandlerCalls \subseteq {"start", "stop"}
ASSUME BoundsAssumption == MaxCalls \in Nat /\ MaxHandlers \in Nat

VARIABLES
    mPoolGuard,     \* who holds the pool's mutex
    mIoThreadGuard, \* for each context, who holds its mutex
    mIoThreads,     \* for each context, the threads in the vector
    stopped,        \* for each context, io_context::stopped()
    ready,          \* for each context, handlers ready to run
    pc,             \* where a thread is
    op, at,         \* the operation it executes, and on which context
    crashed,        \* std::terminate was called
    stops,          \* history: the contexts on which a stop has returned
    calls, posts    \* how much of MaxCalls and MaxHandlers is used

locks == <<mPoolGuard, mIoThreadGuard>>
ctx   == <<mIoThreads, stopped, ready>>
vars  == <<locks, ctx, pc, op, at, crashed, stops, calls, posts>>

Goto(t, label) == pc' = [pc EXCEPT ![t] = label]

\* Application code calls from anywhere, a handler from its thread.
UserCode(t) == IF t \in Callers THEN "app" ELSE "handler"

-----------------------------------------------------------------------------
(* start and stop. *)

\* A call of start or stop of the pool, or of the IoContextThread of c.
Call(t) ==
    /\ pc[t] = UserCode(t) /\ calls < MaxCalls
    /\ \E o \in IF t \in Callers THEN {"start", "stop"} ELSE HandlerCalls :
         op' = [op EXCEPT ![t] = o]
    /\ \/ Goto(t, "pool") /\ at' = [at EXCEPT ![t] = 1]
       \/ Goto(t, "thread") /\ \E c \in Contexts : at' = [at EXCEPT ![t] = c]
    /\ calls' = calls + 1
    /\ UNCHANGED <<locks, ctx, crashed, stops, posts>>

\* IoContextThreadPool::start and stop: mPoolGuard, for the whole loop.
LockPool(t) ==
    /\ pc[t] = "pool" /\ mPoolGuard = NoOne
    /\ mPoolGuard' = t
    /\ Goto(t, "thread")
    /\ UNCHANGED <<mIoThreadGuard, ctx, op, at, crashed, stops, calls, posts>>

\* The operation on one context returns: the pool's loop goes on, or the whole
\* call returns.  It leaves the threads in Others at label.
Advance(t, Others, label) ==
    LET again == mPoolGuard = t /\ at[t] < PoolSize IN
    /\ at' = IF again THEN [at EXCEPT ![t] = at[t] + 1] ELSE at
    /\ mPoolGuard' = IF mPoolGuard = t /\ ~again THEN NoOne ELSE mPoolGuard
    /\ pc' = [u \in Threads |->
                CASE u = t -> IF again THEN "thread" ELSE UserCode(t)
                  [] u # t /\ u \in Others -> label
                  [] OTHER -> pc[u]]

\* ThreadNum std::thread objects that are not in use.
NewThreads(c) ==
    CHOOSE s \in kSubset(ThreadNum, {u \in IoThreads : u[1] = c /\ pc[u] = "none"}) : TRUE

\* Mutant: start does not look whether it has threads.
SpawnsAlways(c) == NewThreads(c)

\* The threads that start creates: none if it has some.
Spawns(c) == IF mIoThreads[c] = {} THEN NewThreads(c) ELSE {}

\* IoContextThread::start, which holds its mutex.
Start(t) ==
    /\ pc[t] = "thread" /\ op[t] = "start" /\ mIoThreadGuard[at[t]] = NoOne
    /\ mIoThreads' = [mIoThreads EXCEPT ![at[t]] = @ \cup Spawns(at[t])]
    /\ Advance(t, Spawns(at[t]), "loop")
    /\ UNCHANGED <<mIoThreadGuard, stopped, ready, op, crashed, stops, calls, posts>>

\* Mutant: the io_context is not told to stop.
StopNothing(t) ==
    /\ pc[t] = "thread" /\ op[t] = "stop" /\ mIoThreadGuard[at[t]] = NoOne
    /\ mIoThreadGuard' = [mIoThreadGuard EXCEPT ![at[t]] = t]
    /\ Goto(t, "join")
    /\ UNCHANGED <<mPoolGuard, ctx, op, at, crashed, stops, calls, posts>>

\* IoContextThread::stop: its mutex, and io_context::stop.
Stop(t) ==
    /\ pc[t] = "thread" /\ op[t] = "stop" /\ mIoThreadGuard[at[t]] = NoOne
    /\ mIoThreadGuard' = [mIoThreadGuard EXCEPT ![at[t]] = t]
    /\ stopped' = [stopped EXCEPT ![at[t]] = TRUE]
    /\ Goto(t, "join")
    /\ UNCHANGED <<mPoolGuard, mIoThreads, ready, op, at, crashed, stops, calls, posts>>

\* Mutant: the threads are detached.
JoinableNone(t) == {}

\* The threads that stop joins.  Joining itself throws, and is caught.
Joinable(t) == mIoThreads[at[t]] \ {t}

\* IoContextThread::stop: all are joined, and the vector is cleared, which is
\* the end of the process if one of them is still joinable.
Joined(t) ==
    /\ pc[t] = "join"
    /\ \A u \in Joinable(t) : pc[u] = "exited"
    /\ mIoThreads' = [mIoThreads EXCEPT ![at[t]] = {}]
    /\ crashed' = (t \in mIoThreads[at[t]])
    /\ mIoThreadGuard' = [mIoThreadGuard EXCEPT ![at[t]] = NoOne]
    /\ stops' = stops \cup {at[t]}
    /\ Advance(t, Joinable(t), "none")
    /\ UNCHANGED <<stopped, ready, op, calls, posts>>

-----------------------------------------------------------------------------
(* The threads of the pool. *)

\* WrapperIoContext::run: another turn of the loop, or the end of the thread.
\* Its work object keeps io_context::run from running out of work.
Loop(u) == Goto(u, IF stopped[u[1]] THEN "exited" ELSE "run")

\* Mutant: without the work object, run returns when no handler is ready.
RunOneNoWork(u) ==
    /\ Goto(u, IF stopped[u[1]] \/ ready[u[1]] = 0 THEN "exited" ELSE "handler")
    /\ ready' = IF ready[u[1]] = 0 THEN ready ELSE [ready EXCEPT ![u[1]] = @ - 1]

\* io_context::run: it returns once stopped; else it runs the next handler,
\* or waits for one.
RunOne(u) ==
    /\ stopped[u[1]] \/ ready[u[1]] > 0
    /\ Goto(u, IF stopped[u[1]] THEN "loop" ELSE "handler")
    /\ ready' = IF stopped[u[1]] THEN ready ELSE [ready EXCEPT ![u[1]] = @ - 1]

IoStep(u) ==
    /\ \/ pc[u] = "loop" /\ Loop(u) /\ UNCHANGED ready
       \/ pc[u] = "run" /\ RunOne(u)
       \/ pc[u] = "handler" /\ Goto(u, "run") /\ UNCHANGED ready
    /\ UNCHANGED <<locks, mIoThreads, stopped, op, at, crashed, stops, calls, posts>>

\* A caller posts a handler to the context that pickIoContext returned.
PostHandler(c) ==
    /\ posts < MaxHandlers
    /\ ready' = [ready EXCEPT ![c] = @ + 1]
    /\ posts' = posts + 1
    /\ UNCHANGED <<locks, mIoThreads, stopped, pc, op, at, crashed, stops, calls>>

-----------------------------------------------------------------------------

Init ==
    /\ mPoolGuard = NoOne /\ mIoThreadGuard = [c \in Contexts |-> NoOne]
    /\ mIoThreads = [c \in Contexts |-> {}]
    /\ stopped = [c \in Contexts |-> FALSE] /\ ready = [c \in Contexts |-> 0]
    /\ pc = [t \in Threads |-> IF t \in Callers THEN "app" ELSE "none"]
    /\ op = [t \in Threads |-> "start"] /\ at = [t \in Threads |-> 1]
    /\ crashed = FALSE /\ stops = {} /\ calls = 0 /\ posts = 0

Step(t) == LockPool(t) \/ Start(t) \/ Stop(t) \/ Joined(t)

Next ==
    /\ ~crashed
    /\ \/ \E t \in Threads : Call(t) \/ Step(t)
       \/ \E u \in IoThreads : IoStep(u)
       \/ \E c \in Contexts : PostHandler(c)

Spec == Init /\ [][Next]_vars

\* Threads go on, handlers return, and a mutex that is released again and
\* again is not withheld from one thread for ever.
Fairness ==
    /\ \A t \in Threads : SF_vars(~crashed /\ Step(t))
    /\ \A u \in IoThreads : WF_vars(~crashed /\ IoStep(u))

FairSpec == Spec /\ Fairness

-----------------------------------------------------------------------------
(* Properties. *)

Alive(c) == {u \in IoThreads : u[1] = c /\ pc[u] # "none"}

\* However start and stop race, a context has the threads its vector owns and
\* no other: never a second set of ThreadNum, and none that nobody will join.
\* (A handler that stops its own context ends the process.)
OwnedThreads == ~crashed =>
    \A c \in Contexts : Alive(c) = mIoThreads[c] /\ Cardinality(Alive(c)) <= ThreadNum

\* Once a stop of a context has returned no handler runs there, although the
\* context may be started again at any time.
QuietAfterStop == ~crashed => \A c \in stops : \A u \in Alive(c) : pc[u] \in {"loop", "exited"}

\* A handler that calls start or stop may wait for a stop that waits for it.
HandlerCalling == \E u \in IoThreads : pc[u] \in {"pool", "thread", "join"}

\* Every call of start and stop returns, unless a handler calls them too.
CallsReturn == \A t \in Callers :
    pc[t] # "app" ~> pc[t] = "app" \/ HandlerCalling \/ crashed

\* What is posted to a context runs, once it is started and unless it is
\* stopped, or all its threads are kept by handlers that call.
PostedRuns == \A c \in Contexts :
    ready[c] > 0 /\ mIoThreads[c] # {} ~>
        ready[c] = 0 \/ stopped[c] \/ HandlerCalling \/ crashed

=============================================================================
