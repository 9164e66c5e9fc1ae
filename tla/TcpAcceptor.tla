---------------------------- MODULE TcpAcceptor ----------------------------
(***************************************************************************)
(* net/TcpAcceptor.hpp: an accept loop that hands its connections to the   *)
(* io_contexts of a pool.                                                  *)
(*                                                                         *)
(* startAccept and close run on the thread that calls them; the accept     *)
(* handlers run on the threads of the listening io_context, and a close    *)
(* may come between any two of their steps.  Each startAccept has its      *)
(* callback, with which its loop goes round: both go by the number of the  *)
(* call.  The builders of wrapper/ put in the callback what was configured *)
(* when their start was called.                                            *)
(***************************************************************************)
EXTENDS Integers, Sequences, FiniteSets, SequencesExt

CONSTANTS
    Callers,      \* application threads
    Listeners,    \* threads that run the listening io_context
    Contexts,     \* number of io_contexts of the pool
    Connections,  \* connections that clients open
    NoConn,       \* of an accept that failed
    MaxErrors,    \* bound: accepts that fail while the acceptor is open
    MaxLoops      \* bound: calls of startAccept

Threads == Callers \cup Listeners

ASSUME ThreadsAssumption == Callers \cap Listeners = {}
ASSUME SizesAssumption == Contexts \in Nat \ {0} /\ NoConn \notin Connections
ASSUME BoundsAssumption == MaxErrors \in Nat /\ MaxLoops \in Nat

VARIABLES
    open,         \* mAcceptor.is_open()
    accepting,    \* async_accepts outstanding, each with the context of its socket
                  \* and its callback
    completions,  \* accept handlers ready to run in the listening io_context
    posted,       \* for each context, the callbacks posted to it
    mPickIoContextIndex,   \* modulo the number of contexts, all that is used of it
    pc,           \* where a thread is, and with which callback
    backlog,      \* connections that wait to be accepted
    accepted,     \* history: connections accepted, with context and callback
    delivered,    \* history: connections given to a callback, with its context
    loops,        \* history: calls of startAccept that found the acceptor open
    starts, errors \* how much of MaxLoops and MaxErrors is used

hist == <<accepted, delivered, loops, starts, errors>>
vars == <<open, accepting, completions, posted, mPickIoContextIndex, pc, backlog, hist>>

Callbacks == 1..MaxLoops
Idle == [at |-> "idle", callback |-> 0]
Goto(t, label, callback) == pc' = [pc EXCEPT ![t] = [at |-> label, callback |-> callback]]
Leave(t) == pc' = [pc EXCEPT ![t] = Idle]
Accept(c, callback) == [ctx |-> c, callback |-> callback]
Completion(conn, a) == [conn |-> conn, ctx |-> a.ctx, callback |-> a.callback]

-----------------------------------------------------------------------------

\* startAccept: doAccept on the caller's thread.
StartAccept(t) ==
    /\ pc[t] = Idle /\ starts < MaxLoops
    /\ starts' = starts + 1
    /\ Goto(t, "doAccept", starts')
    /\ UNCHANGED <<open, accepting, completions, posted, mPickIoContextIndex, backlog,
                   accepted, delivered, loops, errors>>

\* doAccept: the is_open test.
IsOpen(t) ==
    /\ pc[t].at = "doAccept"
    /\ IF open THEN Goto(t, "accept", pc[t].callback) ELSE Leave(t)
    /\ loops' = IF open /\ t \in Callers THEN loops \cup {pc[t].callback} ELSE loops
    /\ UNCHANGED <<open, accepting, completions, posted, mPickIoContextIndex, backlog,
                   accepted, delivered, starts, errors>>

\* doAccept: a socket in the next context of the pool, and async_accept.  On
\* a closed acceptor asio completes it at once, with an error.
AsyncAccept(t) ==
    LET a == Accept(mPickIoContextIndex, pc[t].callback) IN
    /\ pc[t].at = "accept"
    /\ mPickIoContextIndex' = (mPickIoContextIndex + 1) % Contexts
    /\ IF open THEN accepting' = Append(accepting, a) /\ UNCHANGED completions
               ELSE completions' = Append(completions, Completion(NoConn, a))
                    /\ UNCHANGED accepting
    /\ Leave(t)
    /\ UNCHANGED <<open, posted, backlog, hist>>

\* close: it cancels the accepts outstanding.
Close(t) ==
    /\ t \in Callers /\ pc[t] = Idle /\ open
    /\ open' = FALSE /\ accepting' = <<>>
    /\ completions' = completions \o
           [i \in DOMAIN accepting |-> Completion(NoConn, accepting[i])]
    /\ UNCHANGED <<posted, mPickIoContextIndex, pc, backlog, hist>>

\* An accept ends: with a connection of the backlog, or with an error.
AcceptEnds(i) ==
    /\ accepting' = RemoveAt(accepting, i)
    /\ \/ \E conn \in backlog :
              /\ completions' = Append(completions, Completion(conn, accepting[i]))
              /\ backlog' = backlog \ {conn}
              /\ accepted' = accepted \cup {Completion(conn, accepting[i])}
              /\ UNCHANGED errors
       \/ /\ errors < MaxErrors
          /\ completions' = Append(completions, Completion(NoConn, accepting[i]))
          /\ errors' = errors + 1
          /\ UNCHANGED <<backlog, accepted>>
    /\ UNCHANGED <<open, posted, mPickIoContextIndex, pc, delivered, loops, starts>>

\* Mutant: the callback is posted to the context that is next in turn.
PostAnywhere(h) ==
    IF h.conn = NoConn THEN posted
                       ELSE [posted EXCEPT ![mPickIoContextIndex] = Append(@, h)]

\* The accept handler: the callback is posted to the context of the socket.
PostCallback(h) ==
    IF h.conn = NoConn THEN posted ELSE [posted EXCEPT ![h.ctx] = Append(@, h)]

\* Mutant: an error ends the loop.
AfterHandlerNoRetry(t, h) == IF h.conn = NoConn THEN Leave(t) ELSE Goto(t, "doAccept", h.callback)

\* Mutant: it accepts again without looking whether the acceptor is open.
AfterHandlerUnchecked(t, h) == Goto(t, "accept", h.callback)

\* Where the accept handler goes on: doAccept, whatever the result.
AfterHandler(t, h) == Goto(t, "doAccept", h.callback)

\* A thread of the listening context runs an accept handler.
OnAccept(t) ==
    /\ t \in Listeners /\ pc[t] = Idle /\ completions # <<>>
    /\ completions' = Tail(completions)
    /\ posted' = PostCallback(Head(completions))
    /\ AfterHandler(t, Head(completions))
    /\ UNCHANGED <<open, accepting, mPickIoContextIndex, backlog, hist>>

\* Context c calls the callback.
Callback(c) ==
    /\ posted[c] # <<>>
    /\ posted' = [posted EXCEPT ![c] = Tail(@)]
    /\ delivered' = delivered \cup {[Head(posted[c]) EXCEPT !.ctx = c]}
    /\ UNCHANGED <<open, accepting, completions, mPickIoContextIndex, pc, backlog,
                   accepted, loops, starts, errors>>

Init ==
    /\ open = TRUE /\ accepting = <<>> /\ completions = <<>>
    /\ posted = [c \in 0..Contexts - 1 |-> <<>>]
    /\ mPickIoContextIndex = 0
    /\ pc = [t \in Threads |-> Idle]
    /\ backlog = Connections
    /\ accepted = {} /\ delivered = {} /\ loops = {} /\ starts = 0 /\ errors = 0

Step(t) == IsOpen(t) \/ AsyncAccept(t) \/ OnAccept(t)

Next ==
    \/ \E t \in Callers : StartAccept(t) \/ Close(t)
    \/ \E t \in Threads : Step(t)
    \/ \E i \in DOMAIN accepting : AcceptEnds(i)
    \/ \E c \in 0..Contexts - 1 : Callback(c)

Spec == Init /\ [][Next]_vars

\* Threads go on, and contexts run what is posted to them.  Clients need not
\* come.
FairSpec ==
    /\ Spec
    /\ \A t \in Threads : WF_vars(Step(t))
    /\ \A c \in 0..Contexts - 1 : WF_vars(Callback(c))

-----------------------------------------------------------------------------
(* Properties. *)

Round(callback) ==
    Cardinality({i \in DOMAIN accepting : accepting[i].callback = callback})
    + Cardinality({i \in DOMAIN completions : completions[i].callback = callback})
    + Cardinality({t \in Threads : /\ pc[t].callback = callback
                                   /\ t \in Listeners \/ pc[t].at = "accept"})

\* While the acceptor is open, each startAccept keeps exactly one accept
\* outstanding or about to be started, with its own callback: errors do not
\* end its loop, and nothing doubles it.
OneAcceptPerLoop == open => \A callback \in loops : Round(callback) = 1

InFlight == (UNION {ToSet(posted[c]) : c \in 0..Contexts - 1}) \cup
            {h \in ToSet(completions) : h.conn # NoConn}

\* A connection that was accepted is on its way to the callback of the loop
\* that accepted it until it is delivered, by the context its socket belongs
\* to, and not again; a close in between loses none.
DeliveredOnItsContext ==
    /\ accepted = InFlight \cup delivered
    /\ InFlight \cap delivered = {}

\* After a close the loops end and stay ended: the handlers that keep the
\* acceptor alive are gone.
Ended == accepting = <<>> /\ completions = <<>> /\ \A t \in Listeners : pc[t] = Idle
LoopsEnd == ~open ~> []Ended

=============================================================================
