-------------------------- MODULE ConnectorBuilder --------------------------
(***************************************************************************)
(* wrapper/ConnectorBuilder.hpp and wrapper/HttpConnectorBuilder.hpp: one  *)
(* HttpConnectorBuilder with which a thread makes its attempts to connect, *)
(* one after the other, while TcpConnector answers the earlier ones on the *)
(* threads of the io_context.                                              *)
(*                                                                         *)
(* Each attempt is a call of asyncConnect.  It has an HttpSession, and      *)
(* handlers that refer to it: all go by the attempt.  A call throws while  *)
(* the builder has no connector, and the user makes another one.  An       *)
(* attempt is in `throwing' when the builder has no receive buffer size:   *)
(* then TcpSession::Make throws.                                           *)
(***************************************************************************)
EXTENDS TcpConnector

CONSTANT None

VARIABLES
    mConnector,         \* TRUE: the builder has a connector
    establishHandlers,  \* the builder's mTcpSessionOption: of which attempts
    dataHandler,        \*   they are
    option,             \* of each attempt, what its successCallback captured
    threw,              \* attempts whose asyncConnect threw
    mSession,           \* of each HttpSession, the TcpSession, once it is set
    receiving,          \* TcpSessions that called startRecv
    entered             \* history: calls of EnterCallback [http, tcp], in order

builder  == <<mConnector, establishHandlers, dataHandler, option, threw>>
sessions == <<mSession, receiving, entered>>
bvars    == <<vars, builder, sessions>>

-----------------------------------------------------------------------------

\* The thread has nothing to do for other attempts.
Free == \A a \in Attempts : pc[a] \in {"idle", "returned"}

\* WithConnector: nothing takes the connector away again.
WithConnector ==
    /\ Free /\ ~mConnector
    /\ mConnector' = TRUE
    /\ UNCHANGED <<vars, establishHandlers, dataHandler, option, threw, sessions>>

\* HttpConnectorBuilder::asyncConnect: the handlers of a new HttpSession.
Equip(a) ==
    /\ Free /\ pc[a] = "idle" /\ a \notin threw
    /\ establishHandlers' = Append(establishHandlers, a)
    /\ dataHandler' = a

\* Then asyncConnect of the base, up to the timer.  It has an establish
\* handler: the one just added.
HttpAsyncConnect(a) ==
    /\ mConnector
    /\ Equip(a) /\ RunAfter(a)
    /\ option' = [option EXCEPT ![a] = [establish |-> establishHandlers', data |-> dataHandler']]
    /\ UNCHANGED <<mConnector, threw, sessions>>

\* asyncConnect of the base throws "connector is empty", and does not reach
\* clear: the establish handler just added stays for the next call.
HttpAsyncConnectThrows(a) ==
    /\ ~mConnector
    /\ Equip(a)
    /\ threw' = threw \cup {a}
    /\ UNCHANGED <<vars, mConnector, option, sessions>>

\* Mutant: the establish handlers are kept.
Kept == establishHandlers

\* clear
Cleared == <<>>

\* The connect starts; and when it has, clear: here or in a step of its own
\* makes no difference, nothing but this thread looks at the builder.
Connecting(a) ==
    /\ AsyncConnect(a)
    /\ establishHandlers' = Cleared
    /\ UNCHANGED <<mConnector, dataHandler, option, threw, sessions>>

\* The successCallback: the TcpSession is made with the data handler, and the
\* establish handlers are called: setSession has an effect the first time.
Establish(a) ==
    /\ mSession' = [h \in Attempts |->
                       IF mSession[h] = None /\ h \in ToSet(option[a].establish) THEN a ELSE mSession[h]]
    /\ receiving' = receiving \cup {a}
    /\ entered' = entered \o
           [i \in DOMAIN option[a].establish |-> [http |-> option[a].establish[i], tcp |-> a]]

\* A handler of the connector runs: the callback of a connect that succeeded
\* makes a session, unless TcpSession::Make throws.
Answer(i) ==
    /\ RunHandler(i)
    /\ IF handlers[i].kind = "connected" /\ handlers[i].attempt \notin throwing
       THEN Establish(handlers[i].attempt) ELSE UNCHANGED sessions
    /\ UNCHANGED builder

\* The kernel and the timers.
Happens(a) ==
    /\ Expires(a) \/ ConnectEnds(a)
    /\ UNCHANGED <<builder, sessions>>

BuilderInit ==
    /\ Init
    /\ mConnector = FALSE /\ threw = {}
    /\ establishHandlers = <<>> /\ dataHandler = None
    /\ option = [a \in Attempts |-> None]
    /\ mSession = [a \in Attempts |-> None] /\ receiving = {} /\ entered = <<>>

BuilderNext ==
    /\ ~terminated
    /\ \/ WithConnector
       \/ \E a \in Attempts : HttpAsyncConnect(a) \/ HttpAsyncConnectThrows(a)
       \/ \E a \in Attempts : Connecting(a) \/ Happens(a)
       \/ \E i \in DOMAIN handlers : Answer(i)

\* Calls go on, timers expire and handlers run.  A connect need not end.
Answers == \E i \in DOMAIN handlers : Answer(i)
BuilderSpec ==
    /\ BuilderInit /\ [][BuilderNext]_bvars
    /\ \A a \in Attempts :
           WF_bvars(~terminated /\ Connecting(a))
           /\ WF_bvars(~terminated /\ Expires(a) /\ UNCHANGED <<builder, sessions>>)
    /\ WF_bvars(~terminated /\ Answers)

-----------------------------------------------------------------------------
(* Properties. *)

\* Attempts that overlap do not share a session: a user enters an HttpSession
\* once, with the TcpSession of its own attempt, and that is the one it refers
\* to; and a TcpSession receives only when the HttpSession that its data
\* handler uses refers to it.  Only the HttpSession of a call that threw is
\* entered with the TcpSession of another attempt.
SessionsPaired ==
    /\ \A i \in DOMAIN entered :
        /\ entered[i].http = entered[i].tcp \/ entered[i].http \in threw
        /\ mSession[entered[i].http] = entered[i].tcp
        /\ \A j \in DOMAIN entered : entered[i].http = entered[j].http => i = j
    /\ \A a \in receiving : mSession[option[a].data] = a

=============================================================================
