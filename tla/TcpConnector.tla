---------------------------- MODULE TcpConnector ----------------------------
(***************************************************************************)
(* net/TcpConnector.hpp: a connect with a timer beside it.                 *)
(*                                                                         *)
(* A call arms the timer, then starts the connect; their handlers run on   *)
(* the threads of the io_context.  A handler is one step: the two share    *)
(* nothing but the timer.                                                  *)
(***************************************************************************)
EXTENDS Integers, Sequences, FiniteSets, SequencesExt

CONSTANT Attempts   \* calls of asyncConnect

VARIABLES
    silent,       \* attempts whose failedCallback is nullptr
    throwing,     \* attempts whose successCallback throws when it is called
    pc,           \* of each call: "idle", "timer" once it is armed, "returned"
    timer,        \* attempts whose timer runs
    connecting,   \* attempts whose async_connect is outstanding
    handlers,     \* handlers ready to run in the io_context
    terminated,   \* an exception left a thread of the io_context
    answers,      \* history: of each attempt, the callbacks called, in order
    expired       \* history: attempts whose timer expired before any answer

given == <<silent, throwing>>
vars  == <<given, pc, timer, connecting, handlers, terminated, answers, expired>>

Handler(kind, a) == [kind |-> kind, attempt |-> a]

-----------------------------------------------------------------------------

\* wrapperAsyncConnect: RunAfter.
RunAfter(a) ==
    /\ pc[a] = "idle"
    /\ pc' = [pc EXCEPT ![a] = "timer"]
    /\ timer' = timer \cup {a}
    /\ UNCHANGED <<given, connecting, handlers, terminated, answers, expired>>

\* wrapperAsyncConnect: async_connect.
AsyncConnect(a) ==
    /\ pc[a] = "timer"
    /\ pc' = [pc EXCEPT ![a] = "returned"]
    /\ connecting' = connecting \cup {a}
    /\ UNCHANGED <<given, timer, handlers, terminated, answers, expired>>

\* The timer expires: its handler is ready, and can be cancelled no more.
Expires(a) ==
    /\ a \in timer
    /\ timer' = timer \ {a}
    /\ handlers' = Append(handlers, Handler("timeout", a))
    /\ expired' = IF answers[a] = <<>> THEN expired \cup {a} ELSE expired
    /\ UNCHANGED <<given, pc, connecting, terminated, answers>>

\* The connect ends, in one way or the other.
ConnectEnds(a) ==
    /\ a \in connecting
    /\ connecting' = connecting \ {a}
    /\ \E kind \in {"connected", "refused"} : handlers' = Append(handlers, Handler(kind, a))
    /\ UNCHANGED <<given, pc, timer, terminated, answers, expired>>

\* Mutant: the connect's handler leaves the timer alone.
StillRunningKept(h) == timer

\* Mutant: an error is not reported.
AnswersOfSilent(h) ==
    CASE h.kind = "connected" -> Append(answers[h.attempt], "success")
      [] h.kind = "timeout" /\ h.attempt \notin silent -> Append(answers[h.attempt], "failed")
      [] OTHER -> answers[h.attempt]

\* Mutant: the connect's handler does not test failedCallback either.
ThrowsUntested(h) ==
    h.attempt \in IF h.kind = "connected" THEN throwing ELSE silent

\* The timers that run when handler h has: the connect's cancels its own.
StillRunning(h) == IF h.kind = "timeout" THEN timer ELSE timer \ {h.attempt}

\* What the handlers call: the timer's leaves the connect going on, and does
\* not look whether it has ended.
AnswersOf(h) ==
    CASE h.kind = "connected" -> Append(answers[h.attempt], "success")
      [] h.kind # "connected" /\ h.attempt \notin silent -> Append(answers[h.attempt], "failed")
      [] OTHER -> answers[h.attempt]

\* The timer's handler calls failedCallback without a test for nullptr, and
\* a successCallback may throw: nothing catches either.
Throws(h) ==
    \/ h.kind = "timeout" /\ h.attempt \in silent
    \/ h.kind = "connected" /\ h.attempt \in throwing

\* A thread runs a handler.  With several threads two handlers may finish in
\* either order.
RunHandler(i) ==
    /\ handlers' = RemoveAt(handlers, i)
    /\ timer' = StillRunning(handlers[i])
    /\ answers' = [answers EXCEPT ![handlers[i].attempt] = AnswersOf(handlers[i])]
    /\ terminated' = Throws(handlers[i])
    /\ UNCHANGED <<given, pc, connecting, expired>>

Init ==
    /\ silent \in SUBSET Attempts /\ throwing \in SUBSET Attempts /\ terminated = FALSE
    /\ pc = [a \in Attempts |-> "idle"]
    /\ timer = {} /\ connecting = {} /\ handlers = <<>>
    /\ answers = [a \in Attempts |-> <<>>] /\ expired = {}

RunHandlers == \E i \in DOMAIN handlers : RunHandler(i)

Next ==
    /\ ~terminated
    /\ \/ \E a \in Attempts : RunAfter(a) \/ AsyncConnect(a) \/ Expires(a) \/ ConnectEnds(a)
       \/ RunHandlers

Spec == Init /\ [][Next]_vars

-----------------------------------------------------------------------------
(* Properties. *)

\* Every variable holds values of its type.
TypeOK ==
    /\ pc \in [Attempts -> {"idle", "timer", "returned"}]
    /\ silent \subseteq Attempts /\ throwing \subseteq Attempts /\ terminated \in BOOLEAN
    /\ timer \subseteq Attempts /\ connecting \subseteq Attempts /\ expired \subseteq Attempts
    /\ handlers \in Seq([kind : {"timeout", "connected", "refused"}, attempt : Attempts])
    /\ answers \in [Attempts -> Seq({"success", "failed"})]

\* The caller hears from an attempt once, or twice if its timer expired before
\* the connect's handler could cancel it: then one of the two is the timer's.
Count(a, what) == Cardinality({i \in DOMAIN answers[a] : answers[a][i] = what})
SecondAnswerIsTheTimers ==
    \A a \in Attempts :
        /\ Len(answers[a]) <= 1 + Cardinality(expired \cap {a})
        /\ Count(a, "success") <= 1

\* The process goes down only with a successCallback that was called and
\* throws, or with an attempt without a failedCallback whose timer expired
\* before it was answered: a refusal never takes it down, and neither does
\* the timer of an attempt that was answered in time.
TerminatedByCallback ==
    terminated =>
        \/ silent \cap expired # {}
        \/ \E a \in throwing : "success" \in ToSet(answers[a])

\* Every attempt is answered, even one whose connect does not end.
Answered ==
    \A a \in Attempts :
        pc[a] = "returned" /\ a \notin silent ~> answers[a] # <<>> \/ terminated

=============================================================================
