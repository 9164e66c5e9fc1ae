------------------------------ MODULE WaitGroup ------------------------------
(***************************************************************************)
(* base/WaitGroup.hpp: threads that wait until as many calls of done were  *)
(* made as add announced.                                                  *)
(*                                                                         *)
(* mCounter is atomic and done() does not take mMutex: its two steps may   *)
(* come between any steps of a wait, also between the test of the counter  *)
(* and the sleep, which a notifier that held mMutex could not.             *)
(***************************************************************************)
EXTENDS Integers, FiniteSets

CONSTANTS
    Threads,
    NoThread,      \* mMutex is free
    MaxAdded       \* bound: what all calls of add announce

ASSUME ThreadsAssumption == NoThread \notin Threads
ASSUME BoundAssumption == MaxAdded \in Nat

VARIABLES
    mCounter,
    mMutex,        \* who holds it
    pc,            \* where each thread is
    timed,         \* threads in a wait with a timeout
    late,          \* those for which its time has passed
    missed,        \* history: threads for which a notification came between their
                   \* last test and their sleep
    added          \* history: how much was announced

hist == <<missed, added>>
wait == <<timed, late>>
vars == <<mCounter, mMutex, pc, wait, hist>>

Goto(t, label) == pc' = [pc EXCEPT ![t] = label]

-----------------------------------------------------------------------------

\* add
Add(t, i) ==
    /\ pc[t] = "idle" /\ added + i <= MaxAdded
    /\ mCounter' = mCounter + i /\ added' = added + i
    /\ UNCHANGED <<mMutex, pc, wait, missed>>

\* done: one less; it is called once for each that was announced.
Done(t) ==
    /\ pc[t] = "idle" /\ mCounter > 0
    /\ mCounter' = mCounter - 1 /\ Goto(t, "notify")
    /\ UNCHANGED <<mMutex, wait, hist>>

\* Mutant: one waiter is woken.
WokenOne ==
    LET asleep == {u \in Threads : pc[u] = "asleep"} IN
    IF asleep = {} THEN {} ELSE {CHOOSE u \in asleep : TRUE}

\* notify_all: those it wakes.
Woken == {u \in Threads : pc[u] = "asleep"}

\* done: notify_all.
Notify(t) ==
    /\ pc[t] = "notify"
    /\ pc' = [u \in Threads |->
                 CASE u = t -> "idle" [] u \in Woken -> "woken" [] OTHER -> pc[u]]
    /\ missed' = missed \cup {u \in Threads : pc[u] = "sleep"}
    /\ UNCHANGED <<mCounter, mMutex, wait, added>>

\* wait, with or without a timeout.
Wait(t) ==
    /\ pc[t] = "idle" /\ Goto(t, "lock")
    /\ timed' \in {timed \cup {t}, timed}
    /\ UNCHANGED <<mCounter, mMutex, late, hist>>

\* What a thread does with mMutex: the wait_until that woke late says so.
TestNext(t) == IF pc[t] = "woken" /\ t \in late THEN "lastTest" ELSE "test"

\* A wait takes mMutex: at first, and when it woke.
Lock(t) ==
    /\ pc[t] \in {"lock", "woken"} /\ mMutex = NoThread
    /\ mMutex' = t /\ Goto(t, TestNext(t))
    /\ UNCHANGED <<mCounter, wait, hist>>

\* The predicate.
Zero == mCounter <= 0

\* A test: wait returns, or is going to sleep.
Test(t) ==
    /\ pc[t] \in {"test", "lastTest"} /\ missed' = missed \ {t}
    /\ IF Zero \/ pc[t] = "lastTest"
       THEN /\ mMutex' = NoThread /\ Goto(t, "idle")
            /\ timed' = timed \ {t} /\ late' = late \ {t}
       ELSE /\ Goto(t, "sleep") /\ UNCHANGED <<mMutex, wait>>
    /\ UNCHANGED <<mCounter, added>>

\* The condition variable releases mMutex, and the thread sleeps.
Sleep(t) ==
    /\ pc[t] = "sleep" /\ Goto(t, "asleep") /\ mMutex' = NoThread
    /\ UNCHANGED <<mCounter, wait, hist>>

\* Mutant: the overload with a timeout waits without it.
TimeIgnored(t) == t \in timed \ late /\ UNCHANGED vars

\* The time of a wait passes.
TimePasses(t) ==
    /\ pc[t] \notin {"idle", "notify"} /\ t \in timed \ late
    /\ late' = late \cup {t}
    /\ UNCHANGED <<mCounter, mMutex, pc, timed, hist>>

\* A sleep ends because it is late; or without a reason, as those of a
\* condition variable may.
Expire(t) ==
    /\ pc[t] = "asleep" /\ t \in late /\ Goto(t, "woken")
    /\ UNCHANGED <<mCounter, mMutex, wait, hist>>
Spurious(t) ==
    /\ pc[t] = "asleep" /\ Goto(t, "woken")
    /\ UNCHANGED <<mCounter, mMutex, wait, hist>>

Init ==
    /\ mCounter = 0 /\ mMutex = NoThread
    /\ pc = [t \in Threads |-> "idle"]
    /\ timed = {} /\ late = {} /\ missed = {}
    /\ added = 0

Next ==
    \E t \in Threads :
        \/ \E i \in 1..MaxAdded : Add(t, i)
        \/ Done(t) \/ Wait(t) \/ Lock(t) \/ Notify(t) \/ Test(t) \/ Sleep(t)
        \/ TimePasses(t) \/ Expire(t) \/ Spurious(t)

Spec == Init /\ [][Next]_vars

\* A thread inside a call goes on, timeouts come, and a mutex that is free
\* again and again is taken.  Nobody has to call anything.
FairSpec ==
    /\ Spec
    /\ \A t \in Threads :
           /\ WF_vars(Notify(t) \/ Test(t) \/ Sleep(t) \/ Expire(t))
           /\ WF_vars(TimePasses(t)) /\ SF_vars(Lock(t))

-----------------------------------------------------------------------------
(* Properties. *)

Labels == {"idle", "notify", "lock", "test", "sleep", "asleep", "woken", "lastTest"}

\* Every variable holds values of its type.
TypeOK ==
    /\ mCounter \in 0..added /\ mMutex \in Threads \cup {NoThread}
    /\ pc \in [Threads -> Labels]
    /\ timed \subseteq Threads /\ late \subseteq timed /\ missed \subseteq Threads
    /\ added \in 0..MaxAdded

\* A wait that sleeps although everything announced is done is about to be
\* woken, unless the last notification came between its test and its sleep:
\* that is the only way in which a wait outlives its reason.
StuckOnlyIfMissed ==
    \A t \in Threads :
        pc[t] = "asleep" /\ mCounter <= 0 =>
            t \in missed \/ \E u \in Threads : pc[u] = "notify"

\* A wait with a timeout ends, whatever is done or not done, and although a
\* notification is missed.
TimedWaitEnds ==
    \A t \in Threads : pc[t] \notin {"idle", "notify"} /\ t \in timed ~> pc[t] = "idle"

=============================================================================
