---------------------- MODULE IoContextThreadPoolProofs ----------------------
(***************************************************************************)
(* OwnedThreads and QuietAfterStop for any number of callers, contexts and *)
(* threads.  The first is inductive with the types; the second needs that  *)
(* a context stays stopped, whatever is started on it.  And what it takes  *)
(* for start and stop to end the process.                                  *)
(***************************************************************************)
EXTENDS IoContextThreadPool, FiniteSetTheorems, TLAPS

Calling == {"pool", "thread", "join"}
Labels(t) == Calling \cup
    IF t \in Callers THEN {"app"} ELSE {"none", "loop", "run", "handler", "exited"}

TypeOK ==
    /\ mPoolGuard \in Threads \cup {NoOne}
    /\ mIoThreadGuard \in [Contexts -> Threads \cup {NoOne}]
    /\ mIoThreads \in [Contexts -> SUBSET IoThreads]
    /\ stopped \in [Contexts -> BOOLEAN] /\ ready \in [Contexts -> Nat]
    /\ DOMAIN pc = Threads /\ \A t \in Threads : pc[t] \in Labels(t)
    /\ op \in [Threads -> {"start", "stop"}] /\ at \in [Threads -> Contexts]
    /\ crashed \in BOOLEAN /\ stops \subseteq Contexts
    /\ calls \in Nat /\ posts \in Nat

\* A thread joins for a stop that has told the context, and a handler is at
\* what handlers call.
HandlersCall ==
    /\ \A t \in Threads : pc[t] = "join" => op[t] = "stop" /\ stopped[at[t]]
    /\ \A u \in IoThreads : op[u] \in HandlerCalls \cup {"start"}

\* What stop said to a context, start does not take back.
StaysStopped == ~crashed => \A c \in stops : stopped[c]

IInv == TypeOK /\ HandlersCall
            /\ OwnedThreads /\ QuietAfterStop /\ StaysStopped

USE DEF locks, ctx, Goto

\* A context without threads has room for ThreadNum, and start finds them.
LEMMA Found ==
    ASSUME NEW c \in Contexts, Alive(c) = {}, DOMAIN pc = Threads
    PROVE  /\ \A u \in NewThreads(c) : u \in IoThreads /\ u[1] = c /\ pc[u] = "none"
           /\ Cardinality(NewThreads(c)) = ThreadNum
<1> DEFINE free == {u \in IoThreads : u[1] = c /\ pc[u] = "none"}
           some == {<<c, i>> : i \in 1..ThreadNum}
           f == [i \in 1..ThreadNum |-> <<c, i>>]
<1>1. ThreadNum \in Nat
  BY SizesAssumption
<1>2. some \subseteq free
  BY <1>1 DEF IoThreads, Alive
<1>3. f \in Bijection(1..ThreadNum, some)
  BY <1>1 DEF Bijection, Injection, Surjection, IsInjective
<1>4. Cardinality(some) = ThreadNum
  <2>1. ExistsBijection(1..ThreadNum, some)
    BY <1>3 DEF ExistsBijection
  <2> QED
    BY <1>1, <2>1, FS_CountingElements
<1>5. some \in kSubset(ThreadNum, free)
  BY <1>2, <1>4 DEF kSubset
<1>6. NewThreads(c) \in kSubset(ThreadNum, free)
  BY <1>5 DEF NewThreads
<1> QED
  BY <1>6 DEF kSubset

\* The initial state.
LEMMA Starts == Init => IInv
<1> SUFFICES ASSUME Init PROVE IInv
  OBVIOUS
<1> USE SizesAssumption, ThreadsAssumption DEF Init
<1>1. TypeOK
  <2>1. 1 \in Contexts
    BY DEF Contexts
  <2>2. \A t \in Threads : pc[t] \in Labels(t)
    BY DEF Labels, Threads
  <2> QED
    BY <2>1, <2>2 DEF TypeOK
<1>2. HandlersCall /\ StaysStopped
  BY DEF HandlersCall, StaysStopped, Threads
<1>3. \A c \in Contexts : Alive(c) = {}
  BY DEF Alive, Threads
<1>4. OwnedThreads
  BY <1>3, FS_EmptySet DEF OwnedThreads
<1>5. QuietAfterStop
  BY DEF QuietAfterStop
<1> QED
  BY <1>1, <1>2, <1>4, <1>5 DEF IInv

\* What Advance does to the thread that returns, and to the others.
LEMMA Advances ==
    ASSUME TypeOK, NEW t \in Threads, pc[t] \in Calling, NEW Others \in SUBSET IoThreads,
           NEW label \in {"loop", "none"}, Advance(t, Others, label)
    PROVE  /\ mPoolGuard' \in Threads \cup {NoOne} /\ at' \in [Threads -> Contexts]
           /\ DOMAIN pc' = Threads /\ \A u \in Threads : pc'[u] \in Labels(u)
           /\ pc'[t] \in {"thread", UserCode(t)}
           /\ \A u \in Threads \ {t} : pc'[u] = IF u \in Others THEN label ELSE pc[u]
           /\ \A u \in Threads \ {t} : at'[u] = at[u]
<1> USE SizesAssumption, ThreadsAssumption DEF TypeOK, Labels, Calling, UserCode, Threads
<1>1. mPoolGuard' \in Threads \cup {NoOne} /\ at' \in [Threads -> Contexts]
  BY DEF Advance, Contexts
<1>2. DOMAIN pc' = Threads
  BY DEF Advance
<1>3. pc'[t] \in {"thread", UserCode(t)}
  BY DEF Advance
<1>4. \A u \in Threads \ {t} : pc'[u] = IF u \in Others THEN label ELSE pc[u]
  BY DEF Advance
<1>5. ASSUME NEW u \in Threads PROVE pc'[u] \in Labels(u)
  BY <1>3, <1>4, <1>5
<1>6. \A u \in Threads \ {t} : at'[u] = at[u]
  BY DEF Advance
<1> QED
  BY <1>1, <1>2, <1>3, <1>4, <1>5, <1>6

\* start creates threads of its context, and only those.
LEMMA SpawnsTyped ==
    ASSUME TypeOK, OwnedThreads, ~crashed, NEW c \in Contexts
    PROVE  /\ Spawns(c) \subseteq {u \in IoThreads : u[1] = c /\ pc[u] = "none"}
           /\ mIoThreads[c] # {} => Spawns(c) = {}
           /\ mIoThreads[c] = {} => Cardinality(Spawns(c)) = ThreadNum
<1>1. CASE mIoThreads[c] = {}
  <2>1. Alive(c) = {}
    BY <1>1 DEF OwnedThreads
  <2>2. DOMAIN pc = Threads
    BY DEF TypeOK
  <2> QED
    BY <1>1, <2>1, <2>2, Found DEF Spawns
<1> QED
  BY <1>1 DEF Spawns

\* Every step keeps the types.
LEMMA Typed == TypeOK /\ OwnedThreads /\ [Next]_vars => TypeOK'
<1> SUFFICES ASSUME TypeOK, OwnedThreads, [Next]_vars PROVE TypeOK'
  OBVIOUS
<1> USE SizesAssumption, ThreadsAssumption, CallsAssumption
<1>1. CASE UNCHANGED vars
  BY <1>1 DEF vars, TypeOK
<1>2. ASSUME NEW t \in Threads, Call(t) PROVE TypeOK'
  <2>1. op' \in [Threads -> {"start", "stop"}]
    BY <1>2 DEF Call, TypeOK
  <2>3. at' \in [Threads -> Contexts]
    <3>1. 1 \in Contexts
      BY DEF Contexts
    <3> QED
      BY <1>2, <3>1 DEF Call, TypeOK
  <2>2. DOMAIN pc' = Threads /\ \A u \in Threads : pc'[u] \in Labels(u)
    BY <1>2 DEF Call, TypeOK, Labels, Calling
  <2> QED
    BY <1>2, <2>1, <2>2, <2>3 DEF Call, TypeOK
<1>3. ASSUME NEW t \in Threads, LockPool(t) PROVE TypeOK'
  BY <1>3 DEF LockPool, TypeOK, Labels, Calling
<1>4. ASSUME NEW t \in Threads, ~crashed, Start(t) PROVE TypeOK'
  <2>1. at[t] \in Contexts /\ pc[t] \in Calling
    BY <1>4 DEF TypeOK, Start, Calling
  <2>2. Spawns(at[t]) \subseteq IoThreads
    BY <1>4, <2>1, SpawnsTyped
  <2>3. Advance(t, Spawns(at[t]), "loop")
    BY <1>4 DEF Start
  <2>4. /\ mPoolGuard' \in Threads \cup {NoOne} /\ at' \in [Threads -> Contexts]
        /\ DOMAIN pc' = Threads /\ \A u \in Threads : pc'[u] \in Labels(u)
    BY <2>1, <2>2, <2>3, Advances
  <2> QED
    BY <1>4, <2>1, <2>2, <2>4 DEF Start, TypeOK
<1>5. ASSUME NEW t \in Threads, Stop(t) PROVE TypeOK'
  BY <1>5 DEF Stop, TypeOK, Labels, Calling
<1>6. ASSUME NEW t \in Threads, Joined(t) PROVE TypeOK'
  <2>1. at[t] \in Contexts /\ pc[t] \in Calling
    BY <1>6 DEF TypeOK, Joined, Calling
  <2>2. Joinable(t) \subseteq IoThreads
    BY <2>1 DEF TypeOK, Joinable
  <2>3. Advance(t, Joinable(t), "none")
    BY <1>6 DEF Joined
  <2>4. /\ mPoolGuard' \in Threads \cup {NoOne} /\ at' \in [Threads -> Contexts]
        /\ DOMAIN pc' = Threads /\ \A u \in Threads : pc'[u] \in Labels(u)
    BY <2>1, <2>2, <2>3, Advances
  <2> QED
    BY <1>6, <2>1, <2>4 DEF Joined, TypeOK
<1>7. ASSUME NEW u \in IoThreads, IoStep(u) PROVE TypeOK'
  <2>1. u \in Threads /\ u \notin Callers /\ u[1] \in Contexts
    BY DEF Threads, IoThreads
  <2>2. ready' \in [Contexts -> Nat]
    BY <1>7, <2>1 DEF IoStep, RunOne, TypeOK
  <2>3. DOMAIN pc' = Threads /\ \A t \in Threads : pc'[t] \in Labels(t)
    BY <1>7, <2>1 DEF IoStep, Loop, RunOne, TypeOK, Labels
  <2> QED
    BY <1>7, <2>2, <2>3 DEF IoStep, TypeOK
<1>8. ASSUME NEW c \in Contexts, PostHandler(c) PROVE TypeOK'
  BY <1>8 DEF PostHandler, TypeOK
<1> QED
  BY <1>1, <1>2, <1>3, <1>4, <1>5, <1>6, <1>7, <1>8 DEF Next, Step

\* What a step may do to the threads of a context: a thread that goes on in
\* its operation, or in the pool's loop, is one before and after.
SameThreads == \A u \in IoThreads : pc[u] = "none" <=> pc'[u] = "none"

\* Every step leaves a context the threads that its vector owns.
LEMMA Owned == IInv /\ [Next]_vars => OwnedThreads'
<1> SUFFICES ASSUME IInv, [Next]_vars, ~crashed', NEW c \in Contexts
             PROVE  Alive(c)' = mIoThreads'[c] /\ Cardinality(Alive(c)') <= ThreadNum
  BY DEF OwnedThreads
<1> USE SizesAssumption, ThreadsAssumption
<1>a. TypeOK /\ OwnedThreads /\ HandlersCall
  BY DEF IInv
<1>b. \A u \in IoThreads : u \in Threads /\ u \notin Callers
  BY DEF Threads
<1>c. ASSUME SameThreads, mIoThreads' = mIoThreads, ~crashed
      PROVE  Alive(c)' = mIoThreads'[c] /\ Cardinality(Alive(c)') <= ThreadNum
  <2>1. Alive(c)' = Alive(c)
    BY <1>c DEF SameThreads, Alive
  <2> QED
    BY <2>1, <1>a, <1>c DEF OwnedThreads
<1>d. ASSUME UNCHANGED <<pc, mIoThreads, crashed>>
      PROVE  Alive(c)' = mIoThreads'[c] /\ Cardinality(Alive(c)') <= ThreadNum
  BY <1>c, <1>d DEF SameThreads
<1>1. CASE UNCHANGED vars
  BY <1>1, <1>d DEF vars
<1>2. ASSUME NEW t \in Threads, ~crashed, Call(t)
      PROVE  Alive(c)' = mIoThreads'[c] /\ Cardinality(Alive(c)') <= ThreadNum
  <2>1. SameThreads
    BY <1>2, <1>a, <1>b DEF Call, SameThreads, TypeOK, UserCode
  <2> QED
    BY <1>2, <2>1, <1>c DEF Call
<1>3. ASSUME NEW t \in Threads, ~crashed, LockPool(t)
      PROVE  Alive(c)' = mIoThreads'[c] /\ Cardinality(Alive(c)') <= ThreadNum
  <2>1. SameThreads
    BY <1>3, <1>a, <1>b DEF LockPool, SameThreads, TypeOK
  <2> QED
    BY <1>3, <2>1, <1>c DEF LockPool
<1>4. ASSUME NEW t \in Threads, ~crashed, Start(t)
      PROVE  Alive(c)' = mIoThreads'[c] /\ Cardinality(Alive(c)') <= ThreadNum
  <2> DEFINE new == Spawns(at[t])
  <2>1. at[t] \in Contexts /\ pc[t] \in Calling /\ pc[t] # "none"
    BY <1>4, <1>a DEF TypeOK, Start, Calling
  <2>2. /\ new \subseteq {u \in IoThreads : u[1] = at[t] /\ pc[u] = "none"}
        /\ mIoThreads[at[t]] # {} => new = {}
        /\ mIoThreads[at[t]] = {} => Cardinality(new) = ThreadNum
    BY <1>4, <1>a, <2>1, SpawnsTyped
  <2>3. Advance(t, new, "loop")
    BY <1>4 DEF Start
  <2>4. /\ pc'[t] \in {"thread", UserCode(t)}
        /\ \A u \in Threads \ {t} : pc'[u] = IF u \in new THEN "loop" ELSE pc[u]
    BY <1>a, <2>1, <2>2, <2>3, Advances
  <2>5. \A u \in IoThreads : pc'[u] # "none" <=> pc[u] # "none" \/ u \in new
    BY <1>b, <2>1, <2>2, <2>4 DEF UserCode
  <2>6. mIoThreads' = [mIoThreads EXCEPT ![at[t]] = @ \cup new]
    BY <1>4 DEF Start
  <2>7. Alive(c)' = Alive(c) \cup (IF c = at[t] THEN new ELSE {})
    BY <2>2, <2>5 DEF Alive
  <2>8. Alive(c) = mIoThreads[c] /\ Cardinality(Alive(c)) <= ThreadNum
    BY <1>4, <1>a DEF OwnedThreads
  <2>9. mIoThreads'[c] = mIoThreads[c] \cup (IF c = at[t] THEN new ELSE {})
    BY <1>a, <2>1, <2>6 DEF TypeOK
  <2>10. CASE c = at[t] /\ mIoThreads[c] = {}
    BY <2>2, <2>7, <2>8, <2>9, <2>10
  <2>11. CASE c # at[t] \/ mIoThreads[c] # {}
    BY <2>2, <2>7, <2>8, <2>9, <2>11
  <2> QED
    BY <2>10, <2>11
<1>5. ASSUME NEW t \in Threads, ~crashed, Stop(t)
      PROVE  Alive(c)' = mIoThreads'[c] /\ Cardinality(Alive(c)') <= ThreadNum
  <2>1. SameThreads
    BY <1>5, <1>a, <1>b DEF Stop, SameThreads, TypeOK
  <2> QED
    BY <1>5, <2>1, <1>c DEF Stop
<1>6. ASSUME NEW t \in Threads, ~crashed, Joined(t)
      PROVE  Alive(c)' = mIoThreads'[c] /\ Cardinality(Alive(c)') <= ThreadNum
  <2>1. at[t] \in Contexts /\ pc[t] \in Calling /\ pc[t] # "none"
    BY <1>6, <1>a DEF TypeOK, Joined, Calling
  <2>2. Joinable(t) = mIoThreads[at[t]] /\ t \notin mIoThreads[at[t]]
    BY <1>6 DEF Joined, Joinable
  <2>3. Joinable(t) = Alive(at[t])
    BY <1>6, <1>a, <2>1, <2>2 DEF OwnedThreads
  <2>4. Advance(t, Joinable(t), "none")
    BY <1>6 DEF Joined
  <2>5. /\ pc'[t] \in {"thread", UserCode(t)}
        /\ \A u \in Threads \ {t} : pc'[u] = IF u \in Joinable(t) THEN "none" ELSE pc[u]
    BY <1>a, <2>1, <2>3, <2>4, Advances DEF Alive
  <2>6. \A u \in IoThreads : pc'[u] # "none" <=> pc[u] # "none" /\ u \notin Alive(at[t])
    BY <1>b, <2>1, <2>2, <2>3, <2>5 DEF UserCode
  <2>7. Alive(c)' = IF c = at[t] THEN {} ELSE Alive(c)
    BY <2>6 DEF Alive
  <2>8. mIoThreads'[c] = IF c = at[t] THEN {} ELSE mIoThreads[c]
    BY <1>6, <1>a, <2>1 DEF Joined, TypeOK
  <2> QED
    BY <1>6, <1>a, <2>7, <2>8, FS_EmptySet DEF OwnedThreads
<1>7. ASSUME NEW u \in IoThreads, ~crashed, IoStep(u)
      PROVE  Alive(c)' = mIoThreads'[c] /\ Cardinality(Alive(c)') <= ThreadNum
  <2>1. SameThreads
    BY <1>7, <1>a, <1>b DEF IoStep, Loop, RunOne, SameThreads, TypeOK
  <2> QED
    BY <1>7, <2>1, <1>c DEF IoStep
<1>8. ASSUME NEW d \in Contexts, PostHandler(d)
      PROVE  Alive(c)' = mIoThreads'[c] /\ Cardinality(Alive(c)') <= ThreadNum
  BY <1>8, <1>d DEF PostHandler
<1> QED
  BY <1>1, <1>2, <1>3, <1>4, <1>5, <1>6, <1>7, <1>8 DEF Next, Step

\* Every step keeps what handlers are at.
LEMMA Handlers == IInv /\ [Next]_vars => HandlersCall'
<1> SUFFICES ASSUME IInv, [Next]_vars PROVE HandlersCall'
  OBVIOUS
<1> USE SizesAssumption, ThreadsAssumption
<1>a. TypeOK /\ OwnedThreads /\ HandlersCall
  BY DEF IInv
<1>b. \A u \in IoThreads : u \in Threads /\ u \notin Callers
  BY DEF Threads
<1> USE <1>a, <1>b DEF HandlersCall
<1>1. CASE UNCHANGED vars
  BY <1>1 DEF vars
<1>2. ASSUME NEW t \in Threads, Call(t) PROVE HandlersCall'
  BY <1>2 DEF Call, TypeOK
<1>3. ASSUME NEW t \in Threads, LockPool(t) PROVE HandlersCall'
  BY <1>3 DEF LockPool, TypeOK
<1>4. ASSUME NEW t \in Threads, ~crashed, Start(t) PROVE HandlersCall'
  <2>1. at[t] \in Contexts /\ pc[t] \in Calling
    BY <1>4 DEF TypeOK, Start, Calling
  <2>2. Spawns(at[t]) \subseteq IoThreads
    BY <1>4, <2>1, SpawnsTyped
  <2>3. Advance(t, Spawns(at[t]), "loop")
    BY <1>4 DEF Start
  <2>4. /\ pc'[t] \in {"thread", UserCode(t)}
        /\ \A u \in Threads \ {t} : pc'[u] = IF u \in Spawns(at[t]) THEN "loop" ELSE pc[u]
        /\ \A u \in Threads \ {t} : at'[u] = at[u]
    BY <2>1, <2>2, <2>3, Advances
  <2> QED
    BY <1>4, <2>4 DEF Start, UserCode
<1>5. ASSUME NEW t \in Threads, Stop(t) PROVE HandlersCall'
  BY <1>5 DEF Stop, TypeOK
<1>6. ASSUME NEW t \in Threads, Joined(t) PROVE HandlersCall'
  <2>1. at[t] \in Contexts /\ pc[t] \in Calling
    BY <1>6 DEF TypeOK, Joined, Calling
  <2>2. Joinable(t) \subseteq IoThreads
    BY <2>1 DEF TypeOK, Joinable
  <2>3. Advance(t, Joinable(t), "none")
    BY <1>6 DEF Joined
  <2>4. /\ pc'[t] \in {"thread", UserCode(t)}
        /\ \A u \in Threads \ {t} : pc'[u] = IF u \in Joinable(t) THEN "none" ELSE pc[u]
        /\ \A u \in Threads \ {t} : at'[u] = at[u]
    BY <2>1, <2>2, <2>3, Advances
  <2> QED
    BY <1>6, <2>4 DEF Joined, UserCode
<1>7. ASSUME NEW u \in IoThreads, IoStep(u) PROVE HandlersCall'
  BY <1>7 DEF IoStep, Loop, RunOne, TypeOK
<1>8. ASSUME NEW c \in Contexts, PostHandler(c) PROVE HandlersCall'
  BY <1>8 DEF PostHandler
<1> QED
  BY <1>1, <1>2, <1>3, <1>4, <1>5, <1>6, <1>7, <1>8 DEF Next, Step

\* Every step leaves a context quiet on which a stop has returned: what start
\* creates there finds it stopped, in the first turn of its loop.
LEMMA Quiet == IInv /\ [Next]_vars => QuietAfterStop' /\ StaysStopped'
<1> SUFFICES ASSUME IInv, [Next]_vars, ~crashed', NEW c \in stops'
             PROVE  stopped'[c] /\ \A u \in Alive(c)' : pc'[u] \in {"loop", "exited"}
  BY DEF QuietAfterStop, StaysStopped
<1> USE SizesAssumption, ThreadsAssumption
<1>a. TypeOK /\ OwnedThreads /\ HandlersCall
  BY DEF IInv
<1>b. \A u \in IoThreads : u \in Threads /\ u \notin Callers
  BY DEF Threads
<1>c. ASSUME c \in stops, ~crashed
      PROVE  /\ stopped[c] /\ c \in Contexts
             /\ \A u \in IoThreads : u[1] = c => pc[u] \in {"none", "loop", "exited"}
  BY <1>c DEF IInv, QuietAfterStop, StaysStopped, Alive, TypeOK
<1> SUFFICES stopped'[c] /\ \A u \in IoThreads : u[1] = c => pc'[u] \in {"none", "loop", "exited"}
  BY DEF Alive
<1>1. CASE UNCHANGED vars
  BY <1>1, <1>c DEF vars
<1>2. ASSUME NEW t \in Threads, ~crashed, Call(t)
      PROVE  stopped'[c] /\ \A u \in IoThreads : u[1] = c => pc'[u] \in {"none", "loop", "exited"}
  BY <1>2, <1>a, <1>b, <1>c DEF Call, TypeOK, UserCode
<1>3. ASSUME NEW t \in Threads, ~crashed, LockPool(t)
      PROVE  stopped'[c] /\ \A u \in IoThreads : u[1] = c => pc'[u] \in {"none", "loop", "exited"}
  BY <1>3, <1>a, <1>b, <1>c DEF LockPool, TypeOK
<1>4. ASSUME NEW t \in Threads, ~crashed, Start(t)
      PROVE  stopped'[c] /\ \A u \in IoThreads : u[1] = c => pc'[u] \in {"none", "loop", "exited"}
  <2>1. at[t] \in Contexts /\ pc[t] \in Calling /\ pc[t] = "thread"
    BY <1>4, <1>a DEF TypeOK, Start, Calling
  <2>2. Spawns(at[t]) \subseteq IoThreads
    BY <1>4, <1>a, <2>1, SpawnsTyped
  <2>3. Advance(t, Spawns(at[t]), "loop")
    BY <1>4 DEF Start
  <2>4. \A u \in Threads \ {t} : pc'[u] = IF u \in Spawns(at[t]) THEN "loop" ELSE pc[u]
    BY <1>a, <2>1, <2>2, <2>3, Advances
  <2> QED
    BY <1>4, <1>b, <1>c, <2>1, <2>4 DEF Start
<1>5. ASSUME NEW t \in Threads, ~crashed, Stop(t)
      PROVE  stopped'[c] /\ \A u \in IoThreads : u[1] = c => pc'[u] \in {"none", "loop", "exited"}
  BY <1>5, <1>a, <1>b, <1>c DEF Stop, TypeOK
<1>6. ASSUME NEW t \in Threads, ~crashed, Joined(t)
      PROVE  stopped'[c] /\ \A u \in IoThreads : u[1] = c => pc'[u] \in {"none", "loop", "exited"}
  <2>1. at[t] \in Contexts /\ pc[t] \in Calling /\ pc[t] = "join"
    BY <1>6, <1>a DEF TypeOK, Joined, Calling
  <2>2. Joinable(t) = Alive(at[t]) /\ t \notin Alive(at[t])
    BY <1>6, <1>a, <2>1 DEF OwnedThreads, Joined, Joinable
  <2>3. Advance(t, Joinable(t), "none")
    BY <1>6 DEF Joined
  <2>4. \A u \in Threads \ {t} : pc'[u] = IF u \in Joinable(t) THEN "none" ELSE pc[u]
    BY <1>a, <2>1, <2>2, <2>3, Advances DEF Alive
  <2>5. CASE c = at[t]
    <3>1. stopped[at[t]]
      BY <1>a, <2>1 DEF HandlersCall
    <3>2. \A u \in IoThreads : u[1] = c => pc'[u] = "none"
      BY <1>b, <2>1, <2>2, <2>4, <2>5 DEF Alive
    <3> QED
      BY <1>6, <2>5, <3>1, <3>2 DEF Joined
  <2>6. CASE c # at[t]
    <3>1. c \in stops
      BY <1>6, <2>6 DEF Joined
    <3>2. \A u \in IoThreads : u[1] = c => u # t /\ u \notin Joinable(t)
      BY <1>6, <1>c, <2>1, <2>2, <2>6, <3>1 DEF Alive
    <3> QED
      BY <1>6, <1>b, <1>c, <2>4, <3>1, <3>2 DEF Joined
  <2> QED
    BY <2>5, <2>6
<1>7. ASSUME NEW v \in IoThreads, ~crashed, IoStep(v)
      PROVE  stopped'[c] /\ \A u \in IoThreads : u[1] = c => pc'[u] \in {"none", "loop", "exited"}
  BY <1>7, <1>a, <1>b, <1>c DEF IoStep, Loop, RunOne, TypeOK
<1>8. ASSUME NEW d \in Contexts, ~crashed, PostHandler(d)
      PROVE  stopped'[c] /\ \A u \in IoThreads : u[1] = c => pc'[u] \in {"none", "loop", "exited"}
  BY <1>8, <1>c DEF PostHandler
<1> QED
  BY <1>1, <1>2, <1>3, <1>4, <1>5, <1>6, <1>7, <1>8 DEF Next, Step

\* The invariant of every behaviour.
THEOREM Invariance == Spec => []IInv
<1>1. IInv /\ [Next]_vars => IInv'
  BY Typed, Owned, Handlers, Quiet DEF IInv
<1> QED
  BY Starts, <1>1, PTL DEF Spec

\* However start and stop race, from any number of application threads and of
\* handlers: a context runs the threads its vector owns, ThreadNum at most, so
\* that stop joins every thread that start created.
THEOREM OwnedThreadsAlways == Spec => []OwnedThreads
<1>1. IInv => OwnedThreads
  BY DEF IInv
<1> QED
  BY Invariance, <1>1, PTL

\* Once a stop of a context has returned no handler runs there again.
THEOREM QuietAfterStopAlways == Spec => []QuietAfterStop
<1>1. IInv => QuietAfterStop
  BY DEF IInv
<1> QED
  BY Invariance, <1>1, PTL

----------------------------------------------------------------------------
(* What ends the process. *)

\* A handler stops the context it runs on, by itself or with the pool.
OwnStop == \E u \in IoThreads : pc[u] = "thread" /\ op[u] = "stop" /\ at[u] = u[1]

\* The process goes on, and no thread waits to join itself.
GoesOn == ~crashed /\ \A u \in IoThreads : pc[u] = "join" => at[u] # u[1]

\* Unless a handler stops its own context, no step destroys a std::thread that
\* is joinable: a vector holds threads of its own context only.
LEMMA KeepsOn == IInv /\ GoesOn /\ ~OwnStop /\ [Next]_vars => GoesOn'
<1> SUFFICES ASSUME IInv, GoesOn, ~OwnStop, [Next]_vars PROVE GoesOn'
  OBVIOUS
<1> USE SizesAssumption, ThreadsAssumption
<1>a. TypeOK /\ OwnedThreads /\ HandlersCall /\ ~crashed
  BY DEF IInv, GoesOn
<1>b. \A u \in IoThreads : u \in Threads /\ u \notin Callers
  BY DEF Threads
<1>1. CASE UNCHANGED vars
  BY <1>1 DEF vars, GoesOn
<1>2. ASSUME NEW t \in Threads, Call(t) PROVE GoesOn'
  BY <1>2, <1>a, <1>b DEF Call, TypeOK, GoesOn
<1>3. ASSUME NEW t \in Threads, LockPool(t) PROVE GoesOn'
  BY <1>3, <1>a, <1>b DEF LockPool, TypeOK, GoesOn
<1>4. ASSUME NEW t \in Threads, Start(t) PROVE GoesOn'
  <2>1. at[t] \in Contexts /\ pc[t] \in Calling
    BY <1>4, <1>a DEF TypeOK, Start, Calling
  <2>2. Spawns(at[t]) \subseteq IoThreads
    BY <1>4, <1>a, <2>1, SpawnsTyped
  <2>3. Advance(t, Spawns(at[t]), "loop")
    BY <1>4 DEF Start
  <2>4. /\ pc'[t] \in {"thread", UserCode(t)}
        /\ \A u \in Threads \ {t} : pc'[u] = IF u \in Spawns(at[t]) THEN "loop" ELSE pc[u]
        /\ \A u \in Threads \ {t} : at'[u] = at[u]
    BY <1>a, <2>1, <2>2, <2>3, Advances
  <2> QED
    BY <1>4, <1>b, <2>4 DEF Start, UserCode, GoesOn
<1>5. ASSUME NEW t \in Threads, Stop(t) PROVE GoesOn'
  <2>1. pc' = [pc EXCEPT ![t] = "join"] /\ at' = at /\ crashed' = crashed
    BY <1>5 DEF Stop
  <2>2. t \in IoThreads => at[t] # t[1]
    BY <1>5 DEF Stop, OwnStop
  <2> QED
    BY <1>a, <1>b, <2>1, <2>2 DEF TypeOK, GoesOn
<1>6. ASSUME NEW t \in Threads, Joined(t) PROVE GoesOn'
  <2>1. at[t] \in Contexts /\ pc[t] \in Calling /\ pc[t] = "join"
    BY <1>6, <1>a DEF TypeOK, Joined, Calling
  <2>2. Joinable(t) \subseteq IoThreads
    BY <1>a, <2>1 DEF TypeOK, Joinable
  <2>3. Advance(t, Joinable(t), "none")
    BY <1>6 DEF Joined
  <2>4. /\ pc'[t] \in {"thread", UserCode(t)}
        /\ \A u \in Threads \ {t} : pc'[u] = IF u \in Joinable(t) THEN "none" ELSE pc[u]
        /\ \A u \in Threads \ {t} : at'[u] = at[u]
    BY <1>a, <2>1, <2>2, <2>3, Advances
  <2>5. \A u \in mIoThreads[at[t]] : u \in IoThreads /\ u[1] = at[t]
    <3>1. mIoThreads[at[t]] = Alive(at[t])
      BY <1>a, <2>1 DEF OwnedThreads
    <3> QED
      BY <3>1 DEF Alive
  <2>6. t \notin mIoThreads[at[t]]
    BY <2>1, <2>5 DEF GoesOn
  <2>7. ~crashed'
    BY <1>6, <2>6 DEF Joined
  <2> QED
    BY <1>b, <2>4, <2>7 DEF UserCode, GoesOn
<1>7. ASSUME NEW u \in IoThreads, IoStep(u) PROVE GoesOn'
  BY <1>7, <1>a, <1>b DEF IoStep, Loop, RunOne, TypeOK, GoesOn
<1>8. ASSUME NEW c \in Contexts, PostHandler(c) PROVE GoesOn'
  BY <1>8 DEF PostHandler, GoesOn
<1> QED
  BY <1>1, <1>2, <1>3, <1>4, <1>5, <1>6, <1>7, <1>8 DEF Next, Step

\* start and stop end the process only when a handler stops the very context it
\* runs on, itself or through the pool (IoContextThread.hpp:48-65): handlers
\* may stop every other context, and application threads all of them.
THEOREM NeverTerminates == Spec /\ []~OwnStop => []~crashed
<1>1. Init => GoesOn
  BY DEF Init, GoesOn, Threads, IoThreads
<1>2. GoesOn => ~crashed
  BY DEF GoesOn
<1> QED
  BY Invariance, KeepsOn, <1>1, <1>2, PTL DEF Spec

=============================================================================
