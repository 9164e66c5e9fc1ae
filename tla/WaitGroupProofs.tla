--------------------------- MODULE WaitGroupProofs ---------------------------
(***************************************************************************)
(* StuckOnlyIfMissed for any number of threads.  Asleep is not enough to   *)
(* be inductive: a thread between its test and its sleep is in the same    *)
(* position, and a notification finds it there.                            *)
(***************************************************************************)
EXTENDS WaitGroup, TLAPS

\* A thread that gave up mMutex, or is about to, because something was left.
Waiting(t) == pc[t] \in {"sleep", "asleep"}
WillBeWoken ==
    \A t \in Threads :
        Waiting(t) /\ mCounter <= 0 => t \in missed \/ \E u \in Threads : pc[u] = "notify"

IInv == TypeOK /\ WillBeWoken

USE DEF Goto, wait, hist

\* The initial state.
LEMMA Starts == Init => IInv
BY BoundAssumption DEF Init, IInv, TypeOK, WillBeWoken, Waiting, Labels

\* Every step keeps the types.
LEMMA Typed == TypeOK /\ [Next]_vars => TypeOK'
<1> SUFFICES ASSUME TypeOK, [Next]_vars PROVE TypeOK'
  OBVIOUS
<1> USE ThreadsAssumption, BoundAssumption DEF TypeOK, Labels
<1>1. CASE UNCHANGED vars
  BY <1>1 DEF vars
<1>2. ASSUME NEW t \in Threads, NEW i \in 1..MaxAdded, Add(t, i) PROVE TypeOK'
  BY <1>2 DEF Add
<1>3. ASSUME NEW t \in Threads, Done(t) PROVE TypeOK'
  BY <1>3 DEF Done
<1>4. ASSUME NEW t \in Threads, Wait(t) PROVE TypeOK'
  BY <1>4 DEF Wait
<1>5. ASSUME NEW t \in Threads, Lock(t) PROVE TypeOK'
  BY <1>5 DEF Lock, TestNext
<1>6. ASSUME NEW t \in Threads, Notify(t) PROVE TypeOK'
  BY <1>6 DEF Notify, Woken
<1>7. ASSUME NEW t \in Threads, Test(t) PROVE TypeOK'
  BY <1>7 DEF Test
<1>8. ASSUME NEW t \in Threads, Sleep(t) PROVE TypeOK'
  BY <1>8 DEF Sleep
<1>9. ASSUME NEW t \in Threads, TimePasses(t) PROVE TypeOK'
  BY <1>9 DEF TimePasses
<1>10. ASSUME NEW t \in Threads, Expire(t) \/ Spurious(t) PROVE TypeOK'
  BY <1>10 DEF Expire, Spurious
<1> QED
  BY <1>1, <1>2, <1>3, <1>4, <1>5, <1>6, <1>7, <1>8, <1>9, <1>10 DEF Next

\* Every step keeps a waiting thread's promise: only done takes the counter
\* down, and its own notification is then to come; when it comes, it finds the
\* thread asleep, or marks it.
LEMMA Kept == IInv /\ [Next]_vars => WillBeWoken'
<1> SUFFICES ASSUME TypeOK, WillBeWoken, [Next]_vars,
                    NEW u \in Threads, Waiting(u)', mCounter' <= 0,
                    u \notin missed'
             PROVE  \E v \in Threads : pc'[v] = "notify"
  BY DEF IInv, WillBeWoken, Waiting
<1> USE DEF TypeOK, Waiting
<1>a. ASSUME Waiting(u), mCounter <= 0, u \notin missed
      PROVE  \E v \in Threads : pc[v] = "notify"
  BY <1>a DEF WillBeWoken
<1>1. CASE UNCHANGED vars
  BY <1>1, <1>a DEF vars
<1>2. ASSUME NEW t \in Threads, NEW i \in 1..MaxAdded, Add(t, i)
      PROVE  \E v \in Threads : pc'[v] = "notify"
  BY <1>2, <1>a, BoundAssumption DEF Add
<1>3. ASSUME NEW t \in Threads, Done(t) PROVE \E v \in Threads : pc'[v] = "notify"
  BY <1>3 DEF Done
<1>4. ASSUME NEW t \in Threads, Wait(t) PROVE \E v \in Threads : pc'[v] = "notify"
  <2>1. u # t /\ pc[u] = pc'[u] /\ UNCHANGED <<mCounter, missed>> /\ pc[t] # "notify"
    BY <1>4 DEF Wait
  <2>2. PICK v \in Threads : pc[v] = "notify"
    BY <2>1, <1>a
  <2> QED
    BY <1>4, <2>1, <2>2 DEF Wait
<1>5. ASSUME NEW t \in Threads, Lock(t) PROVE \E v \in Threads : pc'[v] = "notify"
  <2>1. u # t /\ pc[u] = pc'[u] /\ UNCHANGED <<mCounter, missed>> /\ pc[t] # "notify"
    BY <1>5 DEF Lock, TestNext
  <2>2. PICK v \in Threads : pc[v] = "notify"
    BY <2>1, <1>a
  <2> QED
    BY <1>5, <2>1, <2>2 DEF Lock
<1>6. ASSUME NEW t \in Threads, Notify(t) PROVE FALSE
  BY <1>6 DEF Notify, Woken
<1>7. ASSUME NEW t \in Threads, Test(t) PROVE \E v \in Threads : pc'[v] = "notify"
  <2>1. u # t
    BY <1>7 DEF Test, Zero
  <2>2. pc[u] = pc'[u] /\ UNCHANGED mCounter /\ u \notin missed /\ pc[t] # "notify"
    BY <1>7, <2>1 DEF Test
  <2>3. PICK v \in Threads : pc[v] = "notify"
    BY <2>2, <1>a
  <2>4. pc'[v] = pc[v]
    BY <1>7, <2>2, <2>3 DEF Test
  <2> QED
    BY <2>3, <2>4
<1>8. ASSUME NEW t \in Threads, Sleep(t) PROVE \E v \in Threads : pc'[v] = "notify"
  <2>1. Waiting(u) /\ UNCHANGED <<mCounter, missed>> /\ pc[t] # "notify"
    BY <1>8 DEF Sleep
  <2>2. PICK v \in Threads : pc[v] = "notify"
    BY <2>1, <1>a
  <2> QED
    BY <1>8, <2>1, <2>2 DEF Sleep
<1>9. ASSUME NEW t \in Threads, TimePasses(t) PROVE \E v \in Threads : pc'[v] = "notify"
  BY <1>9, <1>a DEF TimePasses
<1>10. ASSUME NEW t \in Threads, Expire(t) \/ Spurious(t)
       PROVE  \E v \in Threads : pc'[v] = "notify"
  <2>1. Waiting(u) /\ UNCHANGED <<mCounter, missed>> /\ pc[t] # "notify"
    BY <1>10 DEF Expire, Spurious
  <2>2. PICK v \in Threads : pc[v] = "notify"
    BY <2>1, <1>a
  <2> QED
    BY <1>10, <2>1, <2>2 DEF Expire, Spurious
<1> QED
  BY <1>1, <1>2, <1>3, <1>4, <1>5, <1>6, <1>7, <1>8, <1>9, <1>10 DEF Next

\* The invariant of every behaviour.
THEOREM Invariance == Spec => []IInv
<1>1. IInv /\ [Next]_vars => IInv'
  BY Typed, Kept DEF IInv
<1> QED
  BY Starts, <1>1, PTL DEF Spec

\* However many threads add, finish and wait: a wait sleeps on although all is
\* done only if a notification came between its test and its sleep (done does
\* not hold mMutex), or the notification is about to come.
THEOREM StuckOnlyIfMissedAlways == Spec => []StuckOnlyIfMissed
<1>1. IInv => StuckOnlyIfMissed
  BY DEF IInv, WillBeWoken, StuckOnlyIfMissed, Waiting
<1> QED
  BY Invariance, <1>1, PTL

=============================================================================
