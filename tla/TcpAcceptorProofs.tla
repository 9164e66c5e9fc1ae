-------------------------- MODULE TcpAcceptorProofs --------------------------
(***************************************************************************)
(* OneAcceptPerLoop and DeliveredOnItsContext for any number of threads,   *)
(* contexts and connections.  For the first, what a loop is doing is in    *)
(* one place and what was never started is in none; for the second, no     *)
(* accepted connection is in flight twice.                                 *)
(***************************************************************************)
EXTENDS TcpAcceptor, FiniteSetTheorems, SequenceTheorems, TLAPS

Pool == 0..Contexts - 1
Accepts == [ctx : Pool, callback : Callbacks]
Deliveries == [conn : Connections, ctx : Pool, callback : Callbacks]
Completions == [conn : Connections \cup {NoConn}, ctx : Pool, callback : Callbacks]

TypeOK ==
    /\ open \in BOOLEAN
    /\ accepting \in Seq(Accepts) /\ completions \in Seq(Completions)
    /\ posted \in [Pool -> Seq(Deliveries)]
    /\ mPickIoContextIndex \in Pool
    /\ pc \in [Threads -> {Idle} \cup [at : {"doAccept", "accept"}, callback : Callbacks]]
    /\ backlog \subseteq Connections
    /\ accepted \subseteq Deliveries /\ delivered \subseteq Deliveries
    /\ starts \in 0..MaxLoops /\ loops \subseteq 1..starts /\ errors \in Nat

\* Where the accept of a callback may be.
At(s, b) == {i \in DOMAIN s : s[i].callback = b}
Accepting(b) == At(accepting, b)
Completing(b) == At(completions, b)
Running(b) == {t \in Threads : pc[t].callback = b /\ (t \in Listeners \/ pc[t].at = "accept")}

InOnePlace(b) ==
    \/ Completing(b) = {} /\ Running(b) = {} /\ \E i \in Accepting(b) : Accepting(b) = {i}
    \/ Accepting(b) = {} /\ Running(b) = {} /\ \E i \in Completing(b) : Completing(b) = {i}
    \/ Accepting(b) = {} /\ Completing(b) = {} /\ \E t \in Running(b) : Running(b) = {t}
Nowhere(b) == Accepting(b) = {} /\ Completing(b) = {} /\ Running(b) = {}

Places == open => \A b \in Callbacks : IF b \in loops THEN InOnePlace(b) ELSE Nowhere(b)

\* A call of startAccept that has not looked at the acceptor yet has a
\* callback of its own, which is in no loop.
Calling(t) == t \in Callers /\ pc[t].at = "doAccept"
OwnCallback ==
    /\ \A t \in Callers : pc[t].callback <= starts
    /\ \A t \in Threads : Calling(t) => pc[t].callback \notin loops
    /\ \A t, u \in Threads :
         Calling(t) /\ Calling(u) /\ pc[t].callback = pc[u].callback => t = u

\* No accepted connection is in flight twice, and each is bound for the
\* context that it is posted to.
Once ==
    /\ \A i, j \in DOMAIN completions :
         completions[i] = completions[j] /\ completions[i].conn # NoConn => i = j
    /\ \A c \in Pool : \A i \in DOMAIN posted[c] :
         /\ posted[c][i].ctx = c
         /\ posted[c][i] \notin ToSet(completions)
         /\ \A j \in DOMAIN posted[c] : posted[c][i] = posted[c][j] => i = j

\* A connection that waits was not accepted.
Waits == \A h \in accepted : h.conn \notin backlog

IInv == TypeOK /\ Places /\ OwnCallback /\ Once /\ Waits /\ DeliveredOnItsContext

-----------------------------------------------------------------------------
(* Sequences. *)

\* Append adds a place.
LEMMA AtAppend ==
    ASSUME NEW S, NEW s \in Seq(S), NEW e \in S, NEW b
    PROVE  At(Append(s, e), b) = At(s, b) \cup (IF e.callback = b THEN {Len(s) + 1} ELSE {})
<1>1. Len(s) \in Nat /\ DOMAIN s = 1..Len(s)
  BY LenProperties
<1>2. DOMAIN Append(s, e) = 1..Len(s) + 1
  OBVIOUS
<1>3. /\ Append(s, e)[Len(s) + 1] = e
      /\ \A i \in 1..Len(s) : Append(s, e)[i] = s[i]
  OBVIOUS
<1>4. 1..Len(s) + 1 = (1..Len(s)) \cup {Len(s) + 1} /\ Len(s) + 1 \notin 1..Len(s)
  BY <1>1
<1> QED
  BY <1>1, <1>2, <1>3, <1>4 DEF At

\* RemoveAt closes the gap.
LEMMA Removed ==
    ASSUME NEW S, NEW s \in Seq(S), NEW i \in DOMAIN s
    PROVE  /\ RemoveAt(s, i) \in Seq(S)
           /\ DOMAIN RemoveAt(s, i) = 1..Len(s) - 1
           /\ \A j \in 1..Len(s) - 1 :
                RemoveAt(s, i)[j] = IF j < i THEN s[j] ELSE s[j + 1]
<1> DEFINE u == SubSeq(s, 1, i - 1)
           v == SubSeq(s, i + 1, Len(s))
<1>1. Len(s) \in Nat /\ DOMAIN s = 1..Len(s) /\ i \in 1..Len(s)
  BY LenProperties
<1>2. u \in Seq(S) /\ Len(u) = i - 1 /\ \A j \in 1..i - 1 : u[j] = s[j]
  <2>1. \A j \in 1..i - 1 : s[j] \in S
    BY <1>1, ElementOfSeq
  <2> QED
    BY <1>1, <2>1, SubSeqProperties
<1>3. v \in Seq(S) /\ Len(v) = Len(s) - i /\ \A j \in 1..Len(s) - i : v[j] = s[i + j]
  <2>1. \A j \in i + 1..Len(s) : s[j] \in S
    BY <1>1, ElementOfSeq
  <2>2. /\ v \in Seq(S)
        /\ Len(v) = IF i + 1 <= Len(s) THEN Len(s) - (i + 1) + 1 ELSE 0
        /\ \A j \in 1..Len(s) - (i + 1) + 1 : v[j] = s[i + 1 + j - 1]
    BY <1>1, <2>1, SubSeqProperties
  <2> HIDE DEF v
  <2> QED
    BY <1>1, <2>2
<1> HIDE DEF u, v
<1>4. /\ u \o v \in Seq(S)
      /\ Len(u \o v) = Len(s) - 1
      /\ \A j \in 1..Len(s) - 1 : (u \o v)[j] = IF j <= i - 1 THEN u[j] ELSE v[j - (i - 1)]
  <2>1. Len(u) + Len(v) = Len(s) - 1
    BY <1>1, <1>2, <1>3
  <2>2. /\ u \o v \in Seq(S)
        /\ Len(u \o v) = Len(u) + Len(v)
        /\ \A j \in 1..Len(u) + Len(v) :
             (u \o v)[j] = IF j <= Len(u) THEN u[j] ELSE v[j - Len(u)]
    BY <1>2, <1>3, ConcatProperties
  <2> QED
    BY <1>2, <2>1, <2>2
<1>5. ASSUME NEW j \in 1..Len(s) - 1 PROVE (u \o v)[j] = IF j < i THEN s[j] ELSE s[j + 1]
  <2>3. (u \o v)[j] = IF j <= i - 1 THEN u[j] ELSE v[j - (i - 1)]
    BY <1>4
  <2>1. CASE j < i
    <3>1. j \in 1..i - 1
      BY <1>1, <2>1
    <3> QED
      BY <1>2, <2>3, <2>1, <3>1
  <2>2. CASE j >= i
    <3>1. j - (i - 1) \in 1..Len(s) - i /\ i + (j - (i - 1)) = j + 1 /\ ~(j <= i - 1) /\ ~(j < i)
      BY <1>1, <2>2
    <3>2. v[j - (i - 1)] = s[j + 1]
      BY <1>3, <3>1
    <3>3. (u \o v)[j] = v[j - (i - 1)]
      BY <2>3, <3>1
    <3> QED
      BY <3>1, <3>2, <3>3, Zenon
  <2>4. j < i \/ j >= i
    BY <1>1
  <2> QED
    BY <2>1, <2>2, <2>4, Zenon
<1> QED
  BY <1>4, <1>5, LenProperties DEF RemoveAt, u, v

\* Without the place it was at, or another.
LEMMA AtRemoved ==
    ASSUME NEW S, NEW s \in Seq(S), NEW i \in DOMAIN s, NEW b
    PROVE  /\ At(s, b) = {} => At(RemoveAt(s, i), b) = {}
           /\ At(s, b) = {i} => At(RemoveAt(s, i), b) = {}
           /\ \A k \in DOMAIN s \ {i} :
                At(s, b) = {k} => \E j \in At(RemoveAt(s, i), b) : At(RemoveAt(s, i), b) = {j}
<1> DEFINE r == RemoveAt(s, i)
<1>1. Len(s) \in Nat /\ DOMAIN s = 1..Len(s) /\ i \in 1..Len(s)
  BY LenProperties
<1>2. DOMAIN r = 1..Len(s) - 1 /\ \A j \in 1..Len(s) - 1 : r[j] = IF j < i THEN s[j] ELSE s[j + 1]
  BY Removed
<1> HIDE DEF r
<1>3. ASSUME NEW j \in At(r, b) PROVE (IF j < i THEN j ELSE j + 1) \in At(s, b) \ {i}
  BY <1>1, <1>2, <1>3 DEF At
<1>4. ASSUME NEW k \in DOMAIN s \ {i}, At(s, b) = {k} PROVE \E j \in At(r, b) : At(r, b) = {j}
  <2> DEFINE j == IF k < i THEN k ELSE k - 1
  <2>1. j \in At(r, b)
    BY <1>1, <1>2, <1>4 DEF At
  <2>2. \A m \in At(r, b) : m = j
    <3>1. \A m \in At(r, b) : m \in 1..Len(s) - 1 /\ (IF m < i THEN m ELSE m + 1) = k
      BY <1>2, <1>3, <1>4 DEF At
    <3> QED
      BY <1>1, <3>1
  <2> HIDE DEF j
  <2> QED
    BY <2>1, <2>2
<1>5. At(s, b) = {} \/ At(s, b) = {i} => At(r, b) = {}
  BY <1>3
<1> QED
  BY <1>4, <1>5 DEF r

\* Tail removes the first.
LEMMA TailRemoves ==
    ASSUME NEW S, NEW s \in Seq(S), s # <<>>
    PROVE  Tail(s) = RemoveAt(s, 1) /\ Head(s) = s[1] /\ 1 \in DOMAIN s
<1>1. SubSeq(s, 1, 1 - 1) = <<>>
  BY SubSeqEmpty
<1>2. Tail(s) = SubSeq(s, 2, Len(s))
  BY TailIsSubSeq
<1>3. SubSeq(s, 2, Len(s)) \in Seq(S)
  BY <1>2, HeadTailProperties
<1>4. <<>> \o SubSeq(s, 2, Len(s)) = SubSeq(s, 2, Len(s))
  BY <1>3, ConcatEmptySeq
<1>5. Len(s) \in Nat \ {0} /\ DOMAIN s = 1..Len(s)
  BY EmptySeq, LenProperties
<1> QED
  BY <1>1, <1>2, <1>4, <1>5 DEF RemoveAt

-----------------------------------------------------------------------------
(* The types. *)

USE ThreadsAssumption, SizesAssumption, BoundsAssumption
USE DEF hist, Callbacks, Pool, Goto, Leave

\* The initial state.
LEMMA Starts == Init => IInv
<1> SUFFICES ASSUME Init PROVE IInv
  OBVIOUS
<1> USE DEF Init
<1>1. TypeOK
  BY EmptySeq DEF TypeOK
<1>2. Places
  BY EmptySeq DEF Places, Nowhere, At, Accepting, Completing, Running, Idle
<1>3. OwnCallback
  BY DEF OwnCallback, Calling, Idle
<1>4. Once /\ Waits
  BY DEF Once, Waits
<1>5. DeliveredOnItsContext
  BY DEF DeliveredOnItsContext, InFlight, ToSet
<1> QED
  BY <1>1, <1>2, <1>3, <1>4, <1>5 DEF IInv

\* The accept handlers that a close, or an accept, makes ready.
LEMMA CompletionTyped ==
    ASSUME NEW a \in Accepts
    PROVE  /\ Completion(NoConn, a) \in Completions
           /\ Completion(NoConn, a).conn = NoConn
           /\ \A conn \in Connections : /\ Completion(conn, a) \in Deliveries
                                        /\ Completion(conn, a) \in Completions
                                        /\ Completion(conn, a).conn = conn
           /\ \A conn : Completion(conn, a).callback = a.callback
BY DEF Completion, Accepts, Completions, Deliveries

\* Every step keeps the types.
LEMMA Typed == TypeOK /\ OwnCallback /\ Once /\ [Next]_vars => TypeOK'
<1> SUFFICES ASSUME TypeOK, OwnCallback, Once, [Next]_vars PROVE TypeOK'
  OBVIOUS
<1>1. CASE UNCHANGED vars
  BY <1>1 DEF vars, TypeOK
<1>2. ASSUME NEW t \in Callers, StartAccept(t) PROVE TypeOK'
  BY <1>2 DEF StartAccept, TypeOK, Threads
<1>3. ASSUME NEW t \in Callers, Close(t) PROVE TypeOK'
  <2> DEFINE ends == [i \in DOMAIN accepting |-> Completion(NoConn, accepting[i])]
  <2>1. ends \in Seq(Completions)
    <3>1. Len(accepting) \in Nat /\ DOMAIN accepting = 1..Len(accepting)
      BY LenProperties DEF TypeOK
    <3>2. \A i \in 1..Len(accepting) : Completion(NoConn, accepting[i]) \in Completions
      BY <3>1, ElementOfSeq, CompletionTyped DEF TypeOK
    <3> QED
      BY <3>1, <3>2, IsASeq
  <2>2. completions' \in Seq(Completions)
    BY <1>3, <2>1, ConcatProperties DEF Close, TypeOK
  <2>3. accepting' \in Seq(Accepts)
    BY <1>3, EmptySeq DEF Close
  <2> QED
    BY <1>3, <2>2, <2>3 DEF Close, TypeOK
<1>4. ASSUME NEW t \in Threads, IsOpen(t) PROVE TypeOK'
  <2>1. pc[t].callback \in Callbacks
    BY <1>4 DEF IsOpen, TypeOK, Idle
  <2>2. t \in Callers => pc[t].callback \in 1..starts
    BY <2>1 DEF OwnCallback, TypeOK
  <2>3. loops' \subseteq 1..starts
    BY <1>4, <2>2 DEF IsOpen, TypeOK
  <2>4. pc' \in [Threads -> {Idle} \cup [at : {"doAccept", "accept"}, callback : Callbacks]]
    <3>1. [at |-> "accept", callback |-> pc[t].callback]
            \in [at : {"doAccept", "accept"}, callback : Callbacks]
      BY <2>1
    <3>2. \E v \in {Idle} \cup [at : {"doAccept", "accept"}, callback : Callbacks] :
            pc' = [pc EXCEPT ![t] = v]
      BY <1>4, <3>1 DEF IsOpen
    <3> QED
      BY <3>2 DEF TypeOK
  <2> QED
    BY <1>4, <2>3, <2>4 DEF IsOpen, TypeOK
<1>5. ASSUME NEW t \in Threads, AsyncAccept(t) PROVE TypeOK'
  <2> DEFINE a == Accept(mPickIoContextIndex, pc[t].callback)
  <2>1. pc[t].callback \in Callbacks
    BY <1>5 DEF AsyncAccept, TypeOK, Idle
  <2>2. a \in Accepts
    BY <2>1 DEF Accept, Accepts, TypeOK
  <2>3. mPickIoContextIndex' \in Pool
    BY <1>5 DEF AsyncAccept, TypeOK
  <2>4. accepting' \in Seq(Accepts) /\ completions' \in Seq(Completions)
    <3>1. Completion(NoConn, a) \in Completions
      BY <2>2, CompletionTyped
    <3> HIDE DEF a
    <3>2. open => accepting' = Append(accepting, a) /\ completions' = completions
      BY <1>5 DEF AsyncAccept, a
    <3>3. ~open => completions' = Append(completions, Completion(NoConn, a)) /\ accepting' = accepting
      BY <1>5 DEF AsyncAccept, a
    <3>4. accepting \in Seq(Accepts) /\ completions \in Seq(Completions)
      BY DEF TypeOK
    <3>5. Append(accepting, a) \in Seq(Accepts)
      BY ONLY <2>2, <3>4
    <3>6. Append(completions, Completion(NoConn, a)) \in Seq(Completions)
      BY ONLY <3>1, <3>4
    <3> QED
      BY <3>2, <3>3, <3>4, <3>5, <3>6, Zenon
  <2> QED
    BY <1>5, <2>3, <2>4 DEF AsyncAccept, TypeOK
<1>6. ASSUME NEW t \in Threads, OnAccept(t) PROVE TypeOK'
  <2> DEFINE h == Head(completions)
  <2>1. h \in Completions /\ Tail(completions) \in Seq(Completions)
    BY <1>6, HeadTailProperties DEF OnAccept, TypeOK
  <2>2. posted' \in [Pool -> Seq(Deliveries)]
    <3>1. h.conn # NoConn => h \in Deliveries /\ h.ctx \in Pool
      BY <2>1 DEF Completions, Deliveries
    <3> HIDE DEF h
    <3> QED
      BY <1>6, <3>1 DEF OnAccept, PostCallback, TypeOK, h
  <2>3. pc' \in [Threads -> {Idle} \cup [at : {"doAccept", "accept"}, callback : Callbacks]]
    BY <1>6, <2>1 DEF OnAccept, AfterHandler, TypeOK, Completions
  <2> QED
    BY <1>6, <2>1, <2>2, <2>3 DEF OnAccept, TypeOK
<1>7. ASSUME NEW i \in DOMAIN accepting, AcceptEnds(i) PROVE TypeOK'
  <2>1. accepting[i] \in Accepts
    BY ElementOfSeq, LenProperties DEF TypeOK
  <2>2. accepting' \in Seq(Accepts)
    BY <1>7, Removed DEF AcceptEnds, TypeOK
  <2>3. completions' \in Seq(Completions)
    <3>1. \E e \in Completions : completions' = Append(completions, e)
      <4>1. \E conn \in Connections \cup {NoConn} :
              completions' = Append(completions, Completion(conn, accepting[i]))
        BY <1>7 DEF AcceptEnds, TypeOK
      <4> QED
        BY <2>1, <4>1, CompletionTyped
    <3> QED
      BY <3>1 DEF TypeOK
  <2>4. accepted' \subseteq Deliveries
    BY <1>7, <2>1, CompletionTyped DEF AcceptEnds, TypeOK
  <2>5. backlog' \subseteq Connections /\ errors' \in Nat
    BY <1>7 DEF AcceptEnds, TypeOK
  <2> QED
    BY <1>7, <2>2, <2>3, <2>4, <2>5 DEF AcceptEnds, TypeOK
<1>8. ASSUME NEW c \in Pool, Callback(c) PROVE TypeOK'
  <2>1. Head(posted[c]) \in Deliveries /\ Tail(posted[c]) \in Seq(Deliveries)
    BY <1>8, HeadTailProperties DEF Callback, TypeOK
  <2>2. [Head(posted[c]) EXCEPT !.ctx = c] \in Deliveries
    BY <2>1 DEF Deliveries
  <2> QED
    BY <1>8, <2>1, <2>2 DEF Callback, TypeOK
<1> QED
  BY <1>1, <1>2, <1>3, <1>4, <1>5, <1>6, <1>7, <1>8 DEF Next, Step

-----------------------------------------------------------------------------
(* The loops. *)

\* Every step keeps the callbacks of the calls apart.
LEMMA Apart == IInv /\ [Next]_vars => OwnCallback'
<1> SUFFICES ASSUME TypeOK, OwnCallback, [Next]_vars PROVE OwnCallback'
  BY DEF IInv
<1> DEFINE Keeps == /\ loops' = loops /\ starts' = starts
                    /\ \A u \in Threads : Calling(u)' => Calling(u) /\ pc'[u] = pc[u]
                    /\ \A u \in Callers : pc'[u].callback <= starts
<1>a. ASSUME Keeps PROVE OwnCallback'
  BY <1>a DEF OwnCallback
<1>b. ASSUME UNCHANGED <<pc, loops, starts>> PROVE OwnCallback'
  BY <1>b DEF OwnCallback, Calling
<1>1. CASE UNCHANGED vars
  BY <1>1, <1>b DEF vars
<1>2. ASSUME NEW t \in Callers, StartAccept(t) PROVE OwnCallback'
  <2>1. t \in Threads /\ starts' = starts + 1 /\ loops' = loops
    BY <1>2 DEF StartAccept, Threads
  <2>2. pc' = [pc EXCEPT ![t] = [at |-> "doAccept", callback |-> starts + 1]]
    BY <1>2 DEF StartAccept
  <2>3. starts + 1 \notin loops /\ starts \in Nat
    BY DEF TypeOK
  <2>4. \A u \in Threads \ {t} : pc'[u] = pc[u]
    BY <2>2 DEF TypeOK
  <2>5. pc'[t].callback = starts + 1
    BY <2>1, <2>2 DEF TypeOK
  <2>6. \A u \in Callers : u \in Threads /\ pc[u].callback <= starts /\ pc[u].callback \in Nat
    BY DEF OwnCallback, TypeOK, Idle, Threads
  <2>7. \A u \in Callers : pc'[u].callback <= starts + 1
    BY <2>3, <2>4, <2>5, <2>6
  <2>8. \A u \in Callers \ {t} : pc'[u].callback # starts + 1
    BY <2>3, <2>4, <2>6
  <2> QED
    BY <2>1, <2>3, <2>4, <2>5, <2>7, <2>8 DEF OwnCallback, Calling
<1>3. ASSUME NEW t \in Callers, Close(t) PROVE OwnCallback'
  BY <1>3, <1>b DEF Close
<1>4. ASSUME NEW t \in Threads, IsOpen(t) PROVE OwnCallback'
  <2>1. \A u \in Threads \ {t} : pc'[u] = pc[u]
    BY <1>4 DEF IsOpen, TypeOK
  <2>2. pc'[t].at # "doAccept" /\ (t \in Callers => pc'[t].callback <= starts)
    BY <1>4 DEF IsOpen, TypeOK, OwnCallback, Idle
  <2>3. \A b \in loops' : b \in loops \/ (Calling(t) /\ b = pc[t].callback)
    <3>1. loops' \subseteq loops \cup (IF t \in Callers THEN {pc[t].callback} ELSE {})
      BY <1>4 DEF IsOpen
    <3> QED
      BY <1>4, <3>1 DEF IsOpen, Calling
  <2>4. \A u \in Threads : Calling(u)' => Calling(u) /\ u # t /\ pc'[u] = pc[u]
    BY <2>1, <2>2 DEF Calling
  <2>5. starts' = starts /\ \A u \in Callers : u \in Threads
    BY <1>4 DEF IsOpen, Threads
  <2> QED
    BY <2>1, <2>2, <2>3, <2>4, <2>5 DEF OwnCallback
<1>5. ASSUME NEW t \in Threads, AsyncAccept(t) PROVE OwnCallback'
  <2>1. Keeps
    BY <1>5 DEF AsyncAccept, TypeOK, OwnCallback, Calling, Idle
  <2> QED
    BY <2>1, <1>a
<1>6. ASSUME NEW t \in Threads, OnAccept(t) PROVE OwnCallback'
  <2>1. t \notin Callers /\ loops' = loops /\ starts' = starts
    BY <1>6 DEF OnAccept
  <2>2. \A u \in Threads \ {t} : pc'[u] = pc[u]
    BY <1>6 DEF OnAccept, AfterHandler, TypeOK
  <2>3. Keeps
    BY <2>1, <2>2 DEF OwnCallback, Calling, Threads
  <2> QED
    BY <2>3, <1>a
<1>7. ASSUME NEW i \in DOMAIN accepting, AcceptEnds(i) PROVE OwnCallback'
  BY <1>7, <1>b DEF AcceptEnds
<1>8. ASSUME NEW c \in Pool, Callback(c) PROVE OwnCallback'
  BY <1>8, <1>b DEF Callback
<1> QED
  BY <1>1, <1>2, <1>3, <1>4, <1>5, <1>6, <1>7, <1>8 DEF Next, Step

\* What one step does to the places of a callback, when it does not start it.
Unmoved(b) == UNCHANGED <<Accepting(b), Completing(b), Running(b)>>

\* Every step leaves each loop in one place: it moves from one to the next.
LEMMA Placed == IInv /\ [Next]_vars => Places'
<1> SUFFICES ASSUME IInv, [Next]_vars, open', NEW b \in Callbacks
             PROVE  IF b \in loops' THEN InOnePlace(b)' ELSE Nowhere(b)'
  BY DEF Places
<1>a. TypeOK /\ OwnCallback /\ Places
  BY DEF IInv
<1>b. ASSUME open, Unmoved(b), loops' = loops
      PROVE  IF b \in loops' THEN InOnePlace(b)' ELSE Nowhere(b)'
  BY <1>a, <1>b DEF Places, InOnePlace, Nowhere, Unmoved
<1>1. CASE UNCHANGED vars
  BY <1>1, <1>b DEF vars, Unmoved, Accepting, Completing, Running, At
<1>2. ASSUME NEW t \in Callers, StartAccept(t)
      PROVE  IF b \in loops' THEN InOnePlace(b)' ELSE Nowhere(b)'
  <2>1. t \in Threads /\ t \notin Listeners /\ pc[t] = Idle
    BY <1>2 DEF StartAccept, Threads
  <2>2. Running(b)' = Running(b)
    BY <1>2, <1>a, <2>1 DEF StartAccept, Running, TypeOK, Idle
  <2>3. Unmoved(b) /\ open /\ loops' = loops
    BY <1>2, <2>2 DEF StartAccept, Unmoved, Accepting, Completing
  <2> QED
    BY <2>3, <1>b
<1>3. ASSUME NEW t \in Callers, Close(t)
      PROVE  IF b \in loops' THEN InOnePlace(b)' ELSE Nowhere(b)'
  BY <1>3 DEF Close
<1>4. ASSUME NEW t \in Threads, IsOpen(t)
      PROVE  IF b \in loops' THEN InOnePlace(b)' ELSE Nowhere(b)'
  <2>1. /\ open /\ Accepting(b)' = Accepting(b) /\ Completing(b)' = Completing(b)
        /\ pc[t].at = "doAccept"
        /\ pc' = [pc EXCEPT ![t] = [at |-> "accept", callback |-> pc[t].callback]]
        /\ loops' = IF t \in Callers THEN loops \cup {pc[t].callback} ELSE loops
    BY <1>4 DEF IsOpen, Accepting, Completing
  <2>2. CASE t \in Callers /\ pc[t].callback = b
    <3>1. b \notin loops /\ t \notin Listeners
      BY <1>a, <2>1, <2>2 DEF OwnCallback, Calling
    <3>2. Nowhere(b)
      BY <1>a, <2>1, <3>1 DEF Places
    <3>3. Running(b)' = {t}
      BY <1>a, <2>1, <2>2, <3>2 DEF Nowhere, Running, TypeOK
    <3> QED
      BY <2>1, <2>2, <3>2, <3>3 DEF Nowhere, InOnePlace
  <2>3. CASE ~(t \in Callers /\ pc[t].callback = b)
    <3>1. Running(b)' = Running(b)
      BY <1>a, <2>1, <2>3 DEF Running, TypeOK, Threads
    <3>2. b \in loops' <=> b \in loops
      BY <2>1, <2>3
    <3> QED
      BY <1>a, <2>1, <3>1, <3>2 DEF Places, Nowhere, InOnePlace
  <2> QED
    BY <2>2, <2>3
<1>5. ASSUME NEW t \in Threads, AsyncAccept(t)
      PROVE  IF b \in loops' THEN InOnePlace(b)' ELSE Nowhere(b)'
  <2> DEFINE a == Accept(mPickIoContextIndex, pc[t].callback)
  <2>1. /\ open /\ accepting' = Append(accepting, a) /\ Completing(b)' = Completing(b)
        /\ pc[t].at = "accept" /\ pc' = [pc EXCEPT ![t] = Idle] /\ loops' = loops
    BY <1>5 DEF AsyncAccept, Completing
  <2>2. Accepting(b)' = Accepting(b) \cup (IF pc[t].callback = b THEN {Len(accepting) + 1} ELSE {})
    <3>1. a \in Accepts /\ a.callback = pc[t].callback
      BY <1>a, <2>1 DEF TypeOK, Accept, Accepts, Idle
    <3>2. accepting \in Seq(Accepts)
      BY <1>a DEF TypeOK
    <3> HIDE DEF a
    <3>3. At(Append(accepting, a), b)
            = At(accepting, b) \cup (IF a.callback = b THEN {Len(accepting) + 1} ELSE {})
      BY <3>1, <3>2, AtAppend
    <3> QED
      BY <2>1, <3>1, <3>3 DEF Accepting
  <2>3. Running(b)' = Running(b) \ {t}
    BY <1>a, <2>1 DEF Running, TypeOK, Idle
  <2>4. CASE pc[t].callback = b
    <3>1. t \in Running(b)
      BY <2>1, <2>4 DEF Running
    <3>2. b \in loops /\ InOnePlace(b)
      BY <1>a, <2>1, <3>1 DEF Places, Nowhere
    <3>3. Accepting(b) = {} /\ Completing(b) = {} /\ Running(b) = {t}
      BY <3>1, <3>2 DEF InOnePlace
    <3> QED
      BY <2>1, <2>2, <2>3, <2>4, <3>2, <3>3 DEF InOnePlace
  <2>5. CASE pc[t].callback # b
    <3>1. Running(b)' = Running(b)
      BY <2>3, <2>5 DEF Running
    <3>2. Unmoved(b)
      BY <2>1, <2>2, <2>5, <3>1 DEF Unmoved
    <3> QED
      BY <2>1, <3>2, <1>b
  <2> QED
    BY <2>4, <2>5
<1>6. ASSUME NEW t \in Threads, OnAccept(t)
      PROVE  IF b \in loops' THEN InOnePlace(b)' ELSE Nowhere(b)'
  <2> DEFINE h == Head(completions)
  <2>1. /\ open /\ Accepting(b)' = Accepting(b) /\ loops' = loops
        /\ t \in Listeners /\ pc[t] = Idle
        /\ pc' = [pc EXCEPT ![t] = [at |-> "doAccept", callback |-> h.callback]]
    BY <1>6 DEF OnAccept, AfterHandler, Accepting
  <2>2. /\ completions \in Seq(Completions) /\ 1 \in DOMAIN completions
        /\ completions' = RemoveAt(completions, 1) /\ h = completions[1]
    BY <1>6, <1>a, TailRemoves DEF OnAccept, TypeOK
  <2> HIDE DEF h
  <2>3. /\ Completing(b) = {} => Completing(b)' = {}
        /\ Completing(b) = {1} => Completing(b)' = {}
        /\ \A k \in DOMAIN completions \ {1} :
             Completing(b) = {k} => \E j \in Completing(b)' : Completing(b)' = {j}
    BY <2>2, AtRemoved DEF Completing
  <2>4. Running(b)' = Running(b) \cup (IF h.callback = b THEN {t} ELSE {})
    BY <1>a, <2>1 DEF Running, TypeOK, Idle
  <2>5. 1 \in Completing(b) <=> h.callback = b
    BY <2>2 DEF Completing, At
  <2>6. \A k \in Completing(b) : k \in DOMAIN completions
    BY DEF Completing, At
  <2>7. CASE h.callback = b
    <3>1. b \in loops /\ InOnePlace(b)
      BY <1>a, <2>1, <2>5, <2>7 DEF Places, Nowhere
    <3>2. Accepting(b) = {} /\ Completing(b) = {1} /\ Running(b) = {}
      BY <2>5, <2>7, <3>1 DEF InOnePlace
    <3> QED
      BY <2>1, <2>3, <2>4, <2>7, <3>1, <3>2 DEF InOnePlace
  <2>8. CASE h.callback # b
    BY <1>a, <2>1, <2>3, <2>4, <2>5, <2>6, <2>8 DEF Places, InOnePlace, Nowhere
  <2> QED
    BY <2>7, <2>8
<1>7. ASSUME NEW i \in DOMAIN accepting, AcceptEnds(i)
      PROVE  IF b \in loops' THEN InOnePlace(b)' ELSE Nowhere(b)'
  <2>1. /\ open /\ accepting' = RemoveAt(accepting, i) /\ loops' = loops
        /\ Running(b)' = Running(b)
    BY <1>7 DEF AcceptEnds, Running
  <2>2. accepting \in Seq(Accepts) /\ completions \in Seq(Completions) /\ accepting[i] \in Accepts
    BY <1>a, ElementOfSeq, LenProperties DEF TypeOK
  <2>3. /\ Accepting(b) = {} => Accepting(b)' = {}
        /\ Accepting(b) = {i} => Accepting(b)' = {}
        /\ \A k \in DOMAIN accepting \ {i} :
             Accepting(b) = {k} => \E j \in Accepting(b)' : Accepting(b)' = {j}
    BY <2>1, <2>2, AtRemoved DEF Accepting
  <2>4. Completing(b)' = Completing(b) \cup
          (IF accepting[i].callback = b THEN {Len(completions) + 1} ELSE {})
    <3>1. PICK conn \in Connections \cup {NoConn} :
            completions' = Append(completions, Completion(conn, accepting[i]))
      BY <1>7, <1>a DEF AcceptEnds, TypeOK
    <3> DEFINE e == Completion(conn, accepting[i])
    <3>2. e \in Completions /\ e.callback = accepting[i].callback
      BY <2>2, CompletionTyped
    <3> HIDE DEF e
    <3>3. At(Append(completions, e), b)
            = At(completions, b) \cup (IF e.callback = b THEN {Len(completions) + 1} ELSE {})
      BY <2>2, <3>2, AtAppend
    <3> QED
      BY <3>1, <3>2, <3>3 DEF Completing, e
  <2>5. i \in Accepting(b) <=> accepting[i].callback = b
    BY DEF Accepting, At
  <2>6. \A k \in Accepting(b) : k \in DOMAIN accepting
    BY DEF Accepting, At
  <2>7. CASE accepting[i].callback = b
    <3>1. b \in loops /\ InOnePlace(b)
      BY <1>a, <2>1, <2>5, <2>7 DEF Places, Nowhere
    <3>2. Accepting(b) = {i} /\ Completing(b) = {} /\ Running(b) = {}
      BY <2>5, <2>7, <3>1 DEF InOnePlace
    <3> QED
      BY <2>1, <2>3, <2>4, <2>7, <3>1, <3>2 DEF InOnePlace
  <2>8. CASE accepting[i].callback # b
    BY <1>a, <2>1, <2>3, <2>4, <2>5, <2>6, <2>8 DEF Places, InOnePlace, Nowhere
  <2> QED
    BY <2>7, <2>8
<1>8. ASSUME NEW c \in Pool, Callback(c)
      PROVE  IF b \in loops' THEN InOnePlace(b)' ELSE Nowhere(b)'
  <2>1. Unmoved(b) /\ open /\ loops' = loops
    BY <1>8 DEF Callback, Unmoved, Accepting, Completing, Running
  <2> QED
    BY <2>1, <1>b
<1> QED
  BY <1>1, <1>2, <1>3, <1>4, <1>5, <1>6, <1>7, <1>8 DEF Next, Step

-----------------------------------------------------------------------------
(* The connections. *)

\* Where an accepted connection is.
Posted(h) == \E c \in Pool : \E i \in DOMAIN posted[c] : posted[c][i] = h
Completed(h) == \E i \in DOMAIN completions : completions[i] = h /\ h.conn # NoConn

\* In flight is one of the two, before and after a step.
LEMMA Flying ==
    \A h : /\ h \in InFlight <=> Posted(h) \/ Completed(h)
           /\ h \in InFlight' <=> Posted(h)' \/ Completed(h)'
<1> TAKE g
<1> DEFINE A == UNION {ToSet(posted[c]) : c \in Pool}
           B == {h \in ToSet(completions) : h.conn # NoConn}
           Ap == UNION {ToSet(posted'[c]) : c \in Pool}
           Bp == {h \in ToSet(completions') : h.conn # NoConn}
<1>1. g \in A <=> Posted(g)
  BY DEF ToSet, Posted
<1>2. g \in B <=> Completed(g)
  BY DEF ToSet, Completed
<1>3. g \in Ap <=> Posted(g)'
  BY DEF ToSet, Posted
<1>4. g \in Bp <=> Completed(g)'
  BY DEF ToSet, Completed
<1>5. InFlight = A \cup B
  BY Zenon DEF InFlight
<1>6. g \in InFlight' <=> g \in Ap \/ g \in Bp
  BY DEF InFlight
<1> HIDE DEF A, B, Ap, Bp
<1> QED
  BY <1>1, <1>2, <1>3, <1>4, <1>5, <1>6

\* Accepts that fail change nothing for the connections.
LEMMA Failing ==
    ASSUME TypeOK, Once, DeliveredOnItsContext, NEW n \in Nat, completions' \in Seq(Completions),
           Len(completions') = Len(completions) + n,
           \A i \in 1..Len(completions) : completions'[i] = completions[i],
           \A i \in Len(completions) + 1..Len(completions) + n : completions'[i].conn = NoConn,
           UNCHANGED <<posted, accepted, delivered>>
    PROVE  Once' /\ DeliveredOnItsContext'
<1>1. /\ Len(completions) \in Nat /\ DOMAIN completions = 1..Len(completions)
      /\ DOMAIN completions' = 1..Len(completions) + n
  BY LenProperties DEF TypeOK
<1>2. \A i \in DOMAIN completions' :
        \/ i \in DOMAIN completions /\ completions'[i] = completions[i]
        \/ completions'[i].conn = NoConn
  BY <1>1
<1>3. \A i \in DOMAIN completions : i \in DOMAIN completions' /\ completions'[i] = completions[i]
  BY <1>1
<1>4. \A c \in Pool : \A i \in DOMAIN posted[c] : posted[c][i].conn # NoConn
  <2> SUFFICES ASSUME NEW c \in Pool, NEW i \in DOMAIN posted[c] PROVE posted[c][i].conn # NoConn
    OBVIOUS
  <2>1. posted[c][i] \in Deliveries
    BY ElementOfSeq, LenProperties DEF TypeOK
  <2> QED
    BY <2>1 DEF Deliveries
<1>5. Once'
  BY <1>2, <1>4 DEF Once, ToSet
<1>6. InFlight' = InFlight
  BY <1>2, <1>3 DEF InFlight, ToSet
<1> QED
  BY <1>5, <1>6 DEF DeliveredOnItsContext

\* One accept that fails.
LEMMA FailingOne ==
    ASSUME TypeOK, Once, DeliveredOnItsContext, NEW e \in Completions, e.conn = NoConn,
           completions' = Append(completions, e), UNCHANGED <<posted, accepted, delivered>>
    PROVE  Once' /\ DeliveredOnItsContext'
<1>1. Len(completions) \in Nat /\ completions \in Seq(Completions)
  BY LenProperties DEF TypeOK
<1>2. /\ Append(completions, e) \in Seq(Completions)
      /\ Len(Append(completions, e)) = Len(completions) + 1
      /\ Append(completions, e)[Len(completions) + 1] = e
      /\ \A i \in 1..Len(completions) : Append(completions, e)[i] = completions[i]
  BY <1>1
<1>3. \A i \in Len(completions) + 1..Len(completions) + 1 : completions'[i].conn = NoConn
  <2>1. \A i \in Len(completions) + 1..Len(completions) + 1 : i = Len(completions) + 1
    BY <1>1
  <2> QED
    BY <1>2, <2>1
<1> QED
  BY <1>2, <1>3, Failing

\* Every step keeps each accepted connection in one place, and takes it from
\* there to the next.
LEMMA Delivered == IInv /\ [Next]_vars => Once' /\ Waits' /\ DeliveredOnItsContext'
<1> SUFFICES ASSUME IInv, [Next]_vars PROVE Once' /\ Waits' /\ DeliveredOnItsContext'
  OBVIOUS
<1>a. TypeOK /\ Once /\ Waits /\ DeliveredOnItsContext /\ TypeOK'
  BY Typed DEF IInv
<1>b. ASSUME UNCHANGED <<completions, posted, backlog, accepted, delivered>>
      PROVE  Once' /\ Waits' /\ DeliveredOnItsContext'
  <2>1. InFlight' = InFlight
    BY <1>b DEF InFlight
  <2> QED
    BY <1>a, <1>b, <2>1 DEF Once, Waits, DeliveredOnItsContext
<1>c. Len(completions) \in Nat /\ DOMAIN completions = 1..Len(completions)
  BY <1>a, LenProperties DEF TypeOK
<1>1. CASE UNCHANGED vars
  BY <1>1, <1>b DEF vars
<1>2. ASSUME NEW t \in Callers, StartAccept(t) PROVE Once' /\ Waits' /\ DeliveredOnItsContext'
  BY <1>2, <1>b DEF StartAccept
<1>3. ASSUME NEW t \in Callers, Close(t) PROVE Once' /\ Waits' /\ DeliveredOnItsContext'
  <2> DEFINE ends == [i \in DOMAIN accepting |-> Completion(NoConn, accepting[i])]
             n == Len(accepting)
  <2>1. n \in Nat /\ DOMAIN accepting = 1..n /\ \A i \in 1..n : accepting[i] \in Accepts
    BY <1>a, LenProperties, ElementOfSeq DEF TypeOK
  <2>2. ends \in Seq(Completions) /\ Len(ends) = n /\ \A i \in 1..n : ends[i].conn = NoConn
    <3>1. \A i \in 1..n : Completion(NoConn, accepting[i]) \in Completions
      BY <2>1, CompletionTyped
    <3>2. ends = [i \in 1..n |-> Completion(NoConn, accepting[i])]
      BY <2>1
    <3>3. ends \in Seq(Completions)
      BY <2>1, <3>1, <3>2, IsASeq
    <3>4. DOMAIN ends = 1..n
      BY <3>2
    <3>5. Len(ends) = n
      BY <2>1, <3>3, <3>4, LenProperties
    <3> QED
      BY <2>1, <3>2, <3>3, <3>5, CompletionTyped
  <2> HIDE DEF ends, n
  <2>3. completions' = completions \o ends
    BY <1>3 DEF Close, ends
  <2>4. /\ Len(completions \o ends) = Len(completions) + n
        /\ \A i \in 1..Len(completions) + n :
             (completions \o ends)[i] = IF i <= Len(completions) THEN completions[i]
                                                                 ELSE ends[i - Len(completions)]
    BY <1>a, <2>2, ConcatProperties DEF TypeOK
  <2>5. \A i \in 1..Len(completions) : completions'[i] = completions[i]
    BY <1>c, <2>1, <2>3, <2>4
  <2>6. ASSUME NEW i \in Len(completions) + 1..Len(completions) + n
        PROVE  completions'[i].conn = NoConn
    <3>1. i - Len(completions) \in 1..n /\ ~(i <= Len(completions)) /\ i \in 1..Len(completions) + n
      BY <1>c, <2>1, <2>6
    <3>2. completions'[i] = ends[i - Len(completions)]
      BY <2>3, <2>4, <3>1
    <3> QED
      BY <2>2, <3>1, <3>2
  <2>7. UNCHANGED <<posted, accepted, delivered, backlog>> /\ completions' \in Seq(Completions)
    BY <1>3, <1>a DEF Close, TypeOK
  <2>8. Once' /\ DeliveredOnItsContext'
    BY <1>a, <2>1, <2>3, <2>4, <2>5, <2>6, <2>7, Failing
  <2> QED
    BY <1>a, <2>7, <2>8 DEF Waits
<1>4. ASSUME NEW t \in Threads, IsOpen(t) PROVE Once' /\ Waits' /\ DeliveredOnItsContext'
  BY <1>4, <1>b DEF IsOpen
<1>5. ASSUME NEW t \in Threads, AsyncAccept(t)
      PROVE  Once' /\ Waits' /\ DeliveredOnItsContext'
  <2> DEFINE a == Accept(mPickIoContextIndex, pc[t].callback)
  <2>1. /\ open => completions' = completions
        /\ ~open => completions' = Append(completions, Completion(NoConn, a))
        /\ UNCHANGED <<posted, backlog, accepted, delivered>> /\ pc[t].at = "accept"
    BY <1>5 DEF AsyncAccept
  <2>2. a \in Accepts
    BY <1>a, <2>1 DEF TypeOK, Accept, Accepts, Idle
  <2>3. CASE open
    BY <2>1, <2>3, <1>b
  <2>4. CASE ~open
    <3>1. Completion(NoConn, a) \in Completions /\ Completion(NoConn, a).conn = NoConn
      BY <2>2, CompletionTyped
    <3>2. Once' /\ DeliveredOnItsContext'
      BY <1>a, <2>1, <2>4, <3>1, FailingOne
    <3> QED
      BY <1>a, <2>1, <3>2 DEF Waits
  <2> QED
    BY <2>3, <2>4
<1>6. ASSUME NEW t \in Threads, OnAccept(t) PROVE Once' /\ Waits' /\ DeliveredOnItsContext'
  <2> DEFINE h == Head(completions)
             n == Len(completions)
  <2>1. /\ h = completions[1] /\ 1 \in 1..n /\ h \in Completions
        /\ DOMAIN completions' = 1..n - 1
        /\ \A i \in 1..n - 1 : completions'[i] = completions[i + 1]
    <3>1. /\ completions \in Seq(Completions) /\ 1 \in DOMAIN completions
          /\ completions' = RemoveAt(completions, 1) /\ h = completions[1]
      BY <1>6, <1>a, TailRemoves DEF OnAccept, TypeOK
    <3>2. /\ DOMAIN completions' = 1..n - 1
          /\ \A j \in 1..n - 1 :
               completions'[j] = IF j < 1 THEN completions[j] ELSE completions[j + 1]
      BY <3>1, Removed
    <3>3. h \in Completions
      BY <3>1, <1>c, ElementOfSeq
    <3> HIDE DEF h
    <3> QED
      BY <1>c, <3>1, <3>2, <3>3
  <2>2. UNCHANGED <<backlog, accepted, delivered>> /\ posted' = PostCallback(h)
    BY <1>6 DEF OnAccept
  <2> HIDE DEF h, n
  <2>3. /\ \A i \in DOMAIN completions' : /\ i + 1 \in DOMAIN completions /\ i + 1 # 1
                                          /\ completions'[i] = completions[i + 1]
        /\ \A i \in DOMAIN completions : i = 1 \/ (i - 1 \in DOMAIN completions'
                                                    /\ completions'[i - 1] = completions[i])
    BY <1>c, <2>1 DEF n
  <2>4. ToSet(completions') \subseteq ToSet(completions) /\ h \in ToSet(completions)
    BY <1>c, <2>1, <2>3 DEF ToSet, n
  <2>5. \A i, j \in DOMAIN completions' :
          completions'[i] = completions'[j] /\ completions'[i].conn # NoConn => i = j
    <3> SUFFICES ASSUME NEW i \in DOMAIN completions', NEW j \in DOMAIN completions',
                        completions'[i] = completions'[j], completions'[i].conn # NoConn
                 PROVE  i = j
      OBVIOUS
    <3>1. i + 1 = j + 1
      BY <1>a, <2>3 DEF Once
    <3>2. i \in Int /\ j \in Int
      BY <2>1
    <3> QED
      BY <3>1, <3>2
  <2>6. Waits'
    BY <1>a, <2>2 DEF Waits
  <2>7. CASE h.conn = NoConn
    <3>1. posted' = posted
      BY <2>2, <2>7 DEF PostCallback
    <3>2. Once'
      BY <1>a, <2>4, <2>5, <3>1 DEF Once
    <3>3. \A g : g \in InFlight' <=> g \in InFlight
      <4> TAKE g
      <4>1. (\E i \in DOMAIN completions' : completions'[i] = g /\ g.conn # NoConn)
              <=> \E i \in DOMAIN completions : completions[i] = g /\ g.conn # NoConn
        BY <2>1, <2>3, <2>7
      <4>2. g \in InFlight' <=>
              \/ \E c \in Pool : \E i \in DOMAIN posted'[c] : posted'[c][i] = g
              \/ \E i \in DOMAIN completions' : completions'[i] = g /\ g.conn # NoConn
        BY Flying DEF Posted, Completed
      <4> QED
        BY <3>1, <4>1, <4>2, Flying DEF Posted, Completed
    <3> QED
      BY <1>a, <2>2, <2>6, <3>2, <3>3 DEF DeliveredOnItsContext
  <2>8. CASE h.conn # NoConn
    <3>1. h \in Deliveries /\ h.ctx \in Pool
      BY <2>1, <2>8 DEF Completions, Deliveries
    <3>2. posted' = [posted EXCEPT ![h.ctx] = Append(@, h)]
      BY <2>2, <2>8 DEF PostCallback
    <3>3. posted[h.ctx] \in Seq(Deliveries) /\ Len(posted[h.ctx]) \in Nat
          /\ DOMAIN posted[h.ctx] = 1..Len(posted[h.ctx])
      BY <1>a, <3>1, LenProperties DEF TypeOK
    <3>4. /\ DOMAIN posted'[h.ctx] = 1..Len(posted[h.ctx]) + 1
          /\ posted'[h.ctx][Len(posted[h.ctx]) + 1] = h
          /\ \A i \in 1..Len(posted[h.ctx]) : posted'[h.ctx][i] = posted[h.ctx][i]
          /\ \A c \in Pool \ {h.ctx} : posted'[c] = posted[c]
      BY <1>a, <3>1, <3>2, <3>3 DEF TypeOK
    <3>5. \A i \in DOMAIN posted'[h.ctx] :
            \/ i \in DOMAIN posted[h.ctx] /\ posted'[h.ctx][i] = posted[h.ctx][i]
            \/ i = Len(posted[h.ctx]) + 1 /\ posted'[h.ctx][i] = h
      BY <3>3, <3>4
    <3>6. h \notin ToSet(completions')
      <4> SUFFICES ASSUME NEW i \in DOMAIN completions', completions'[i] = h PROVE FALSE
        BY DEF ToSet
      <4>1. i + 1 \in DOMAIN completions /\ completions[i + 1] = completions[1] /\ 1 \in DOMAIN completions
        BY <1>c, <2>1, <2>3 DEF n
      <4>2. completions[i + 1].conn # NoConn
        BY <2>1, <2>8, <4>1
      <4>3. i + 1 = 1
        BY <1>a, <4>1, <4>2 DEF Once
      <4> QED
        BY <2>3, <4>3
    <3>7. \A c \in Pool : \A i \in DOMAIN posted[c] :
            posted[c][i] # h /\ posted[c][i] \notin ToSet(completions')
      BY <1>a, <2>4 DEF Once
    <3>8. Once'
      <4> SUFFICES ASSUME NEW c \in Pool, NEW i \in DOMAIN posted'[c]
                   PROVE  /\ posted'[c][i].ctx = c
                          /\ posted'[c][i] \notin ToSet(completions')
                          /\ \A j \in DOMAIN posted'[c] : posted'[c][i] = posted'[c][j] => i = j
        BY <2>5 DEF Once
      <4>1. CASE c # h.ctx
        BY <1>a, <3>4, <3>7, <4>1 DEF Once
      <4>2. CASE c = h.ctx
        BY <1>a, <3>1, <3>5, <3>6, <3>7, <4>2 DEF Once
      <4> QED
        BY <4>1, <4>2
    <3>9. \A g : g \in InFlight' <=> g \in InFlight
      <4> TAKE g
      <4>1. (\E i \in DOMAIN completions : completions[i] = g /\ g.conn # NoConn)
              <=> \/ g = h
                  \/ \E i \in DOMAIN completions' : completions'[i] = g /\ g.conn # NoConn
        BY <1>c, <2>1, <2>3, <2>8 DEF n
      <4>2. (\E c \in Pool : \E i \in DOMAIN posted'[c] : posted'[c][i] = g)
              <=> g = h \/ \E c \in Pool : \E i \in DOMAIN posted[c] : posted[c][i] = g
        <5>1. Len(posted[h.ctx]) + 1 \in DOMAIN posted'[h.ctx]
              /\ \A i \in DOMAIN posted[h.ctx] : i \in DOMAIN posted'[h.ctx]
          BY <3>3, <3>4
        <5>2. ASSUME NEW c \in Pool, NEW i \in DOMAIN posted'[c], posted'[c][i] = g
              PROVE  g = h \/ \E j \in DOMAIN posted[c] : posted[c][j] = g
          BY <3>4, <3>5, <5>2
        <5>3. ASSUME NEW c \in Pool, NEW i \in DOMAIN posted[c], posted[c][i] = g
              PROVE  \E j \in DOMAIN posted'[c] : posted'[c][j] = g
          BY <3>3, <3>4, <5>1, <5>3
        <5> QED
          BY <3>1, <3>4, <5>1, <5>2, <5>3
      <4>3. g \in InFlight' <=>
              \/ \E c \in Pool : \E i \in DOMAIN posted'[c] : posted'[c][i] = g
              \/ \E i \in DOMAIN completions' : completions'[i] = g /\ g.conn # NoConn
        BY Flying DEF Posted, Completed
      <4> QED
        BY <4>1, <4>2, <4>3, Flying DEF Posted, Completed
    <3> QED
      BY <1>a, <2>2, <2>6, <3>8, <3>9 DEF DeliveredOnItsContext
  <2> QED
    BY <2>7, <2>8
<1>7. ASSUME NEW i \in DOMAIN accepting, AcceptEnds(i)
      PROVE  Once' /\ Waits' /\ DeliveredOnItsContext'
  <2>1. accepting[i] \in Accepts
    BY <1>a, ElementOfSeq, LenProperties DEF TypeOK
  <2>2. UNCHANGED <<posted, delivered>>
    BY <1>7 DEF AcceptEnds
  <2>3. ASSUME completions' = Append(completions, Completion(NoConn, accepting[i])),
               UNCHANGED <<backlog, accepted>>
        PROVE  Once' /\ Waits' /\ DeliveredOnItsContext'
    <3>1. /\ Completion(NoConn, accepting[i]) \in Completions
          /\ Completion(NoConn, accepting[i]).conn = NoConn
      BY <2>1, CompletionTyped
    <3>2. Once' /\ DeliveredOnItsContext'
      BY <1>a, <2>2, <2>3, <3>1, FailingOne
    <3> QED
      BY <1>a, <2>3, <3>2 DEF Waits
  <2>4. ASSUME NEW conn \in backlog,
               completions' = Append(completions, Completion(conn, accepting[i])),
               backlog' = backlog \ {conn},
               accepted' = accepted \cup {Completion(conn, accepting[i])}
        PROVE  Once' /\ Waits' /\ DeliveredOnItsContext'
    <3> DEFINE e == Completion(conn, accepting[i])
               n == Len(completions)
    <3>1. e \in Completions /\ e.conn = conn /\ conn # NoConn
      BY <1>a, <2>1, CompletionTyped DEF TypeOK
    <3>2. e \notin accepted
      BY <1>a, <3>1 DEF Waits
    <3>3. e \notin InFlight /\ e \notin delivered
      BY <1>a, <3>2 DEF DeliveredOnItsContext
    <3>4. ~Posted(e) /\ ~Completed(e)
      BY <3>3, Flying
    <3> HIDE DEF e
    <3>5. /\ DOMAIN completions' = 1..n + 1 /\ completions'[n + 1] = e
          /\ \A j \in 1..n : completions'[j] = completions[j]
      BY <1>a, <1>c, <2>4, <3>1 DEF TypeOK, e
    <3>6. \A j \in DOMAIN completions' :
            \/ j \in DOMAIN completions /\ completions'[j] = completions[j]
            \/ j = n + 1 /\ completions'[j] = e
      BY <1>c, <3>5
    <3>7. /\ n + 1 \in DOMAIN completions'
          /\ \A j \in DOMAIN completions : j \in DOMAIN completions' /\ completions'[j] = completions[j]
      BY <1>c, <3>5
    <3> HIDE DEF n
    <3>8. \A j, k \in DOMAIN completions' :
            completions'[j] = completions'[k] /\ completions'[j].conn # NoConn => j = k
      <4> SUFFICES ASSUME NEW j \in DOMAIN completions', NEW k \in DOMAIN completions',
                          completions'[j] = completions'[k], completions'[j].conn # NoConn
                   PROVE  j = k
        OBVIOUS
      <4>1. \A m \in DOMAIN completions : completions[m] # e
        BY <3>1, <3>4 DEF Completed
      <4> QED
        BY <1>a, <3>6, <4>1 DEF Once
    <3>9. \A c \in Pool : \A j \in DOMAIN posted[c] : posted[c][j] \notin ToSet(completions')
      <4> SUFFICES ASSUME NEW c \in Pool, NEW j \in DOMAIN posted[c], NEW k \in DOMAIN completions',
                          posted[c][j] = completions'[k]
                   PROVE  FALSE
        BY DEF ToSet
      <4>1. posted[c][j] # e
        BY <3>4 DEF Posted
      <4>2. k \in DOMAIN completions /\ completions'[k] = completions[k]
        BY <3>6, <4>1
      <4>3. posted[c][j] \in ToSet(completions)
        BY <4>2 DEF ToSet
      <4> QED
        BY <1>a, <4>3 DEF Once
    <3>10. Once'
      BY <1>a, <2>2, <3>8, <3>9 DEF Once
    <3>11. \A g : g \in InFlight' <=> g \in InFlight \/ g = e
      <4> TAKE g
      <4>1. Posted(g)' <=> Posted(g)
        BY <2>2 DEF Posted
      <4>2. Completed(g)' <=> Completed(g) \/ g = e
        BY <3>1, <3>5, <3>6, <3>7 DEF Completed
      <4> QED
        BY <4>1, <4>2, Flying
    <3>12. Waits'
      BY <1>a, <2>4, <3>1 DEF Waits, e
    <3>13. DeliveredOnItsContext'
      BY <1>a, <2>2, <2>4, <3>3, <3>11 DEF DeliveredOnItsContext, e
    <3> QED
      BY <3>10, <3>12, <3>13
  <2> QED
    BY <1>7, <2>3, <2>4 DEF AcceptEnds
<1>8. ASSUME NEW c \in Pool, Callback(c) PROVE Once' /\ Waits' /\ DeliveredOnItsContext'
  <2> DEFINE h == Head(posted[c])
             n == Len(posted[c])
  <2>1. posted[c] \in Seq(Deliveries) /\ posted[c] # <<>> /\ n \in Nat /\ DOMAIN posted[c] = 1..n
    BY <1>8, <1>a, LenProperties DEF Callback, TypeOK
  <2>2. h = posted[c][1] /\ 1 \in 1..n /\ Tail(posted[c]) = RemoveAt(posted[c], 1)
    BY <2>1, TailRemoves
  <2>3. h \in Deliveries /\ h.ctx = c
    <3>1. posted[c][1] \in Deliveries
      BY <2>1, <2>2, ElementOfSeq
    <3> QED
      BY <1>a, <2>1, <2>2, <3>1 DEF Once
  <2>4. [h EXCEPT !.ctx = c] = h
    BY <2>3 DEF Deliveries
  <2>5. /\ DOMAIN posted'[c] = 1..n - 1
        /\ \A i \in 1..n - 1 : posted'[c][i] = posted[c][i + 1]
        /\ \A d \in Pool \ {c} : posted'[d] = posted[d]
    <3>1. /\ DOMAIN RemoveAt(posted[c], 1) = 1..n - 1
          /\ \A j \in 1..n - 1 :
               RemoveAt(posted[c], 1)[j] = IF j < 1 THEN posted[c][j] ELSE posted[c][j + 1]
      BY <2>1, <2>2, Removed
    <3>2. posted'[c] = RemoveAt(posted[c], 1) /\ \A d \in Pool \ {c} : posted'[d] = posted[d]
      BY <1>8, <1>a, <2>2 DEF Callback, TypeOK
    <3>3. \A j \in 1..n - 1 : ~(j < 1)
      BY <2>1
    <3> HIDE DEF n
    <3> QED
      BY <3>1, <3>2, <3>3
  <2>6. delivered' = delivered \cup {h} /\ UNCHANGED <<completions, backlog, accepted>>
    BY <1>8, <2>4 DEF Callback
  <2> HIDE DEF h
  <2>7. /\ \A i \in DOMAIN posted'[c] : /\ i + 1 \in DOMAIN posted[c] /\ i + 1 # 1 /\ i \in Int
                                        /\ posted'[c][i] = posted[c][i + 1]
        /\ \A i \in DOMAIN posted[c] : i = 1 \/ (i - 1 \in DOMAIN posted'[c]
                                                  /\ posted'[c][i - 1] = posted[c][i])
    BY <2>1, <2>2, <2>5
  <2>8. 1 \in DOMAIN posted[c]
    BY <2>1, <2>2
  <2> HIDE DEF n
  <2>9. \A d \in Pool : \A i \in DOMAIN posted'[d] :
          posted'[d][i] # h /\ \E j \in DOMAIN posted[d] : posted'[d][i] = posted[d][j]
    <3> SUFFICES ASSUME NEW d \in Pool, NEW i \in DOMAIN posted'[d]
                 PROVE  posted'[d][i] # h /\ \E j \in DOMAIN posted[d] : posted'[d][i] = posted[d][j]
      OBVIOUS
    <3>1. CASE d = c
      <4>1. i + 1 \in DOMAIN posted[c] /\ i + 1 # 1 /\ posted'[c][i] = posted[c][i + 1]
        BY <2>7, <3>1
      <4>2. posted[c][i + 1] # posted[c][1]
        BY <1>a, <2>8, <4>1 DEF Once
      <4> QED
        BY <2>2, <3>1, <4>1, <4>2
    <3>2. CASE d # c
      <4>1. posted'[d][i] = posted[d][i] /\ i \in DOMAIN posted[d]
        BY <2>5, <3>2
      <4>2. posted[d][i].ctx = d
        BY <1>a, <4>1 DEF Once
      <4> QED
        BY <2>3, <3>2, <4>1, <4>2
    <3> QED
      BY <3>1, <3>2
  <2>10. Once'
    <3> SUFFICES ASSUME NEW d \in Pool, NEW i \in DOMAIN posted'[d]
                 PROVE  /\ posted'[d][i].ctx = d
                        /\ posted'[d][i] \notin ToSet(completions)
                        /\ \A j \in DOMAIN posted'[d] : posted'[d][i] = posted'[d][j] => i = j
      BY <1>a, <2>6 DEF Once
    <3>1. CASE d # c
      BY <1>a, <2>5, <3>1 DEF Once
    <3>2. CASE d = c
      <4>1. ASSUME NEW j \in DOMAIN posted'[c], posted'[c][i] = posted'[c][j] PROVE i = j
        <5>1. i + 1 = j + 1 /\ i \in Int /\ j \in Int
          BY <1>a, <2>7, <3>2, <4>1 DEF Once
        <5> QED
          BY <5>1
      <4>2. posted'[c][i] = posted[c][i + 1] /\ i + 1 \in DOMAIN posted[c]
        BY <2>7, <3>2
      <4> QED
        BY <1>a, <3>2, <4>1, <4>2 DEF Once
    <3> QED
      BY <3>1, <3>2
  <2>11. \A g : g \in InFlight' <=> g \in InFlight /\ g # h
    <3> TAKE g
    <3>1. ~Completed(h)
      BY <1>a, <2>2, <2>8 DEF Completed, Once, ToSet
    <3>2. Completed(g)' <=> Completed(g)
      BY <2>6 DEF Completed
    <3>3. Posted(g)' => Posted(g) /\ g # h
      BY <2>9 DEF Posted
    <3>4. ASSUME Posted(g), g # h PROVE Posted(g)'
      <4>1. PICK d \in Pool : \E i \in DOMAIN posted[d] : posted[d][i] = g
        BY <3>4 DEF Posted
      <4>2. PICK i \in DOMAIN posted[d] : posted[d][i] = g
        BY <4>1
      <4>3. \E k \in DOMAIN posted'[d] : posted'[d][k] = g
        BY <2>2, <2>5, <2>7, <3>4, <4>2
      <4> QED
        BY <4>3 DEF Posted
    <3> QED
      BY <3>1, <3>2, <3>3, <3>4, Flying
  <2>12. Posted(h)
    BY <2>2, <2>8 DEF Posted
  <2>13. h \in InFlight
    BY <2>12, Flying
  <2>14. DeliveredOnItsContext'
    BY <1>a, <2>6, <2>11, <2>13 DEF DeliveredOnItsContext
  <2> QED
    BY <1>a, <2>6, <2>10, <2>14 DEF Waits
<1> QED
  BY <1>1, <1>2, <1>3, <1>4, <1>5, <1>6, <1>7, <1>8 DEF Next, Step

-----------------------------------------------------------------------------

\* The invariant of every behaviour.
THEOREM Invariance == Spec => []IInv
<1>1. IInv /\ [Next]_vars => IInv'
  BY Typed, Apart, Placed, Delivered DEF IInv
<1> QED
  BY Starts, <1>1, PTL DEF Spec

\* While the acceptor is open each startAccept keeps one accept outstanding or
\* about to be started, whichever threads run its handlers and whatever fails.
THEOREM OneAcceptPerLoopAlways == Spec => []OneAcceptPerLoop
<1>1. IInv => OneAcceptPerLoop
  <2> SUFFICES ASSUME TypeOK, Places, open, NEW b \in loops PROVE Round(b) = 1
    BY DEF IInv, OneAcceptPerLoop
  <2>1. b \in Callbacks /\ InOnePlace(b)
    BY DEF TypeOK, Places
  <2>2. Round(b) = Cardinality(Accepting(b)) + Cardinality(Completing(b)) + Cardinality(Running(b))
    BY DEF Round, Accepting, Completing, Running, At
  <2>3. Cardinality({}) = 0 /\ \A x : Cardinality({x}) = 1
    BY FS_EmptySet, FS_Singleton
  <2> DEFINE A == Cardinality(Accepting(b))
             C == Cardinality(Completing(b))
             R == Cardinality(Running(b))
  <2>4. (A = 1 /\ C = 0 /\ R = 0) \/ (A = 0 /\ C = 1 /\ R = 0) \/ (A = 0 /\ C = 0 /\ R = 1)
    BY <2>1, <2>3, Zenon DEF InOnePlace
  <2> HIDE DEF A, C, R
  <2>5. A + C + R = 1
    BY <2>4
  <2> QED
    BY <2>2, <2>5 DEF A, C, R
<1> QED
  BY Invariance, <1>1, PTL

\* Each accepted connection goes to the callback of its loop, on the context of
\* its socket, once; a close loses none.
THEOREM DeliveredOnItsContextAlways == Spec => []DeliveredOnItsContext
<1>1. IInv => DeliveredOnItsContext
  BY DEF IInv
<1> QED
  BY Invariance, <1>1, PTL

=============================================================================
