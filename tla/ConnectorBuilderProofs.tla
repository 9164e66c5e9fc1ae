----------------------- MODULE ConnectorBuilderProofs -----------------------
(***************************************************************************)
(* Proofs about TcpConnector and ConnectorBuilder, for any number of       *)
(* attempts and any order in which their timers and connects end.          *)
(***************************************************************************)
EXTENDS ConnectorBuilder, SequenceTheorems, FiniteSetTheorems, TLAPS

Kinds == {"timeout", "connected", "refused"}

\* The two handlers of an attempt.
OfTimer   == {"timeout"}
OfConnect == {"connected", "refused"}

HandlerSet == [kind : Kinds, attempt : Attempts]

\* A handler of attempt a, of one of some kinds, waits in s.
Waits(s, K, a) == \E i \in DOMAIN s : s[i].attempt = a /\ s[i].kind \in K

\* No attempt has two handlers of one kind in s.
Unique(s) ==
    \A K \in {OfTimer, OfConnect} : \A i, j \in DOMAIN s :
        s[i].attempt = s[j].attempt /\ s[i].kind \in K /\ s[j].kind \in K => i = j

\* The connect of an attempt, or its timer, may still answer it.
ConnectLeft(a) == pc[a] # "returned" \/ a \in connecting \/ Waits(handlers, OfConnect, a)
TimerLeft(a) == pc[a] = "idle" \/ a \in timer \/ Waits(handlers, OfTimer, a)

\* An attempt goes its way once: its timer runs, or its handler waits, or
\* neither; likewise its connect.
Once(a) ==
    /\ pc[a] = "idle" => a \notin timer /\ ~Waits(handlers, OfTimer, a)
    /\ pc[a] # "returned" => a \notin connecting /\ ~Waits(handlers, OfConnect, a)
    /\ a \in connecting => ~Waits(handlers, OfConnect, a)
    /\ a \in timer => ~Waits(handlers, OfTimer, a)

\* Before its timer has expired an attempt was not answered: the connect's
\* handler, the other that answers it, cancels the timer.
Early(a) ==
    /\ pc[a] = "idle" => a \notin expired
    /\ a \in timer => answers[a] = <<>>
    /\ Waits(handlers, OfTimer, a) => a \in expired

\* What was answered is owed to the connect, or to a timer that had expired.
Owed(a) ==
    /\ ConnectLeft(a) /\ (a \notin expired \/ TimerLeft(a)) => Len(answers[a]) = 0
    /\ ConnectLeft(a) \/ a \notin expired \/ TimerLeft(a) => Len(answers[a]) <= 1
    /\ Len(answers[a]) <= 2
    /\ ConnectLeft(a) => \A i \in DOMAIN answers[a] : answers[a][i] # "success"
    /\ \A i, j \in DOMAIN answers[a] : answers[a][i] = "success" /\ answers[a][j] = "success" => i = j

IInv ==
    /\ TypeOK
    /\ Unique(handlers)
    /\ \A a \in Attempts : Once(a) /\ Early(a) /\ Owed(a)
    /\ TerminatedByCallback

----------------------------------------------------------------------------
(* Handlers that are added and taken out. *)

\* A handler that is added is waited for, beside those that were.
LEMMA AddHandler ==
    ASSUME NEW s \in Seq(HandlerSet), NEW h \in HandlerSet
    PROVE  /\ Append(s, h) \in Seq(HandlerSet)
           /\ \A K, a : Waits(Append(s, h), K, a) <=> Waits(s, K, a) \/ (h.attempt = a /\ h.kind \in K)
<1>1. /\ Append(s, h) \in Seq(HandlerSet)
      /\ DOMAIN s = 1..Len(s) /\ DOMAIN Append(s, h) = 1..Len(s) + 1
      /\ Append(s, h)[Len(s) + 1] = h
      /\ \A i \in 1..Len(s) : Append(s, h)[i] = s[i]
      /\ Len(s) \in Nat
  OBVIOUS
<1> QED
  BY <1>1, SMT DEF Waits

\* A handler added to an attempt that waits for none of its side stays the only one.
LEMMA AddUnique ==
    ASSUME NEW s \in Seq(HandlerSet), NEW h \in HandlerSet, Unique(s),
           NEW K \in {OfTimer, OfConnect}, h.kind \in K, ~Waits(s, K, h.attempt)
    PROVE  Unique(Append(s, h))
<1>1. /\ DOMAIN s = 1..Len(s) /\ DOMAIN Append(s, h) = 1..Len(s) + 1
      /\ Append(s, h)[Len(s) + 1] = h
      /\ \A i \in 1..Len(s) : Append(s, h)[i] = s[i]
      /\ Len(s) \in Nat
  OBVIOUS
<1>2. \A L \in {OfTimer, OfConnect} : h.kind \in L => L = K
  BY DEF OfTimer, OfConnect
<1> QED
  BY <1>1, <1>2, SMT DEF Unique, Waits

\* Taking handler i out shifts the later ones down by one.
LEMMA TakeHandler ==
    ASSUME NEW s \in Seq(HandlerSet), NEW i \in DOMAIN s
    PROVE  /\ RemoveAt(s, i) \in Seq(HandlerSet)
           /\ Len(RemoveAt(s, i)) = Len(s) - 1
           /\ \A j \in 1..(Len(s) - 1) : RemoveAt(s, i)[j] = IF j < i THEN s[j] ELSE s[j + 1]
<1>0. Len(s) \in Nat /\ i \in 1..Len(s) /\ \A j \in 1..Len(s) : s[j] \in HandlerSet
  OBVIOUS
<1> DEFINE b == SubSeq(s, 1, i - 1)
           c == SubSeq(s, i + 1, Len(s))
<1>1. b \in Seq(HandlerSet) /\ Len(b) = i - 1 /\ \A j \in 1..(i - 1) : b[j] = s[j]
  BY <1>0
<1>2. c \in Seq(HandlerSet) /\ Len(c) = Len(s) - i /\ \A j \in 1..(Len(s) - i) : c[j] = s[i + j]
  BY <1>0
<1> HIDE DEF b, c
<1>3. /\ b \o c \in Seq(HandlerSet) /\ Len(b \o c) = Len(s) - 1
      /\ \A j \in 1..(Len(s) - 1) : (b \o c)[j] = IF j <= i - 1 THEN b[j] ELSE c[j - (i - 1)]
  <2>1. b \in Seq(HandlerSet) /\ c \in Seq(HandlerSet)
    BY <1>1, <1>2
  <2>2. /\ b \o c \in Seq(HandlerSet) /\ Len(b \o c) = Len(b) + Len(c)
        /\ \A j \in 1..(Len(b) + Len(c)) :
              (b \o c)[j] = IF j <= Len(b) THEN b[j] ELSE c[j - Len(b)]
    BY ONLY <2>1, ConcatProperties
  <2>3. Len(b) = i - 1 /\ Len(b) + Len(c) = Len(s) - 1
    BY <1>0, <1>1, <1>2
  <2> QED
    BY <2>2, <2>3
<1>4. RemoveAt(s, i) = b \o c
  BY DEF RemoveAt, b, c
<1>5. ASSUME NEW j \in 1..(Len(s) - 1)
      PROVE  (b \o c)[j] = IF j < i THEN s[j] ELSE s[j + 1]
  <2>1. CASE j < i
    BY <1>0, <1>1, <1>3, <2>1
  <2>2. CASE ~(j < i)
    <3>1. (b \o c)[j] = c[j - (i - 1)]
      BY <1>0, <1>3, <2>2
    <3>2. j - (i - 1) \in 1..(Len(s) - i) /\ i + (j - (i - 1)) = j + 1
      BY <1>0, <2>2
    <3> QED
      BY <1>0, <1>2, <2>2, <3>1, <3>2
  <2> QED
    BY <2>1, <2>2
<1> QED
  BY <1>3, <1>4, <1>5

\* Taking a handler out leaves no other of its side and attempt waiting, and only that one goes.
LEMMA TakeUnique ==
    ASSUME NEW s \in Seq(HandlerSet), NEW i \in DOMAIN s, Unique(s)
    PROVE  /\ Unique(RemoveAt(s, i))
           /\ \A K \in {OfTimer, OfConnect}, a \in Attempts :
                Waits(RemoveAt(s, i), K, a) <=>
                    Waits(s, K, a) /\ ~(s[i].attempt = a /\ s[i].kind \in K)
<1> DEFINE r == RemoveAt(s, i)
           k(j) == IF j < i THEN j ELSE j + 1
<1>0. Len(s) \in Nat /\ DOMAIN s = 1..Len(s) /\ i \in 1..Len(s)
  OBVIOUS
<1>1. /\ r \in Seq(HandlerSet) /\ Len(r) = Len(s) - 1
      /\ \A j \in 1..(Len(s) - 1) : r[j] = s[k(j)]
  BY <1>0, TakeHandler
<1>2. DOMAIN r = 1..(Len(s) - 1)
  BY <1>1
<1> HIDE DEF r
<1>3. /\ \A j \in DOMAIN r : k(j) \in DOMAIN s /\ k(j) # i /\ r[j] = s[k(j)]
      /\ \A j, l \in DOMAIN r : k(j) = k(l) => j = l
      /\ \A l \in DOMAIN s : l # i => \E j \in DOMAIN r : k(j) = l
  <2>1. \A j \in DOMAIN r : k(j) \in DOMAIN s /\ k(j) # i /\ r[j] = s[k(j)]
    BY <1>0, <1>1, <1>2, SMT
  <2>2. \A j, l \in DOMAIN r : k(j) = k(l) => j = l
    BY <1>0, <1>2, SMT
  <2>3. ASSUME NEW l \in DOMAIN s, l # i PROVE \E j \in DOMAIN r : k(j) = l
    <3>1. CASE l < i
      <4>1. l \in DOMAIN r /\ k(l) = l
        BY <1>0, <1>2, <3>1, SMT
      <4> QED
        BY <4>1
    <3>2. CASE l > i
      <4>1. l - 1 \in DOMAIN r /\ k(l - 1) = l
        BY <1>0, <1>2, <3>2, SMT
      <4> QED
        BY <4>1
    <3> QED
      BY <1>0, <2>3, <3>1, <3>2, SMT
  <2> QED
    BY <2>1, <2>2, <2>3
<1> HIDE DEF k
<1>4. Unique(r)
  <2> SUFFICES ASSUME NEW K \in {OfTimer, OfConnect}, NEW j \in DOMAIN r, NEW l \in DOMAIN r,
                      r[j].attempt = r[l].attempt, r[j].kind \in K, r[l].kind \in K
               PROVE  j = l
    BY DEF Unique
  <2>1. k(j) = k(l)
    BY <1>3 DEF Unique
  <2> QED
    BY <1>3, <2>1
<1>5. ASSUME NEW K \in {OfTimer, OfConnect}, NEW a \in Attempts
      PROVE  Waits(r, K, a) <=> Waits(s, K, a) /\ ~(s[i].attempt = a /\ s[i].kind \in K)
  <2>1. ASSUME Waits(r, K, a) PROVE Waits(s, K, a) /\ ~(s[i].attempt = a /\ s[i].kind \in K)
    <3>1. PICK j \in DOMAIN r : r[j].attempt = a /\ r[j].kind \in K
      BY <2>1 DEF Waits
    <3>2. k(j) \in DOMAIN s /\ k(j) # i /\ s[k(j)].attempt = a /\ s[k(j)].kind \in K
      BY <1>3, <3>1
    <3> QED
      BY <3>2 DEF Waits, Unique
  <2>2. ASSUME Waits(s, K, a), ~(s[i].attempt = a /\ s[i].kind \in K) PROVE Waits(r, K, a)
    <3>1. PICK l \in DOMAIN s : s[l].attempt = a /\ s[l].kind \in K
      BY <2>2 DEF Waits
    <3>2. PICK j \in DOMAIN r : k(j) = l
      BY <1>3, <2>2, <3>1
    <3> QED
      BY <1>3, <3>1, <3>2 DEF Waits
  <2> QED
    BY <2>1, <2>2
<1> QED
  BY <1>4, <1>5 DEF r

----------------------------------------------------------------------------
(* Every step of the connector keeps the invariant. *)

\* What the invariant and the actions say of the types, once.
LEMMA Typed ==
    ASSUME TypeOK
    PROVE  /\ handlers \in Seq(HandlerSet)
           /\ DOMAIN pc = Attempts /\ DOMAIN answers = Attempts
           /\ \A a \in Attempts : /\ pc[a] \in {"idle", "timer", "returned"}
                                 /\ answers[a] \in Seq({"success", "failed"})
                                 /\ Len(answers[a]) \in Nat
BY DEF TypeOK, HandlerSet, Kinds

\* Before any attempt starts nothing is pending and nobody was answered.
LEMMA InitIInv == Init => IInv
<1> SUFFICES ASSUME Init PROVE IInv
  OBVIOUS
<1>1. TypeOK
  <2>1. <<>> \in Seq([kind : {"timeout", "connected", "refused"}, attempt : Attempts])
        /\ <<>> \in Seq({"success", "failed"})
    OBVIOUS
  <2>2. handlers \in Seq([kind : {"timeout", "connected", "refused"}, attempt : Attempts])
        /\ answers \in [Attempts -> Seq({"success", "failed"})]
    BY <2>1 DEF Init
  <2> QED
    BY <2>2 DEF Init, TypeOK
<1>2. \A K, a : ~Waits(handlers, K, a)
  BY DEF Init, Waits
<1>3. Unique(handlers)
  BY DEF Init, Unique
<1>4. ASSUME NEW a \in Attempts PROVE Once(a) /\ Early(a) /\ Owed(a)
  <2>1. pc[a] = "idle" /\ a \notin timer /\ a \notin connecting /\ a \notin expired
        /\ answers[a] = <<>>
    BY DEF Init
  <2> QED
    BY <1>2, <2>1 DEF Once, Early, Owed
<1> QED
  BY <1>1, <1>3, <1>4 DEF IInv, Init, TerminatedByCallback

\* asyncConnect starts the timer (TcpConnector.hpp, waitAndWillCallbackTimeout).
LEMMA RunAfterStep ==
    ASSUME IInv, NEW a \in Attempts, RunAfter(a)
    PROVE  IInv'
<1>0. TypeOK
  BY DEF IInv
<1>1. /\ pc[a] = "idle" /\ pc' = [pc EXCEPT ![a] = "timer"] /\ timer' = timer \cup {a}
      /\ silent' = silent /\ throwing' = throwing /\ connecting' = connecting /\ handlers' = handlers
      /\ terminated' = terminated /\ answers' = answers /\ expired' = expired
  BY DEF RunAfter, given
<1>2. TypeOK'
  BY <1>0, <1>1 DEF TypeOK
<1>3. ASSUME NEW b \in Attempts PROVE Once(b)' /\ Early(b)' /\ Owed(b)'
  <2>1. Once(b) /\ Early(b) /\ Owed(b)
    BY DEF IInv
  <2>2. CASE b = a
    <3>1. pc'[b] = "timer" /\ answers[b] = <<>> /\ b \notin expired
      BY <1>0, <1>1, <2>1, <2>2, Typed DEF Owed, Early, ConnectLeft
    <3> QED
      BY <1>0, <1>1, <2>1, <2>2, <3>1, Typed DEF Once, Early, Owed, ConnectLeft, TimerLeft, Waits
  <2>3. CASE b # a
    <3>1. pc'[b] = pc[b] /\ (b \in timer' <=> b \in timer)
      BY <1>0, <1>1, <2>3, Typed
    <3> QED
      BY <1>1, <2>1, <3>1 DEF Once, Early, Owed, ConnectLeft, TimerLeft, Waits
  <2> QED
    BY <2>2, <2>3
<1> QED
  BY <1>1, <1>2, <1>3 DEF IInv, Unique, TerminatedByCallback

\* asyncConnect then starts the connect.
LEMMA AsyncConnectStep ==
    ASSUME IInv, NEW a \in Attempts, AsyncConnect(a)
    PROVE  IInv'
<1>0. TypeOK
  BY DEF IInv
<1>1. /\ pc[a] = "timer" /\ pc' = [pc EXCEPT ![a] = "returned"] /\ timer' = timer
      /\ silent' = silent /\ throwing' = throwing /\ connecting' = connecting \cup {a} /\ handlers' = handlers
      /\ terminated' = terminated /\ answers' = answers /\ expired' = expired
  BY DEF AsyncConnect, given
<1>2. TypeOK'
  BY <1>0, <1>1 DEF TypeOK
<1>3. ASSUME NEW b \in Attempts PROVE Once(b)' /\ Early(b)' /\ Owed(b)'
  <2>1. Once(b) /\ Early(b) /\ Owed(b)
    BY DEF IInv
  <2>2. CASE b = a
    <3>1. pc'[b] = "returned" /\ b \in connecting'
      BY <1>0, <1>1, <2>2, Typed
    <3> QED
      BY <1>1, <2>1, <2>2, <3>1 DEF Once, Early, Owed, ConnectLeft, TimerLeft, Waits
  <2>3. CASE b # a
    <3>1. pc'[b] = pc[b] /\ (b \in connecting' <=> b \in connecting)
      BY <1>0, <1>1, <2>3, Typed
    <3> QED
      BY <1>1, <2>1, <3>1 DEF Once, Early, Owed, ConnectLeft, TimerLeft, Waits
  <2> QED
    BY <2>2, <2>3
<1> QED
  BY <1>1, <1>2, <1>3 DEF IInv, Unique, TerminatedByCallback

\* The timer fires: its handler is queued and reads whether a connect is still pending.
LEMMA ExpiresStep ==
    ASSUME IInv, NEW a \in Attempts, Expires(a)
    PROVE  IInv'
<1> DEFINE h == Handler("timeout", a)
<1>0. TypeOK /\ Once(a) /\ Early(a)
  BY DEF IInv
<1>1. /\ a \in timer /\ timer' = timer \ {a} /\ handlers' = Append(handlers, h)
      /\ expired' = expired \cup {a}
      /\ silent' = silent /\ throwing' = throwing /\ pc' = pc /\ connecting' = connecting
      /\ terminated' = terminated /\ answers' = answers
  BY <1>0 DEF Expires, Early, given
<1>2. h \in HandlerSet /\ h.attempt = a /\ h.kind = "timeout"
  BY DEF Handler, HandlerSet, Kinds
<1>3. \A K, b : Waits(handlers', K, b) <=> Waits(handlers, K, b) \/ (a = b /\ "timeout" \in K)
  BY <1>0, <1>1, <1>2, AddHandler, Typed
<1>4. Unique(handlers')
  BY <1>0, <1>1, <1>2, AddUnique, Typed DEF Once, OfTimer, IInv
<1>5. TypeOK'
  BY <1>0, <1>1, <1>2, AddHandler, Typed DEF TypeOK, HandlerSet, Kinds
<1>6. ASSUME NEW b \in Attempts PROVE Once(b)' /\ Early(b)' /\ Owed(b)'
  <2>1. Once(b) /\ Early(b) /\ Owed(b)
    BY DEF IInv
  <2>2. /\ Waits(handlers', OfConnect, b) <=> Waits(handlers, OfConnect, b)
        /\ Waits(handlers', OfTimer, b) <=> Waits(handlers, OfTimer, b) \/ a = b
    BY <1>3 DEF OfTimer, OfConnect
  <2>3. CASE b = a
    BY <1>0, <1>1, <2>1, <2>2, <2>3, Typed DEF Once, Early, Owed, ConnectLeft, TimerLeft
  <2>4. CASE b # a
    BY <1>1, <2>1, <2>2, <2>4 DEF Once, Early, Owed, ConnectLeft, TimerLeft
  <2> QED
    BY <2>3, <2>4
<1> QED
  BY <1>1, <1>4, <1>5, <1>6 DEF IInv, TerminatedByCallback

\* The connect ends: its handler is queued.
LEMMA ConnectEndsStep ==
    ASSUME IInv, NEW a \in Attempts, ConnectEnds(a)
    PROVE  IInv'
<1>0. TypeOK /\ Once(a)
  BY DEF IInv
<1>1. PICK kind \in {"connected", "refused"} : handlers' = Append(handlers, Handler(kind, a))
  BY DEF ConnectEnds, given
<1> DEFINE h == Handler(kind, a)
<1>2. /\ a \in connecting /\ connecting' = connecting \ {a} /\ timer' = timer
      /\ silent' = silent /\ throwing' = throwing /\ pc' = pc /\ expired' = expired
      /\ terminated' = terminated /\ answers' = answers
  BY DEF ConnectEnds, given
<1>3. h \in HandlerSet /\ h.attempt = a /\ h.kind = kind
  BY DEF Handler, HandlerSet, Kinds
<1>4. \A K, b : Waits(handlers', K, b) <=> Waits(handlers, K, b) \/ (a = b /\ kind \in K)
  BY <1>0, <1>1, <1>3, AddHandler, Typed
<1>5. Unique(handlers')
  BY <1>0, <1>1, <1>2, <1>3, AddUnique, Typed DEF Once, OfConnect, IInv
<1>6. TypeOK'
  BY <1>0, <1>1, <1>2, <1>3, AddHandler, Typed DEF TypeOK, HandlerSet, Kinds
<1>7. ASSUME NEW b \in Attempts PROVE Once(b)' /\ Early(b)' /\ Owed(b)'
  <2>1. Once(b) /\ Early(b) /\ Owed(b)
    BY DEF IInv
  <2>2. /\ Waits(handlers', OfConnect, b) <=> Waits(handlers, OfConnect, b) \/ a = b
        /\ Waits(handlers', OfTimer, b) <=> Waits(handlers, OfTimer, b)
    BY <1>4 DEF OfTimer, OfConnect
  <2>3. CASE b = a
    BY <1>0, <1>2, <2>1, <2>2, <2>3, Typed DEF Once, Early, Owed, ConnectLeft, TimerLeft
  <2>4. CASE b # a
    BY <1>2, <2>1, <2>2, <2>4 DEF Once, Early, Owed, ConnectLeft, TimerLeft
  <2> QED
    BY <2>3, <2>4
<1> QED
  BY <1>2, <1>5, <1>6, <1>7 DEF IInv, TerminatedByCallback

\* What a handler appends to the answers of its attempt.
LEMMA AnswersAppended ==
    ASSUME TypeOK, NEW h \in HandlerSet
    PROVE  \/ AnswersOf(h) = answers[h.attempt]
           \/ AnswersOf(h) = Append(answers[h.attempt], "failed")
           \/ h.kind \in OfConnect /\ AnswersOf(h) = Append(answers[h.attempt], "success")
<1>1. h.kind \in Kinds
  BY DEF HandlerSet
<1>2. CASE h.kind = "connected"
  BY <1>2 DEF AnswersOf, OfConnect
<1>3. CASE h.kind # "connected" /\ h.attempt \notin silent
  BY <1>3 DEF AnswersOf
<1>4. CASE h.kind # "connected" /\ h.attempt \in silent
  BY <1>4 DEF AnswersOf
<1> QED
  BY <1>2, <1>3, <1>4

\* A queued handler runs and may answer: the invariant says at most one answer is owed to each side.
LEMMA RunHandlerStep ==
    ASSUME IInv, NEW i \in DOMAIN handlers, RunHandler(i)
    PROVE  IInv'
<1>0. TypeOK /\ Unique(handlers)
  BY DEF IInv
<1>a. PICK h \in HandlerSet : h = handlers[i]
  BY <1>0, Typed
<1>b. PICK a \in Attempts : a = h.attempt
  BY DEF HandlerSet
<1>1. h \in HandlerSet /\ a \in Attempts /\ a = h.attempt /\ h.kind \in Kinds
  BY <1>b DEF HandlerSet
<1>2. /\ handlers' = RemoveAt(handlers, i)
      /\ timer' = IF h.kind = "timeout" THEN timer ELSE timer \ {a}
      /\ answers' = [answers EXCEPT ![a] = AnswersOf(h)]
      /\ terminated' = Throws(h)
      /\ silent' = silent /\ throwing' = throwing /\ pc' = pc /\ connecting' = connecting /\ expired' = expired
  BY <1>a, <1>b DEF RunHandler, StillRunning, given
<1>3. /\ handlers' \in Seq(HandlerSet) /\ Unique(handlers')
      /\ \A K \in {OfTimer, OfConnect}, b \in Attempts :
           Waits(handlers', K, b) <=> Waits(handlers, K, b) /\ ~(a = b /\ h.kind \in K)
  <2>1. handlers \in Seq(HandlerSet)
    BY <1>0, Typed
  <2> QED
    BY <1>0, <1>1, <1>2, <1>a, <2>1, TakeHandler, TakeUnique
<1>4. /\ Waits(handlers, OfTimer, a) <=> h.kind = "timeout" \/ Waits(handlers, OfTimer, a)
      /\ Waits(handlers, OfConnect, a) <=> h.kind # "timeout" \/ Waits(handlers, OfConnect, a)
  BY <1>1, <1>a DEF Waits, OfTimer, OfConnect, Kinds
<1>5. AnswersOf(h) \in Seq({"success", "failed"})
  <2>1. answers[a] \in Seq({"success", "failed"})
    BY <1>0, <1>1, Typed
  <2> QED
    BY <1>0, <1>1, <2>1, AnswersAppended
<1>6. TypeOK'
  <2>1. terminated' \in BOOLEAN
    BY <1>2 DEF Throws
  <2>2. timer' \subseteq Attempts
    BY <1>0, <1>2 DEF TypeOK
  <2>3. answers' \in [Attempts -> Seq({"success", "failed"})]
    BY <1>0, <1>2, <1>5 DEF TypeOK
  <2>4. handlers' \in Seq([kind : {"timeout", "connected", "refused"}, attempt : Attempts])
    BY <1>3 DEF HandlerSet, Kinds
  <2> QED
    BY <1>0, <1>2, <2>1, <2>2, <2>3, <2>4 DEF TypeOK
<1>7. ASSUME NEW b \in Attempts, b # a PROVE Once(b)' /\ Early(b)' /\ Owed(b)'
  <2>1. Once(b) /\ Early(b) /\ Owed(b)
    BY DEF IInv
  <2>2. /\ Waits(handlers', OfTimer, b) <=> Waits(handlers, OfTimer, b)
        /\ Waits(handlers', OfConnect, b) <=> Waits(handlers, OfConnect, b)
        /\ answers'[b] = answers[b] /\ (b \in timer' <=> b \in timer)
    BY <1>0, <1>2, <1>3, <1>7, Typed
  <2> QED
    BY <1>2, <2>1, <2>2 DEF Once, Early, Owed, ConnectLeft, TimerLeft
<1>8. Once(a)' /\ Early(a)' /\ Owed(a)'
  <2>1. Once(a) /\ Early(a) /\ Owed(a)
    BY <1>1 DEF IInv
  <2>2. answers'[a] = AnswersOf(h) /\ answers[a] \in Seq({"success", "failed"})
    BY <1>0, <1>1, <1>2, Typed
  <2>3. CASE h.kind = "timeout"
    <3>1. /\ Waits(handlers, OfTimer, a) /\ ~Waits(handlers', OfTimer, a)
          /\ Waits(handlers', OfConnect, a) <=> Waits(handlers, OfConnect, a)
      BY <1>1, <1>3, <1>4, <2>3 DEF OfTimer, OfConnect
    <3>2. a \notin timer /\ pc[a] # "idle" /\ a \in expired /\ timer' = timer
      BY <1>2, <2>1, <2>3, <3>1 DEF Once, Early
    <3>3. Once(a)' /\ Early(a)'
      BY <1>2, <2>1, <3>1, <3>2 DEF Once, Early
    <3>4. AnswersOf(h) = answers[a] \/ AnswersOf(h) = Append(answers[a], "failed")
      BY <1>0, <1>1, <2>3, AnswersAppended DEF OfConnect
    <3>5. Len(answers[a]) <= 1 /\ (ConnectLeft(a) => Len(answers[a]) = 0)
      BY <2>1, <3>1 DEF Owed, TimerLeft
    <3>6. ConnectLeft(a)' <=> ConnectLeft(a)
      BY <1>2, <3>1 DEF ConnectLeft
    <3>7. Len(answers'[a]) <= Len(answers[a]) + 1
      BY <2>2, <3>4
    <3>8. \A j \in DOMAIN answers'[a] :
            answers'[a][j] = "success" => j \in DOMAIN answers[a] /\ answers[a][j] = "success"
      BY <2>2, <3>4
    <3>9. ~TimerLeft(a)'
      BY <1>2, <3>1, <3>2 DEF TimerLeft
    <3>10. /\ ConnectLeft(a)' => \A j \in DOMAIN answers'[a] : answers'[a][j] # "success"
           /\ \A j, k \in DOMAIN answers'[a] :
                answers'[a][j] = "success" /\ answers'[a][k] = "success" => j = k
      BY <2>1, <3>6, <3>8 DEF Owed
    <3>11. Len(answers[a]) \in Nat /\ Len(answers'[a]) \in Nat
      BY <1>5, <2>2
    <3>12. Owed(a)'
      BY <1>2, <3>2, <3>5, <3>6, <3>7, <3>9, <3>10, <3>11 DEF Owed
    <3> QED
      BY <3>3, <3>12
  <2>4. CASE h.kind # "timeout"
    <3>0. h.kind \in OfConnect
      BY <1>1, <2>4 DEF Kinds, OfConnect
    <3>1. /\ Waits(handlers, OfConnect, a) /\ ~Waits(handlers', OfConnect, a)
          /\ Waits(handlers', OfTimer, a) <=> Waits(handlers, OfTimer, a)
      BY <1>1, <1>3, <1>4, <2>4, <3>0 DEF OfTimer
    <3>2. a \notin connecting /\ pc[a] = "returned" /\ a \notin timer'
      BY <1>2, <2>1, <2>4, <3>1 DEF Once
    <3>3. Once(a)' /\ Early(a)'
      BY <1>2, <2>1, <3>1, <3>2 DEF Once, Early
    <3>4. ConnectLeft(a) /\ ~ConnectLeft(a)'
      BY <1>2, <3>1, <3>2 DEF ConnectLeft
    <3>5. TimerLeft(a)' => TimerLeft(a)
      BY <1>2, <3>1, <3>2 DEF TimerLeft
    <3>6. /\ AnswersOf(h) = answers[a] \/ AnswersOf(h) = Append(answers[a], "failed")
             \/ AnswersOf(h) = Append(answers[a], "success")
      BY <1>0, <1>1, AnswersAppended
    <3>7. /\ Len(answers'[a]) <= Len(answers[a]) + 1
          /\ \A j \in DOMAIN answers'[a] :
               answers'[a][j] = "success" => j = Len(answers[a]) + 1
      BY <2>1, <2>2, <3>4, <3>6 DEF Owed
    <3>8. Len(answers[a]) \in Nat /\ Len(answers'[a]) \in Nat
      BY <1>5, <2>2
    <3>9. Owed(a)'
      BY <1>2, <2>1, <3>4, <3>5, <3>7, <3>8 DEF Owed
    <3> QED
      BY <3>3, <3>9
  <2> QED
    BY <2>3, <2>4
<1>9. TerminatedByCallback'
  <2> SUFFICES ASSUME terminated' PROVE TerminatedByCallback'
    BY DEF TerminatedByCallback
  <2>1. CASE h.kind = "timeout" /\ a \in silent
    <3>1. Waits(handlers, OfTimer, a)
      BY <1>4, <2>1
    <3>2. a \in expired
      BY <1>1, <3>1 DEF IInv, Early
    <3> QED
      BY <1>2, <2>1, <3>2 DEF TerminatedByCallback
  <2>2. CASE h.kind = "connected" /\ a \in throwing
    <3>1. answers[a] \in Seq({"success", "failed"})
      BY <1>0, <1>1, Typed
    <3>2. answers'[a] = Append(answers[a], "success")
      BY <1>0, <1>1, <1>2, <2>2, Typed DEF AnswersOf
    <3>3. answers'[a][Len(answers[a]) + 1] = "success" /\ Len(answers[a]) + 1 \in DOMAIN answers'[a]
      BY <3>1, <3>2
    <3>4. "success" \in ToSet(answers'[a])
      BY <3>3 DEF ToSet
    <3> QED
      BY <1>2, <2>2, <3>4 DEF TerminatedByCallback
  <2> QED
    BY <1>1, <1>2, <2>1, <2>2 DEF Throws
<1> QED
  BY <1>3, <1>6, <1>7, <1>8, <1>9 DEF IInv

\* Every step of the connector keeps the invariant.
LEMMA ConnectorStep == IInv /\ [Next]_vars => IInv'
<1> SUFFICES ASSUME IInv, [Next]_vars PROVE IInv'
  OBVIOUS
<1>1. CASE UNCHANGED vars
  BY <1>1 DEF IInv, TypeOK, Unique, Once, Early, Owed, ConnectLeft, TimerLeft, Waits,
              TerminatedByCallback, vars, given
<1>2. ASSUME NEW a \in Attempts, RunAfter(a) PROVE IInv'
  BY <1>2, RunAfterStep
<1>3. ASSUME NEW a \in Attempts, AsyncConnect(a) PROVE IInv'
  BY <1>3, AsyncConnectStep
<1>4. ASSUME NEW a \in Attempts, Expires(a) PROVE IInv'
  BY <1>4, ExpiresStep
<1>5. ASSUME NEW a \in Attempts, ConnectEnds(a) PROVE IInv'
  BY <1>5, ConnectEndsStep
<1>6. ASSUME NEW i \in DOMAIN handlers, RunHandler(i) PROVE IInv'
  BY <1>6, RunHandlerStep
<1> QED
  BY <1>1, <1>2, <1>3, <1>4, <1>5, <1>6 DEF Next, RunHandlers

\* The count of the property, from the invariant's form of it.
LEMMA InvCounts == IInv => SecondAnswerIsTheTimers
<1> SUFFICES ASSUME IInv, NEW a \in Attempts
             PROVE  /\ Len(answers[a]) <= 1 + Cardinality(expired \cap {a})
                    /\ Count(a, "success") <= 1
  BY DEF SecondAnswerIsTheTimers
<1>1. Owed(a) /\ Len(answers[a]) \in Nat
  BY Typed DEF IInv
<1>2. Len(answers[a]) <= 1 + Cardinality(expired \cap {a})
  <2>1. CASE a \in expired
    <3>1. expired \cap {a} = {a} /\ Cardinality({a}) = 1
      BY <2>1, FS_Singleton
    <3>2. Cardinality(expired \cap {a}) = 1
      BY <3>1
    <3> QED
      BY <1>1, <3>2 DEF Owed
  <2>2. CASE a \notin expired
    <3>1. expired \cap {a} = {}
      BY <2>2
    <3>2. Cardinality(expired \cap {a}) = 0
      BY <3>1, FS_EmptySet
    <3> QED
      BY <1>1, <2>2, <3>2 DEF Owed
  <2> QED
    BY <2>1, <2>2
<1>3. Count(a, "success") <= 1
  <2> DEFINE S == {i \in DOMAIN answers[a] : answers[a][i] = "success"}
  <2>1. \A i, j \in S : i = j
    BY <1>1 DEF Owed
  <2>2. Count(a, "success") = Cardinality(S)
    BY DEF Count
  <2> HIDE DEF S
  <2>3. CASE S = {}
    BY <2>2, <2>3, FS_EmptySet
  <2>4. CASE S # {}
    <3>1. PICK i \in S : TRUE
      BY <2>4
    <3>2. S = {i}
      BY <2>1, <3>1
    <3>3. Cardinality(S) = 1
      BY <3>2, FS_Singleton
    <3> QED
      BY <2>2, <3>3
  <2> QED
    BY <2>3, <2>4
<1> QED
  BY <1>2, <1>3

\* The invariant holds throughout (TcpConnector.hpp:41-103).
THEOREM ConnectorInvariance == Spec => []IInv
BY InitIInv, ConnectorStep, PTL DEF Spec

\* An attempt is answered once, or twice if its timer had expired before the
\* connect's handler could cancel it, and succeeds at most once: for any
\* number of attempts and threads (TcpConnector.hpp:62-99).
THEOREM SecondAnswerAlways == Spec => []SecondAnswerIsTheTimers
BY ConnectorInvariance, InvCounts, PTL

\* A callback ends the process only if it is a successCallback that throws, or
\* a missing failedCallback by a timer that expired before its attempt was
\* answered (TcpConnector.hpp:67, 76 and 89).
THEOREM TerminatedByCallbackAlways == Spec => []TerminatedByCallback
<1>1. IInv => TerminatedByCallback
  BY DEF IInv
<1> QED
  BY <1>1, ConnectorInvariance, PTL

----------------------------------------------------------------------------
(* The builders. *)

\* A builder takes the connector's steps, and no others that the connector
\* would see: what holds of the connector holds of its attempts.
THEOREM BuilderConnects == BuilderSpec => Spec
<1>1. BuilderInit => Init
  BY DEF BuilderInit
<1>2. [BuilderNext]_bvars => [Next]_vars
  <2> SUFFICES ASSUME [BuilderNext]_bvars PROVE [Next]_vars
    OBVIOUS
  <2>1. CASE UNCHANGED bvars
    BY <2>1 DEF bvars
  <2>2. ASSUME ~terminated, NEW a \in Attempts, HttpAsyncConnect(a) \/ Connecting(a) \/ Happens(a)
        PROVE  Next
    BY <2>2 DEF HttpAsyncConnect, Connecting, Happens, Next
  <2>4. CASE WithConnector \/ \E a \in Attempts : HttpAsyncConnectThrows(a)
    BY <2>4 DEF WithConnector, HttpAsyncConnectThrows
  <2>3. ASSUME ~terminated, NEW i \in DOMAIN handlers, Answer(i) PROVE Next
    BY <2>3 DEF Answer, Next, RunHandlers
  <2> QED
    BY <2>1, <2>2, <2>3, <2>4 DEF BuilderNext
<1> QED
  BY <1>1, <1>2, PTL DEF BuilderSpec, Spec

\* A list of attempts, each once, all of which threw but for those in A.
Leftovers(s, A) ==
    /\ s \in Seq(Attempts)
    /\ \A i, j \in DOMAIN s : s[i] = s[j] => i = j
    /\ \A i \in DOMAIN s : s[i] \in threw \cup A

\* The lists s and r have no attempt in common.
Apart(s, r) == \A i \in DOMAIN s, j \in DOMAIN r : s[i] # r[j]

Captured(a) == option[a].establish

\* What the builder holds between two attempts is left of calls that threw; an
\* attempt captured that and its own handlers, and no other attempt did.
BuilderInv ==
    /\ threw \subseteq Attempts
    /\ DOMAIN option = Attempts
    /\ Free => Leftovers(establishHandlers, {})
    /\ \A a \in Attempts : pc[a] # "idle" =>
        /\ a \notin threw
        /\ Leftovers(Captured(a), {a})
        /\ \E i \in DOMAIN Captured(a) : Captured(a)[i] = a
        /\ option[a].data = a
        /\ Free => Apart(Captured(a), establishHandlers)
        /\ \A b \in Attempts : pc[b] # "idle" /\ b # a => Apart(Captured(a), Captured(b))

\* A session is set, and entered, by the attempt that captured its handler,
\* when the connect's handler runs: then nothing is left of the connect.
SessionInv ==
    /\ mSession \in [Attempts -> Attempts \cup {None}]
    /\ receiving \subseteq Attempts
    /\ entered \in Seq([http : Attempts, tcp : Attempts])
    /\ \A a \in receiving :
        /\ ~ConnectLeft(a)
        /\ \A i \in DOMAIN Captured(a) : mSession[Captured(a)[i]] = a
    /\ \A h \in Attempts : mSession[h] # None =>
        \E a \in receiving : \E i \in DOMAIN Captured(a) : h = Captured(a)[i]
    /\ \A i \in DOMAIN entered :
        /\ entered[i].tcp \in receiving
        /\ \E k \in DOMAIN Captured(entered[i].tcp) :
               entered[i].http = Captured(entered[i].tcp)[k]
    /\ \A i, j \in DOMAIN entered : entered[i].http = entered[j].http => i = j

BInv == BuilderInv /\ SessionInv

\* When the connect's handler has run, nothing is left of the connect.
LEMMA ConnectOver ==
    ASSUME IInv, NEW i \in DOMAIN handlers, RunHandler(i),
           NEW a \in Attempts, handlers[i].attempt = a, handlers[i].kind \in OfConnect
    PROVE  ConnectLeft(a) /\ pc[a] = "returned" /\ ~ConnectLeft(a)'
<1>1. handlers \in Seq(HandlerSet) /\ Unique(handlers) /\ Once(a)
  BY Typed DEF IInv
<1>2. Waits(handlers, OfConnect, a)
  BY DEF Waits
<1>3. ~Waits(RemoveAt(handlers, i), OfConnect, a)
  BY <1>1, TakeUnique
<1>4. handlers' = RemoveAt(handlers, i) /\ pc' = pc /\ connecting' = connecting
  BY DEF RunHandler
<1>5. ~Waits(handlers', OfConnect, a)
  BY <1>3, <1>4
<1> QED
  BY <1>1, <1>2, <1>4, <1>5 DEF ConnectLeft, Once

\* Of another attempt a connect that is over stays over.
LEMMA OverStaysOver ==
    ASSUME IInv, [Next]_vars, NEW a \in Attempts, ~ConnectLeft(a)
    PROVE  ~ConnectLeft(a)'
<1>0. /\ handlers \in Seq(HandlerSet) /\ Unique(handlers) /\ DOMAIN pc = Attempts
      /\ pc[a] = "returned" /\ a \notin connecting /\ ~Waits(handlers, OfConnect, a)
  BY Typed DEF IInv, ConnectLeft
<1>1. CASE UNCHANGED vars
  BY <1>0, <1>1 DEF vars, ConnectLeft, Waits
<1>2. ASSUME NEW b \in Attempts, RunAfter(b) PROVE ~ConnectLeft(a)'
  BY <1>0, <1>2 DEF RunAfter, ConnectLeft, Waits
<1>3. ASSUME NEW b \in Attempts, AsyncConnect(b) PROVE ~ConnectLeft(a)'
  <2>1. a # b
    BY <1>0, <1>3 DEF AsyncConnect
  <2> QED
    BY <1>0, <1>3, <2>1 DEF AsyncConnect, ConnectLeft, Waits
<1>4. ASSUME NEW b \in Attempts, Expires(b) PROVE ~ConnectLeft(a)'
  <2>1. handlers' = Append(handlers, Handler("timeout", b)) /\ Handler("timeout", b) \in HandlerSet
        /\ Handler("timeout", b).kind \notin OfConnect
    BY <1>4 DEF Expires, Handler, HandlerSet, Kinds, OfConnect
  <2>2. ~Waits(handlers', OfConnect, a)
    BY <1>0, <2>1, AddHandler
  <2> QED
    BY <1>0, <1>4, <2>2 DEF Expires, ConnectLeft
<1>5. ASSUME NEW b \in Attempts, ConnectEnds(b) PROVE ~ConnectLeft(a)'
  <2>1. PICK kind \in OfConnect : handlers' = Append(handlers, Handler(kind, b))
    BY <1>5 DEF ConnectEnds, OfConnect
  <2>2. Handler(kind, b) \in HandlerSet /\ Handler(kind, b).attempt = b /\ a # b
    BY <1>0, <1>5 DEF ConnectEnds, Handler, HandlerSet, Kinds, OfConnect
  <2>3. ~Waits(handlers', OfConnect, a)
    BY <1>0, <2>1, <2>2, AddHandler
  <2> QED
    BY <1>0, <1>5, <2>3 DEF ConnectEnds, ConnectLeft
<1>6. ASSUME NEW i \in DOMAIN handlers, RunHandler(i) PROVE ~ConnectLeft(a)'
  <2>1. ~Waits(RemoveAt(handlers, i), OfConnect, a)
    BY <1>0, TakeUnique
  <2>2. ~Waits(handlers', OfConnect, a)
    BY <1>6, <2>1 DEF RunHandler
  <2> QED
    BY <1>0, <1>6, <2>2 DEF RunHandler, ConnectLeft
<1> QED
  BY <1>1, <1>2, <1>3, <1>4, <1>5, <1>6 DEF Next, RunHandlers

\* Before any connect no session was entered and nothing is left over.
LEMMA BuilderInitBInv == BuilderInit => BInv
<1> SUFFICES ASSUME BuilderInit PROVE BInv
  OBVIOUS
<1>1. \A a \in Attempts : pc[a] = "idle"
  BY DEF BuilderInit, Init
<1>2. BuilderInv
  BY <1>1 DEF BuilderInit, BuilderInv, Leftovers
<1>3. SessionInv
  BY DEF BuilderInit, SessionInv
<1> QED
  BY <1>2, <1>3 DEF BInv

\* Steps that leave the builder and the sessions alone.
LEMMA SessionsKept ==
    ASSUME IInv, BInv, [Next]_vars, pc' = pc, UNCHANGED <<builder, sessions>>
    PROVE  BInv'
<1>1. \A a \in Attempts : ~ConnectLeft(a) => ~ConnectLeft(a)'
  BY OverStaysOver
<1>2. BuilderInv'
  BY DEF BInv, BuilderInv, Leftovers, Captured, Apart, Free, builder
<1>3. SessionInv'
  BY <1>1 DEF BInv, SessionInv, Captured, builder, sessions
<1> QED
  BY <1>2, <1>3 DEF BInv

\* The attempt of a call is new to what the builder holds and to what the
\* other attempts captured.
LEMMA NewAttempt ==
    ASSUME BuilderInv, NEW a \in Attempts, Equip(a)
    PROVE  /\ Leftovers(establishHandlers', {a})
           /\ \E i \in DOMAIN establishHandlers' : establishHandlers'[i] = a
           /\ \A b \in Attempts : pc[b] # "idle" => Apart(Captured(b), establishHandlers')
<1>1. /\ Leftovers(establishHandlers, {}) /\ a \notin threw
      /\ establishHandlers' = Append(establishHandlers, a)
  BY DEF Equip, BuilderInv
<1>2. /\ establishHandlers' \in Seq(Attempts)
      /\ DOMAIN establishHandlers = 1..Len(establishHandlers) /\ Len(establishHandlers) \in Nat
      /\ DOMAIN establishHandlers' = 1..Len(establishHandlers) + 1
      /\ establishHandlers'[Len(establishHandlers) + 1] = a
      /\ \A i \in 1..Len(establishHandlers) : establishHandlers'[i] = establishHandlers[i]
  BY <1>1 DEF Leftovers
<1>3. \A i \in DOMAIN establishHandlers : establishHandlers[i] # a
  BY <1>1 DEF Leftovers
<1>4. Leftovers(establishHandlers', {a})
  BY <1>1, <1>2, <1>3 DEF Leftovers
<1>5. ASSUME NEW b \in Attempts, pc[b] # "idle" PROVE Apart(Captured(b), establishHandlers')
  <2>1. Apart(Captured(b), establishHandlers) /\ Leftovers(Captured(b), {b}) /\ b # a
    BY <1>5 DEF BuilderInv, Equip
  <2>2. \A i \in DOMAIN Captured(b) : Captured(b)[i] # a
    BY <1>1, <2>1 DEF Leftovers
  <2> QED
    BY <1>2, <2>1, <2>2 DEF Apart
<1> QED
  BY <1>2, <1>4, <1>5

\* A call that goes on to connect captures what the builder holds.
LEMMA ConnectStarts ==
    ASSUME IInv, BInv, [Next]_vars, NEW a \in Attempts, HttpAsyncConnect(a)
    PROVE  BInv'
<1>0. /\ pc[a] = "idle" /\ pc' = [pc EXCEPT ![a] = "timer"] /\ DOMAIN pc = Attempts
      /\ Equip(a) /\ a \notin threw /\ BuilderInv /\ SessionInv
      /\ option' = [option EXCEPT ![a] = [establish |-> establishHandlers', data |-> a]]
      /\ UNCHANGED <<threw, mSession, receiving, entered>>
  BY Typed DEF HttpAsyncConnect, Equip, RunAfter, sessions, IInv, BInv
<1>1. /\ pc'[a] = "timer" /\ \A b \in Attempts : b # a => pc'[b] = pc[b]
      /\ ~Free'
  BY <1>0 DEF Free
<1>2. /\ option'[a].data = a /\ Captured(a)' = establishHandlers'
      /\ \A b \in Attempts : b # a => option'[b] = option[b]
      /\ DOMAIN option' = Attempts
  BY <1>0 DEF BuilderInv, Captured
<1>3. /\ Leftovers(establishHandlers', {a})
      /\ \E i \in DOMAIN establishHandlers' : establishHandlers'[i] = a
      /\ \A b \in Attempts : pc[b] # "idle" => Apart(Captured(b), establishHandlers')
  BY <1>0, NewAttempt
<1>4. ASSUME NEW b \in Attempts, b # a, pc[b] # "idle"
      PROVE  Captured(b)' = Captured(b) /\ Apart(establishHandlers', Captured(b))
  BY <1>2, <1>3, <1>4 DEF Captured, Apart
<1>5. BuilderInv'
  <2> SUFFICES ASSUME NEW b \in Attempts, pc'[b] # "idle"
               PROVE  /\ b \notin threw
                      /\ Leftovers(Captured(b)', {b})
                      /\ \E i \in DOMAIN Captured(b)' : Captured(b)'[i] = b
                      /\ option'[b].data = b
                      /\ \A c \in Attempts : pc'[c] # "idle" /\ c # b =>
                            Apart(Captured(b)', Captured(c)')
    BY <1>0, <1>1, <1>2 DEF BuilderInv, Leftovers, Apart
  <2>1. CASE b = a
    BY <1>0, <1>1, <1>2, <1>3, <1>4, <2>1
  <2>2. CASE b # a
    <3>1. pc[b] # "idle" /\ Captured(b)' = Captured(b) /\ option'[b] = option[b]
      BY <1>1, <1>2, <1>4, <2>2
    <3>2. ASSUME NEW c \in Attempts, pc'[c] # "idle", c # b
          PROVE  Apart(Captured(b)', Captured(c)')
      <4>1. CASE c = a
        BY <1>2, <1>3, <3>1, <4>1
      <4>2. CASE c # a
        <5>1. pc[c] # "idle" /\ Captured(c)' = Captured(c)
          BY <1>1, <1>4, <3>2, <4>2
        <5>2. Apart(Captured(b), Captured(c))
          BY <1>0, <3>1, <3>2, <5>1 DEF BuilderInv
        <5> QED
          BY <3>1, <5>1, <5>2
      <4> QED
        BY <4>1, <4>2
    <3> QED
      BY <1>0, <3>1, <3>2 DEF BuilderInv
  <2> QED
    BY <2>1, <2>2
<1>6. SessionInv'
  <2>1. \A b \in receiving : ~ConnectLeft(b) /\ ~ConnectLeft(b)' /\ Captured(b)' = Captured(b)
    BY <1>0, <1>2, OverStaysOver DEF SessionInv, ConnectLeft, Captured
  <2> QED
    BY <1>0, <2>1 DEF SessionInv
<1> QED
  BY <1>5, <1>6 DEF BInv

\* A call that throws leaves its handlers behind.
LEMMA ConnectThrows ==
    ASSUME IInv, BInv, [Next]_vars, NEW a \in Attempts, HttpAsyncConnectThrows(a)
    PROVE  BInv'
<1>0. /\ pc[a] = "idle" /\ Free /\ Equip(a) /\ threw' = threw \cup {a}
      /\ UNCHANGED <<vars, option, mSession, receiving, entered>> /\ pc' = pc
      /\ BuilderInv /\ SessionInv
  BY DEF HttpAsyncConnectThrows, Equip, sessions, vars, BInv
<1>1. /\ Leftovers(establishHandlers', {a})
      /\ \A b \in Attempts : pc[b] # "idle" => Apart(Captured(b), establishHandlers')
  BY <1>0, NewAttempt
<1>2. BuilderInv'
  <2>1. Leftovers(establishHandlers, {})'
    BY <1>0, <1>1 DEF Leftovers
  <2>2. \A b \in Attempts : pc[b] # "idle" => b # a
    BY <1>0
  <2> QED
    BY <1>0, <1>1, <2>1, <2>2 DEF BuilderInv, Leftovers, Captured, Free
<1>3. SessionInv'
  <2>1. \A b \in receiving : ~ConnectLeft(b)'
    BY <1>0, OverStaysOver DEF SessionInv
  <2> QED
    BY <1>0, <2>1 DEF SessionInv, Captured
<1> QED
  BY <1>2, <1>3 DEF BInv

\* The connect has started: the builder holds nothing of it any more.
LEMMA ConnectCleared ==
    ASSUME IInv, BInv, [Next]_vars, NEW a \in Attempts, Connecting(a)
    PROVE  BInv'
<1>0. /\ pc[a] = "timer" /\ pc' = [pc EXCEPT ![a] = "returned"] /\ establishHandlers' = <<>>
      /\ UNCHANGED <<threw, option, mSession, receiving, entered>> /\ DOMAIN pc = Attempts
      /\ BuilderInv /\ SessionInv
  BY Typed DEF Connecting, AsyncConnect, Cleared, sessions, IInv, BInv
<1>1. \A b \in Attempts : pc'[b] # "idle" <=> pc[b] # "idle"
  BY <1>0
<1>2. BuilderInv'
  <2>1. /\ Leftovers(establishHandlers', {})
        /\ \A b \in Attempts : Apart(Captured(b), establishHandlers')
    BY <1>0 DEF Leftovers, Apart
  <2> QED
    BY <1>0, <1>1, <2>1 DEF BuilderInv, Leftovers, Captured, Apart
<1>3. SessionInv'
  <2>1. \A b \in receiving : ~ConnectLeft(b)'
    BY <1>0, OverStaysOver DEF SessionInv
  <2> QED
    BY <1>0, <2>1 DEF SessionInv, Captured
<1> QED
  BY <1>2, <1>3 DEF BInv

\* A connect that succeeded sets and enters the sessions that its attempt
\* captured, and these were neither set nor entered before.
LEMMA ConnectSucceeds ==
    ASSUME IInv, BInv, [Next]_vars, NEW i \in DOMAIN handlers, Answer(i),
           handlers[i].kind = "connected", handlers[i].attempt \notin throwing
    PROVE  BInv'
<1>0. handlers[i] \in HandlerSet
  BY Typed DEF IInv
<1>1. PICK a \in Attempts : a = handlers[i].attempt
  BY <1>0 DEF HandlerSet
<1>2. /\ RunHandler(i) /\ Establish(a) /\ UNCHANGED builder /\ pc' = pc
      /\ BuilderInv /\ SessionInv
  BY <1>1 DEF Answer, RunHandler, BInv
<1>3. ConnectLeft(a) /\ pc[a] = "returned" /\ ~ConnectLeft(a)'
  BY <1>1, <1>2, ConnectOver DEF OfConnect
<1>4. a \notin receiving /\ Leftovers(Captured(a), {a})
  BY <1>2, <1>3 DEF SessionInv, BuilderInv
<1>5. \A b \in receiving : pc[b] # "idle" /\ b # a /\ Apart(Captured(b), Captured(a))
  <2>1. \A b \in receiving : pc[b] = "returned" /\ b # a /\ b \in Attempts
    BY <1>2, <1>4 DEF SessionInv, ConnectLeft
  <2> QED
    BY <1>2, <1>3, <2>1 DEF BuilderInv
<1> DEFINE s == Captured(a)
           e == [k \in DOMAIN s |-> [http |-> s[k], tcp |-> a]]
<1>6. /\ mSession' = [h \in Attempts |->
                         IF mSession[h] = None /\ h \in ToSet(s) THEN a ELSE mSession[h]]
      /\ receiving' = receiving \cup {a} /\ entered' = entered \o e
  BY <1>2 DEF Establish, Captured
<1>7. /\ s \in Seq(Attempts) /\ DOMAIN s = 1..Len(s) /\ Len(s) \in Nat
      /\ \A k \in DOMAIN s : s[k] \in Attempts /\ s[k] \in ToSet(s)
      /\ \A h \in ToSet(s) : \E k \in DOMAIN s : s[k] = h
  BY <1>4 DEF Leftovers, ToSet
<1>8. \A h \in ToSet(s) : mSession[h] = None
  <2> SUFFICES ASSUME NEW k \in DOMAIN s, mSession[s[k]] # None PROVE FALSE
    BY <1>7
  <2>1. PICK b \in receiving : \E j \in DOMAIN Captured(b) : s[k] = Captured(b)[j]
    BY <1>2, <1>7 DEF SessionInv
  <2> QED
    BY <1>5, <2>1 DEF Apart
<1>9. /\ \A h \in Attempts : mSession'[h] = IF h \in ToSet(s) THEN a ELSE mSession[h]
      /\ mSession' \in [Attempts -> Attempts \cup {None}]
  BY <1>2, <1>6, <1>8 DEF SessionInv
<1>10. /\ e \in Seq([http : Attempts, tcp : Attempts]) /\ Len(e) = Len(s)
       /\ \A k \in 1..Len(s) : e[k] = [http |-> s[k], tcp |-> a]
  BY <1>7
<1> HIDE DEF e, s
<1>11. /\ entered \in Seq([http : Attempts, tcp : Attempts]) /\ Len(entered) \in Nat
       /\ DOMAIN entered = 1..Len(entered)
  BY <1>2 DEF SessionInv
<1>12. /\ entered' \in Seq([http : Attempts, tcp : Attempts])
       /\ DOMAIN entered' = 1..(Len(entered) + Len(s))
       /\ \A k \in 1..Len(entered) : entered'[k] = entered[k]
       /\ \A k \in (Len(entered) + 1)..(Len(entered) + Len(s)) :
             k - Len(entered) \in 1..Len(s) /\ entered'[k] = e[k - Len(entered)]
  <2>0. entered \in Seq([http : Attempts, tcp : Attempts]) /\ e \in Seq([http : Attempts, tcp : Attempts])
    BY <1>10, <1>11
  <2>1. /\ entered \o e \in Seq([http : Attempts, tcp : Attempts])
        /\ Len(entered \o e) = Len(entered) + Len(e)
        /\ \A k \in 1..(Len(entered) + Len(e)) :
             (entered \o e)[k] = IF k <= Len(entered) THEN entered[k] ELSE e[k - Len(entered)]
    BY ONLY <2>0, ConcatProperties
  <2>2. /\ Len(entered \o e) = Len(entered) + Len(s)
        /\ \A k \in 1..Len(entered) : (entered \o e)[k] = entered[k]
        /\ \A k \in (Len(entered) + 1)..(Len(entered) + Len(s)) :
             (entered \o e)[k] = e[k - Len(entered)]
    BY <1>7, <1>10, <1>11, <2>1
  <2>3. DOMAIN (entered \o e) = 1..Len(entered \o e)
    BY <2>1
  <2> QED
    BY <1>6, <1>7, <1>11, <2>1, <2>2, <2>3
<1>13. \A b \in Attempts : Captured(b)' = Captured(b)
  BY <1>2 DEF Captured, builder
<1>14. BuilderInv'
  BY <1>2, <1>13 DEF BuilderInv, Leftovers, Apart, Free, builder, Captured
<1>15. ASSUME NEW b \in receiving'
       PROVE  ~ConnectLeft(b)' /\ \A k \in DOMAIN Captured(b) : mSession'[Captured(b)[k]] = b
  <2>1. CASE b = a
    BY <1>3, <1>7, <1>9, <2>1 DEF s
  <2>2. CASE b # a
    <3>1. b \in receiving /\ b \in Attempts /\ ~ConnectLeft(b) /\ pc[b] # "idle"
      BY <1>2, <1>5, <1>6, <1>15, <2>2 DEF SessionInv
    <3>2. ~ConnectLeft(b)'
      BY <3>1, OverStaysOver
    <3>3. ASSUME NEW k \in DOMAIN Captured(b) PROVE mSession'[Captured(b)[k]] = b
      <4>1. Captured(b)[k] \in Attempts /\ mSession[Captured(b)[k]] = b
        BY <1>2, <3>1 DEF BuilderInv, SessionInv, Leftovers
      <4>2. Captured(b)[k] \notin ToSet(s)
        BY <1>5, <1>7, <3>1 DEF Apart, s
      <4> QED
        BY <1>9, <4>1, <4>2
    <3> QED
      BY <3>2, <3>3
  <2> QED
    BY <2>1, <2>2
<1>16. ASSUME NEW h \in Attempts, mSession'[h] # None
       PROVE  \E b \in receiving' : \E k \in DOMAIN Captured(b) : h = Captured(b)[k]
  <2>1. CASE h \in ToSet(s)
    BY <1>6, <1>7, <2>1 DEF s
  <2>2. CASE h \notin ToSet(s)
    BY <1>2, <1>6, <1>9, <1>16, <2>2 DEF SessionInv
  <2> QED
    BY <2>1, <2>2
<1>17. ASSUME NEW k \in DOMAIN entered'
       PROVE  /\ entered'[k].tcp \in receiving'
              /\ \E j \in DOMAIN Captured(entered'[k].tcp) :
                     entered'[k].http = Captured(entered'[k].tcp)[j]
              /\ k \in 1..Len(entered) => entered'[k].tcp \in receiving
              /\ k \notin 1..Len(entered) =>
                     k - Len(entered) \in 1..Len(s) /\ entered'[k].http = s[k - Len(entered)]
  <2>1. CASE k \in 1..Len(entered)
    BY <1>2, <1>6, <1>11, <1>12, <2>1 DEF SessionInv
  <2>2. CASE k \in (Len(entered) + 1)..(Len(entered) + Len(s))
    <3>1. /\ k - Len(entered) \in 1..Len(s) /\ k \notin 1..Len(entered)
          /\ entered'[k] = [http |-> s[k - Len(entered)], tcp |-> a]
      <4>1. k - Len(entered) \in 1..Len(s) /\ entered'[k] = e[k - Len(entered)]
        BY <1>12, <2>2
      <4>2. k \notin 1..Len(entered)
        BY <1>11, <2>2
      <4> QED
        BY <1>10, <4>1, <4>2
    <3>2. k - Len(entered) \in DOMAIN Captured(a) /\ s = Captured(a)
      BY <1>7, <3>1 DEF s
    <3> QED
      BY <1>6, <3>1, <3>2
  <2> QED
    BY <1>7, <1>11, <1>12, <2>1, <2>2
<1>18. ASSUME NEW k \in DOMAIN entered', NEW l \in DOMAIN entered',
              entered'[k].http = entered'[l].http
       PROVE  k = l
  <2>1. CASE k \in 1..Len(entered) /\ l \in 1..Len(entered)
    BY <1>2, <1>11, <1>12, <1>18, <2>1 DEF SessionInv
  <2>2. CASE k \notin 1..Len(entered) /\ l \notin 1..Len(entered)
    <3>1. /\ k - Len(entered) \in DOMAIN s /\ l - Len(entered) \in DOMAIN s
          /\ s[k - Len(entered)] = s[l - Len(entered)]
      BY <1>7, <1>17, <1>18, <2>2
    <3>2. k - Len(entered) = l - Len(entered)
      BY <1>4, <3>1 DEF Leftovers, s
    <3> QED
      BY <1>7, <1>11, <1>12, <3>2
  <2>3. ASSUME NEW x \in DOMAIN entered', NEW y \in DOMAIN entered',
               x \in 1..Len(entered), y \notin 1..Len(entered)
        PROVE  entered'[x].http # entered'[y].http
    <3>1. y - Len(entered) \in DOMAIN s /\ entered'[y].http = s[y - Len(entered)]
      BY <1>7, <1>17, <2>3
    <3>2. PICK b \in receiving : b = entered'[x].tcp
      BY <1>17, <2>3
    <3>3. \E j \in DOMAIN Captured(b) : entered'[x].http = Captured(b)[j]
      BY <1>17, <3>2
    <3> QED
      BY <1>5, <3>1, <3>2, <3>3 DEF Apart, s
  <2> QED
    BY <1>18, <2>1, <2>2, <2>3
<1>19. SessionInv'
  <2>1. receiving' \subseteq Attempts
    BY <1>2, <1>6 DEF SessionInv
  <2>2. option' = option
    BY <1>2 DEF builder
  <2>3. \A b \in receiving' :
            ~ConnectLeft(b)' /\ \A k \in DOMAIN option'[b].establish : mSession'[option'[b].establish[k]] = b
    BY <1>15, <2>2 DEF Captured
  <2>4. \A h \in Attempts : mSession'[h] # None =>
            \E b \in receiving' : \E k \in DOMAIN option'[b].establish : h = option'[b].establish[k]
    BY <1>16, <2>2 DEF Captured
  <2>5. \A k \in DOMAIN entered' :
            /\ entered'[k].tcp \in receiving'
            /\ \E j \in DOMAIN option'[entered'[k].tcp].establish :
                   entered'[k].http = option'[entered'[k].tcp].establish[j]
    <3> SUFFICES ASSUME NEW k \in DOMAIN entered'
                 PROVE  /\ entered'[k].tcp \in receiving'
                        /\ \E j \in DOMAIN option'[entered'[k].tcp].establish :
                               entered'[k].http = option'[entered'[k].tcp].establish[j]
      OBVIOUS
    <3> QED
      BY <1>17, <2>2 DEF Captured
  <2>6. \A k, l \in DOMAIN entered' : entered'[k].http = entered'[l].http => k = l
    BY <1>18
  <2> QED
    BY <1>9, <1>12, <2>1, <2>3, <2>4, <2>5, <2>6 DEF SessionInv, Captured
<1> QED
  BY <1>14, <1>19 DEF BInv

\* Every step of the builder keeps the pairing, for it only starts, answers
\* and clears its own attempt.
LEMMA BuilderStep ==
    ASSUME IInv, BInv, [BuilderNext]_bvars, [Next]_vars
    PROVE  BInv'
<1>1. CASE UNCHANGED bvars
  <2>1. pc' = pc /\ UNCHANGED <<builder, sessions>>
    BY <1>1 DEF bvars, vars
  <2> QED
    BY <2>1, SessionsKept
<1>2. CASE WithConnector
  <2>1. pc' = pc /\ UNCHANGED <<establishHandlers, dataHandler, option, threw, sessions>>
    BY <1>2 DEF WithConnector, vars
  <2>2. \A a \in Attempts : ~ConnectLeft(a) => ~ConnectLeft(a)'
    BY OverStaysOver
  <2>3. BuilderInv'
    BY <2>1 DEF BInv, BuilderInv, Leftovers, Captured, Apart, Free
  <2>4. SessionInv'
    BY <2>1, <2>2 DEF BInv, SessionInv, Captured, sessions
  <2> QED
    BY <2>3, <2>4 DEF BInv
<1>3. ASSUME NEW a \in Attempts, HttpAsyncConnect(a) PROVE BInv'
  BY <1>3, ConnectStarts
<1>4. ASSUME NEW a \in Attempts, HttpAsyncConnectThrows(a) PROVE BInv'
  BY <1>4, ConnectThrows
<1>5. ASSUME NEW a \in Attempts, Connecting(a) PROVE BInv'
  BY <1>5, ConnectCleared
<1>6. ASSUME NEW a \in Attempts, Happens(a) PROVE BInv'
  <2>1. pc' = pc /\ UNCHANGED <<builder, sessions>>
    BY <1>6 DEF Happens, Expires, ConnectEnds
  <2> QED
    BY <2>1, SessionsKept
<1>7. ASSUME NEW i \in DOMAIN handlers, Answer(i),
             ~(handlers[i].kind = "connected" /\ handlers[i].attempt \notin throwing)
      PROVE  BInv'
  <2>1. pc' = pc /\ UNCHANGED <<builder, sessions>>
    BY <1>7 DEF Answer, RunHandler
  <2> QED
    BY <2>1, SessionsKept
<1>8. ASSUME NEW i \in DOMAIN handlers, Answer(i),
             handlers[i].kind = "connected", handlers[i].attempt \notin throwing
      PROVE  BInv'
  BY <1>8, ConnectSucceeds
<1> QED
  BY <1>1, <1>2, <1>3, <1>4, <1>5, <1>6, <1>7, <1>8 DEF BuilderNext

\* A TcpSession that receives captured its attempt's own handler and, at most,
\* those of calls that threw: it entered their HttpSessions and no others.
LEMMA BInvPairs == IInv /\ BInv => SessionsPaired
<1> SUFFICES ASSUME IInv, BInv PROVE SessionsPaired
  OBVIOUS
<1>0. \A a \in receiving :
        /\ a \in Attempts /\ Leftovers(Captured(a), {a}) /\ option[a].data = a
        /\ \E i \in DOMAIN Captured(a) : Captured(a)[i] = a
        /\ \A i \in DOMAIN Captured(a) : mSession[Captured(a)[i]] = a
  BY DEF BInv, BuilderInv, SessionInv, ConnectLeft
<1>1. ASSUME NEW a \in receiving PROVE mSession[option[a].data] = a
  <2>1. PICK i \in DOMAIN Captured(a) : Captured(a)[i] = a
    BY <1>0
  <2>2. mSession[Captured(a)[i]] = a /\ option[a].data = a
    BY <1>0
  <2> QED
    BY <2>1, <2>2
<1>2. ASSUME NEW i \in DOMAIN entered
      PROVE  /\ entered[i].http = entered[i].tcp \/ entered[i].http \in threw
             /\ mSession[entered[i].http] = entered[i].tcp
  <2>1. PICK a \in receiving : a = entered[i].tcp
    BY DEF BInv, SessionInv
  <2>2. PICK k \in DOMAIN Captured(a) : entered[i].http = Captured(a)[k]
    BY <2>1 DEF BInv, SessionInv
  <2> QED
    BY <1>0, <2>1, <2>2 DEF Leftovers
<1> QED
  BY <1>1, <1>2 DEF SessionsPaired, BInv, SessionInv

\* However attempts of one builder overlap, each HttpSession is entered at
\* most once, and with the TcpSession of its own attempt unless its
\* asyncConnect threw, and no TcpSession receives for another (ConnectorBuilder.hpp:54-87, HttpConnectorBuilder.hpp:51-69).
THEOREM SessionsPairedAlways == BuilderSpec => []SessionsPaired
<1>1. BuilderInit => BInv
  BY BuilderInitBInv
<1>2. IInv /\ BInv /\ [BuilderNext]_bvars /\ [Next]_vars => BInv'
  BY BuilderStep
<1>3. BuilderSpec => BuilderInit /\ [][BuilderNext]_bvars
  BY PTL DEF BuilderSpec
<1>4. Spec => [][Next]_vars
  BY PTL DEF Spec
<1> QED
  BY <1>1, <1>2, <1>3, <1>4, BuilderConnects, ConnectorInvariance, BInvPairs, PTL

=============================================================================
