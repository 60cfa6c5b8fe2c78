------------------------ MODULE JacksRbClientProofs -------------------------
(***************************************************************************)
(* Proofs about JacksRbClient, for any number of ports and any sizes.      *)
(***************************************************************************)
EXTENDS JacksRbClient, FiniteSetTheorems, FunctionTheorems, SequenceTheorems,
        TLAPS

(* The operators the model is built from *)

\* What each callback enqueues.
LEMMA EventOfCallback == /\ EventOf("process") = "PROCESS"
                         /\ EventOf("session") = "SESSION"
                         /\ EventOf("sample_rate") = "SAMPLE_RATE_CHANGE"
                         /\ EventOf("shutdown") = "SHUTDOWN"
BY DEF EventOf

\* Where each callback goes on after sem_post.
LEMMA AfterPostCallback == /\ AfterPost("process") = "loop"
                           /\ AfterPost("session") = "latch"
                           /\ AfterPost("sample_rate") = "idle"
                           /\ AfterPost("shutdown") = "returned"
BY DEF AfterPost

\* A write leaves the ring within its capacity.
LEMMA WriteType ==
    ASSUME NEW fill \in 0..Capacity
    PROVE  WriteToRingbuffer(fill, NFrames).rb \in 0..Capacity
<1>1. SampleSize * NFrames \in Nat
  BY ClientAssumption
<1> DEFINE size == SampleSize * NFrames
<1> HIDE DEF size
<1>2. size \in Nat
  BY <1>1 DEF size
<1>3. fill + Stored(fill, size) \in 0..Capacity
  BY <1>2, ClientAssumption DEF Stored
<1> QED
  BY <1>3 DEF WriteToRingbuffer, size

\* A read takes at most what is there, and at most framebuf's size.
LEMMA ReadType ==
    ASSUME NEW fill \in 0..Capacity
    PROVE  /\ ReadFromRingbuffer(fill).rb \in 0..Capacity
           /\ ReadFromRingbuffer(fill).len \in 0..FramebufSize
BY ClientAssumption DEF ReadFromRingbuffer, FramebufSize

(* Counting in sequences *)

\* The places at which an event stands in a sequence.
Places(s, e) == {k \in 1..Len(s) : s[k] = e}

LEMMA PlacesFinite ==
    ASSUME NEW s \in Seq(Events), NEW e
    PROVE  IsFiniteSet(Places(s, e)) /\ Count(s, e) \in Nat
<1>1. IsFiniteSet(1..Len(s))
  BY FS_Interval
<1>2. Places(s, e) \in SUBSET (1..Len(s))
  BY DEF Places
<1>3. IsFiniteSet(Places(s, e))
  BY <1>1, <1>2, FS_Subset
<1>4. Count(s, e) = Cardinality(Places(s, e))
  BY DEF Count, Places
<1> QED
  BY <1>3, <1>4, FS_CardinalityType

LEMMA CountEmpty == \A e : Count(<<>>, e) = 0
<1> TAKE e
<1>1. {k \in 1..Len(<<>>) : <<>>[k] = e} = {}
  OBVIOUS
<1> QED
  BY <1>1, FS_EmptySet DEF Count

LEMMA CountSingle ==
    ASSUME NEW x \in Events, NEW e
    PROVE  Count(<<x>>, e) = IF e = x THEN 1 ELSE 0
<1> DEFINE P == {k \in 1..Len(<<x>>) : <<x>>[k] = e}
<1>1. Len(<<x>>) = 1 /\ <<x>>[1] = x
  OBVIOUS
<1>2. CASE e = x
  <2>1. P = {1}
    BY <1>1, <1>2
  <2> QED
    BY <1>2, <2>1, FS_Singleton DEF Count
<1>3. CASE e # x
  <2>1. P = {}
    BY <1>1, <1>3
  <2> QED
    BY <1>3, <2>1, FS_EmptySet DEF Count
<1> QED
  BY <1>2, <1>3

\* Places in the second of two sequences, counted from the first's start.
LEMMA CountShift ==
    ASSUME NEW t \in Seq(Events), NEW n \in Nat, NEW e
    PROVE  LET B == {k \in (n + 1)..(n + Len(t)) : t[k - n] = e}
           IN  IsFiniteSet(B) /\ Cardinality(B) = Count(t, e)
<1> DEFINE A == Places(t, e)
           B == {k \in (n + 1)..(n + Len(t)) : t[k - n] = e}
           f == [k \in A |-> k + n]
<1>0. Len(t) \in Nat
  OBVIOUS
<1>1. f \in [A -> B]
  <2> SUFFICES ASSUME NEW k \in A PROVE k + n \in B
    OBVIOUS
  <2>1. k \in 1..Len(t) /\ t[k] = e
    BY DEF Places
  <2>2. k + n \in (n + 1)..(n + Len(t)) /\ (k + n) - n = k
    BY <1>0, <2>1
  <2> QED
    BY <2>1, <2>2
<1>2. \A j, k \in A : f[j] = f[k] => j = k
  BY DEF Places
<1>3. ASSUME NEW b \in B PROVE \E k \in A : f[k] = b
  <2>1. b \in (n + 1)..(n + Len(t)) /\ t[b - n] = e
    OBVIOUS
  <2>2. b - n \in 1..Len(t) /\ (b - n) + n = b
    BY <1>0, <2>1
  <2>3. b - n \in A
    BY <2>1, <2>2 DEF Places
  <2> QED
    BY <2>2, <2>3
<1> HIDE DEF f, A, B
<1>4. f \in Bijection(A, B)
  BY <1>1, <1>2, <1>3, Fun_IsBij
<1>5. ExistsBijection(A, B)
  BY <1>4 DEF ExistsBijection
<1>6. IsFiniteSet(A) /\ Cardinality(A) = Count(t, e)
  BY PlacesFinite DEF A, Count, Places
<1> QED
  BY <1>5, <1>6, FS_Bijection DEF B

LEMMA CountConcat ==
    ASSUME NEW s \in Seq(Events), NEW t \in Seq(Events), NEW e
    PROVE  Count(s \o t, e) = Count(s, e) + Count(t, e)
<1> DEFINE n == Len(s)
           B == {k \in (n + 1)..(n + Len(t)) : t[k - n] = e}
<1>0. n \in Nat /\ Len(t) \in Nat
  OBVIOUS
<1>1. /\ Len(s \o t) = n + Len(t)
      /\ \A k \in 1..(n + Len(t)) :
            (s \o t)[k] = IF k <= n THEN s[k] ELSE t[k - n]
  BY ConcatProperties
<1>2. Places(s \o t, e) = Places(s, e) \cup B
  <2>1. ASSUME NEW k \in Places(s \o t, e) PROVE k \in Places(s, e) \cup B
    <3>1. k \in 1..(n + Len(t)) /\ (s \o t)[k] = e
      BY <1>1 DEF Places
    <3> QED
      BY <1>0, <1>1, <3>1 DEF Places
  <2>2. ASSUME NEW k \in Places(s, e) \cup B PROVE k \in Places(s \o t, e)
    <3>1. /\ k \in 1..(n + Len(t))
          /\ \/ k <= n /\ s[k] = e
             \/ ~(k <= n) /\ t[k - n] = e
      BY <1>0 DEF Places
    <3> QED
      BY <1>1, <3>1 DEF Places
  <2> QED
    BY <2>1, <2>2
<1>3. Places(s, e) \cap B = {}
  BY <1>0 DEF Places
<1>4. IsFiniteSet(B) /\ Cardinality(B) = Count(t, e)
  BY <1>0, CountShift
<1>5. IsFiniteSet(Places(s, e)) /\ Count(s, e) \in Nat /\ Count(t, e) \in Nat
  BY PlacesFinite
<1> HIDE DEF B
<1>6. Cardinality(Places(s, e) \cup B)
        = Cardinality(Places(s, e)) + Cardinality(B)
             - Cardinality(Places(s, e) \cap B)
  BY <1>4, <1>5, FS_Union
<1>7. Cardinality(Places(s, e) \cap B) = 0
  BY <1>3, FS_EmptySet
<1>8. /\ Count(s, e) = Cardinality(Places(s, e))
      /\ Count(s \o t, e) = Cardinality(Places(s \o t, e))
  BY DEF Count, Places
<1> QED
  BY <1>2, <1>4, <1>5, <1>6, <1>7, <1>8

\* One event and what hangs on it, put at the end of a sequence.
LEMMA CountAdd ==
    ASSUME NEW s \in Seq(Events), NEW x \in Events, NEW t \in Seq(Events), NEW e
    PROVE  /\ s \o <<x>> \o t \in Seq(Events)
           /\ Len(s \o <<x>> \o t) = Len(s) + 1 + Len(t)
           /\ Count(s \o <<x>> \o t, e)
                = Count(s, e) + (IF e = x THEN 1 ELSE 0) + Count(t, e)
<1>1. /\ <<x>> \in Seq(Events) /\ Len(<<x>>) = 1
      /\ s \o <<x>> \in Seq(Events) /\ Len(s \o <<x>>) = Len(s) + 1
  OBVIOUS
<1>2. Count(s \o <<x>>, e) = Count(s, e) + (IF e = x THEN 1 ELSE 0)
  <2>1. Count(s \o <<x>>, e) = Count(s, e) + Count(<<x>>, e)
    BY <1>1, CountConcat
  <2>2. Count(<<x>>, e) = IF e = x THEN 1 ELSE 0
    BY CountSingle
  <2> QED
    BY <2>1, <2>2, Zenon
<1>3. Count(s \o <<x>> \o t, e) = Count(s \o <<x>>, e) + Count(t, e)
  BY <1>1, CountConcat
<1> QED
  BY <1>1, <1>2, <1>3

LEMMA CountTail ==
    ASSUME NEW s \in Seq(Events), s # <<>>, NEW e
    PROVE  /\ Head(s) \in Events /\ Tail(s) \in Seq(Events)
           /\ Len(Tail(s)) = Len(s) - 1
           /\ Count(s, e) = (IF e = Head(s) THEN 1 ELSE 0) + Count(Tail(s), e)
<1>1. /\ Head(s) \in Events /\ Tail(s) \in Seq(Events)
      /\ Len(Tail(s)) = Len(s) - 1
  BY HeadTailProperties
<1>2. s = <<Head(s)>> \o Tail(s)
  BY <1>1
<1>3. <<Head(s)>> \in Seq(Events)
  BY <1>1
<1>4. Count(<<Head(s)>> \o Tail(s), e) = Count(<<Head(s)>>, e) + Count(Tail(s), e)
  BY <1>1, <1>3, CountConcat
<1> QED
  BY <1>1, <1>2, <1>4, CountSingle

LEMMA CountNat == ASSUME NEW s \in Seq(Events), NEW e PROVE Count(s, e) \in Nat
BY PlacesFinite

-----------------------------------------------------------------------------
(* What was enqueued *)

Total(f) == f["process"] + f["session"] + f["sample_rate"] + f["shutdown"]

\* What callback t had behind it goes to the queue, or with d more behind u.
LEMMA TotalLink ==
    ASSUME NEW f \in [Callbacks -> Nat], NEW g \in [Callbacks -> Nat],
           NEW t \in Callbacks,
           g[t] = 0, \A v \in Callbacks \ {t} : g[v] = f[v]
    PROVE  Total(g) + f[t] = Total(f)
<1>1. \A v \in Callbacks : f[v] \in Nat /\ g[v] \in Nat
  OBVIOUS
<1> QED
  BY <1>1 DEF Total, Callbacks

LEMMA TotalBehind ==
    ASSUME NEW f \in [Callbacks -> Nat], NEW g \in [Callbacks -> Nat],
           NEW t \in Callbacks, NEW u \in Callbacks, u # t, NEW d \in Nat,
           g[t] = 0, g[u] = f[u] + d + f[t],
           \A v \in Callbacks \ {t, u} : g[v] = f[v]
    PROVE  Total(g) = Total(f) + d
<1>1. \A v \in Callbacks : f[v] \in Nat /\ g[v] \in Nat
  OBVIOUS
<1>2. CASE t = "process"
  BY <1>1, <1>2 DEF Total, Callbacks
<1>3. CASE t = "session"
  BY <1>1, <1>3 DEF Total, Callbacks
<1>4. CASE t = "sample_rate"
  BY <1>1, <1>4 DEF Total, Callbacks
<1>5. CASE t = "shutdown"
  BY <1>1, <1>5 DEF Total, Callbacks
<1> QED
  BY <1>2, <1>3, <1>4, <1>5 DEF Callbacks

LEMMA FourNat ==
    ASSUME NEW a \in Nat, NEW b \in Nat, NEW c \in Nat, NEW d \in Nat
    PROVE  a + b + c + d \in Nat
OBVIOUS

\* Types of the queue, and of the sequences behind the callbacks.
QueueType == queue \in Seq(Events) /\ behind \in [Callbacks -> Seq(Events)]

\* What the queue holds, and what hangs on the callbacks' elements, add up.
LEMMA AcceptedSum ==
    ASSUME NEW e
    PROVE  /\ Hidden(e) = Total([t \in Callbacks |-> Count(behind[t], e)])
           /\ Hanging = Total([t \in Callbacks |-> Len(behind[t])])
           /\ QueueType => /\ Hidden(e) \in Nat /\ Hanging \in Nat
                           /\ Accepted(e) \in Nat
                           /\ Accepted(e) = Count(queue, e) + Hidden(e)
<1>1. /\ Hidden(e) = Total([t \in Callbacks |-> Count(behind[t], e)])
      /\ Hanging = Total([t \in Callbacks |-> Len(behind[t])])
  BY DEF Hidden, Hanging, Total, Callbacks
<1>2. ASSUME QueueType
      PROVE  Hidden(e) \in Nat /\ Hanging \in Nat /\ Accepted(e) \in Nat
  <2>1. \A t \in Callbacks : Count(behind[t], e) \in Nat /\ Len(behind[t]) \in Nat
    BY <1>2, CountNat DEF QueueType
  <2>2. Count(queue, e) \in Nat
    BY <1>2, CountNat DEF QueueType
  <2>3. Hidden(e) \in Nat
    <3>1. /\ Count(behind["process"], e) \in Nat
          /\ Count(behind["session"], e) \in Nat
          /\ Count(behind["sample_rate"], e) \in Nat
          /\ Count(behind["shutdown"], e) \in Nat
      BY <2>1 DEF Callbacks
    <3> QED
      BY <3>1 DEF Hidden
  <2>4. Hanging \in Nat
    <3>1. /\ Len(behind["process"]) \in Nat /\ Len(behind["session"]) \in Nat
          /\ Len(behind["sample_rate"]) \in Nat /\ Len(behind["shutdown"]) \in Nat
      BY <2>1 DEF Callbacks
    <3> QED
      BY <3>1, FourNat, Zenon DEF Hanging
  <2> QED
    BY <2>2, <2>3, <2>4 DEF Accepted
<1> QED
  BY <1>1, <1>2 DEF Accepted

LEMMA InitAccepted == Init => \A e : Accepted(e) = 0
<1> SUFFICES ASSUME Init, NEW e PROVE Accepted(e) = 0
  OBVIOUS
<1>1. queue = <<>> /\ \A t \in Callbacks : behind[t] = <<>>
  BY DEF Init
<1>2. Count(queue, e) = 0 /\ \A t \in Callbacks : Count(behind[t], e) = 0
  BY <1>1, CountEmpty
<1> QED
  BY <1>2 DEF Accepted, Hidden, Callbacks

\* A callback's event goes into the queue, or behind another's element.
Enqueues(t) == Link(t) \/ \E u \in Callbacks \ {t} : LinkBehind(t, u)

LEMMA EnqueueCounts ==
    ASSUME QueueType, NEW t \in Callbacks, Enqueues(t), NEW e
    PROVE  /\ QueueType'
           /\ Accepted(e)' = Accepted(e) + (IF e = EventOf(t) THEN 1 ELSE 0)
           /\ Len(queue)' + Hanging' = Len(queue) + Hanging + 1
<1> DEFINE x == EventOf(t)
           d == IF e = x THEN 1 ELSE 0
           f == [v \in Callbacks |-> Count(behind[v], e)]
           g == [v \in Callbacks |-> Count(behind'[v], e)]
           a == [v \in Callbacks |-> Len(behind[v])]
           b == [v \in Callbacks |-> Len(behind'[v])]
<1>0. x \in Events /\ d \in Nat
  BY EventOfCallback DEF Callbacks, Events
<1>1. /\ Hidden(e) = Total(f) /\ Hidden(e)' = Total(g)
      /\ Hanging = Total(a) /\ Hanging' = Total(b)
  BY DEF Hidden, Hanging, Total, Callbacks
<1>2. /\ queue \in Seq(Events) /\ behind \in [Callbacks -> Seq(Events)]
      /\ \A v \in Callbacks : behind[v] \in Seq(Events)
  BY DEF QueueType
<1>3. Count(<<>>, e) = 0 /\ Len(<<>>) = 0 /\ <<>> \in Seq(Events)
  BY CountEmpty
<1> HIDE DEF x, d
<1>4. CASE Link(t)
  <2>1. /\ queue' = queue \o <<x>> \o behind[t]
        /\ behind' = [behind EXCEPT ![t] = <<>>]
    BY <1>4 DEF Link, x
  <2>2. /\ queue' \in Seq(Events)
        /\ Len(queue') = Len(queue) + 1 + Len(behind[t])
        /\ Count(queue', e) = Count(queue, e) + d + Count(behind[t], e)
    BY <1>0, <1>2, <2>1, CountAdd DEF d
  <2>3. behind' \in [Callbacks -> Seq(Events)]
    BY <1>2, <1>3, <2>1
  <2>4. /\ behind'[t] = <<>>
        /\ \A v \in Callbacks \ {t} : behind'[v] = behind[v]
    BY <1>2, <2>1
  <2>5. /\ f \in [Callbacks -> Nat] /\ g \in [Callbacks -> Nat]
        /\ a \in [Callbacks -> Nat] /\ b \in [Callbacks -> Nat]
    BY <1>2, <2>3, CountNat
  <2>6. /\ g[t] = 0 /\ \A v \in Callbacks \ {t} : g[v] = f[v]
        /\ b[t] = 0 /\ \A v \in Callbacks \ {t} : b[v] = a[v]
        /\ f[t] = Count(behind[t], e) /\ a[t] = Len(behind[t])
    BY <1>3, <2>4
  <2>7. /\ Count(queue, e) \in Nat /\ Len(queue) \in Nat
        /\ f[t] \in Nat /\ a[t] \in Nat
    BY <1>2, <2>5, CountNat
  <2> HIDE DEF f, g, a, b
  <2>8. Total(g) + f[t] = Total(f) /\ Total(b) + a[t] = Total(a)
    BY <2>5, <2>6, TotalLink
  <2>9. Total(g) \in Nat /\ Total(b) \in Nat
    BY <2>5 DEF Total, Callbacks
  <2>10. QueueType'
    BY <2>2, <2>3 DEF QueueType
  <2>11. /\ Accepted(e) = Count(queue, e) + Total(f)
         /\ Accepted(e)' = Count(queue', e) + Total(g)
    BY <1>1 DEF Accepted
  <2>12. Accepted(e)' = Accepted(e) + d
    <3>1. (Count(queue, e) + d + f[t]) + Total(g)
            = Count(queue, e) + (Total(g) + f[t]) + d
      <4> DEFINE l == Count(queue, e)
                 k == f[t]
                 h == Total(g)
      <4>1. l \in Nat /\ k \in Nat /\ h \in Nat /\ d \in Nat
        BY <1>0, <2>7, <2>9
      <4> HIDE DEF l, k, h
      <4>2. (l + d + k) + h = l + (h + k) + d
        BY ONLY <4>1
      <4> QED
        BY ONLY <4>2, Zenon DEF l, k, h
    <3> QED
      BY <2>2, <2>6, <2>8, <2>11, <3>1, Zenon
  <2>13. Len(queue') + Hanging' = Len(queue) + Hanging + 1
    <3>1. Len(queue') = Len(queue) + 1 + a[t] /\ Total(b) + a[t] = Total(a)
      BY <2>2, <2>6, <2>8
    <3>2. Len(queue') + Total(b) = Len(queue) + Total(a) + 1
      <4> DEFINE l == Len(queue)
                 k == a[t]
                 h == Total(b)
      <4>1. l \in Nat /\ k \in Nat /\ h \in Nat
        BY <2>7, <2>9
      <4> HIDE DEF l, k, h
      <4>2. (l + 1 + k) + h = l + (h + k) + 1
        BY ONLY <4>1
      <4>3. (Len(queue) + 1 + a[t]) + Total(b) = Len(queue) + (Total(b) + a[t]) + 1
        BY ONLY <4>2, Zenon DEF l, k, h
      <4> QED
        BY <3>1, <4>3, Zenon
    <3> QED
      BY <1>1, <3>2
  <2> QED
    BY <2>10, <2>12, <2>13 DEF d, x
<1>5. ASSUME NEW u \in Callbacks \ {t}, LinkBehind(t, u)
      PROVE  /\ QueueType'
             /\ Accepted(e)' = Accepted(e) + d
             /\ Len(queue)' + Hanging' = Len(queue) + Hanging + 1
  <2>1. /\ queue' = queue
        /\ behind' = [behind EXCEPT ![u] = behind[u] \o <<x>> \o behind[t],
                                    ![t] = <<>>]
    BY <1>5 DEF LinkBehind, x
  <2>2. /\ behind[u] \o <<x>> \o behind[t] \in Seq(Events)
        /\ Len(behind[u] \o <<x>> \o behind[t]) = Len(behind[u]) + 1 + Len(behind[t])
        /\ Count(behind[u] \o <<x>> \o behind[t], e)
             = Count(behind[u], e) + d + Count(behind[t], e)
    BY <1>0, <1>2, CountAdd DEF d
  <2>3. behind' \in [Callbacks -> Seq(Events)]
    BY <1>2, <1>3, <2>1, <2>2
  <2>4. /\ behind'[t] = <<>> /\ behind'[u] = behind[u] \o <<x>> \o behind[t]
        /\ \A v \in Callbacks \ {t, u} : behind'[v] = behind[v]
    BY <1>2, <2>1
  <2>5. /\ f \in [Callbacks -> Nat] /\ g \in [Callbacks -> Nat]
        /\ a \in [Callbacks -> Nat] /\ b \in [Callbacks -> Nat]
    BY <1>2, <2>3, CountNat
  <2>6. /\ g[t] = 0 /\ g[u] = f[u] + d + f[t]
        /\ \A v \in Callbacks \ {t, u} : g[v] = f[v]
        /\ b[t] = 0 /\ b[u] = a[u] + 1 + a[t]
        /\ \A v \in Callbacks \ {t, u} : b[v] = a[v]
    BY <1>3, <2>2, <2>4
  <2> HIDE DEF f, g, a, b
  <2>0. u \in Callbacks /\ u # t
    OBVIOUS
  <2>7. Total(g) = Total(f) + d
    <3>1. PICK k \in Nat : k = d
      BY <1>0
    <3>2. g[u] = f[u] + k + f[t]
      BY <2>6, <3>1
    <3>3. /\ f \in [Callbacks -> Nat] /\ g \in [Callbacks -> Nat] /\ t \in Callbacks
          /\ g[t] = 0 /\ \A v \in Callbacks \ {t, u} : g[v] = f[v]
      BY <2>5, <2>6
    <3>4. Total(g) = Total(f) + k
      BY ONLY <2>0, <3>2, <3>3, k \in Nat, TotalBehind
    <3> QED
      BY <3>1, <3>4
  <2>8. Total(b) = Total(a) + 1
    <3>1. 1 \in Nat
      OBVIOUS
    <3> QED
      BY ONLY <2>0, <2>5, <2>6, <3>1, t \in Callbacks, TotalBehind
  <2>9. /\ Count(queue, e) \in Nat /\ Len(queue) \in Nat
        /\ Total(f) \in Nat /\ Total(a) \in Nat
    <3>1. Total(f) \in Nat /\ Total(a) \in Nat
      BY <2>5 DEF Total, Callbacks
    <3> QED
      BY <1>2, <3>1, CountNat
  <2>10. QueueType'
    BY <1>2, <2>1, <2>3 DEF QueueType
  <2>11. /\ Accepted(e) = Count(queue, e) + Total(f)
         /\ Accepted(e)' = Count(queue, e) + Total(g)
    BY <1>1, <2>1 DEF Accepted
  <2>12. Accepted(e)' = Accepted(e) + d
    BY <1>0, <2>7, <2>9, <2>11
  <2>13. Len(queue)' + Hanging' = Len(queue) + Hanging + 1
    BY <1>1, <2>1, <2>8, <2>9
  <2> QED
    BY <2>10, <2>12, <2>13
<1> QED
  BY <1>4, <1>5 DEF Enqueues, d, x

LEMMA DequeueCounts ==
    ASSUME QueueType, Dequeue, NEW e
    PROVE  /\ QueueType'
           /\ Accepted(e) = Accepted(e)' + (IF e = Head(queue) THEN 1 ELSE 0)
           /\ Accepted(e)' \in Nat
           /\ Len(queue)' + Hanging' + 1 = Len(queue) + Hanging
<1>1. queue # <<>> /\ queue' = Tail(queue) /\ behind' = behind
  BY DEF Dequeue
<1>2. /\ Tail(queue) \in Seq(Events) /\ Len(Tail(queue)) = Len(queue) - 1
      /\ Count(queue, e) = (IF e = Head(queue) THEN 1 ELSE 0) + Count(Tail(queue), e)
  BY <1>1, CountTail DEF QueueType
<1>3. QueueType'
  BY <1>1, <1>2 DEF QueueType
<1>4. Hidden(e)' = Hidden(e) /\ Hanging' = Hanging
  BY <1>1 DEF Hidden, Hanging
<1>5. Hidden(e) \in Nat /\ Hanging \in Nat /\ Count(Tail(queue), e) \in Nat
  BY <1>2, AcceptedSum, CountNat
<1>6. /\ Accepted(e) = Count(queue, e) + Hidden(e)
      /\ Accepted(e)' = Count(Tail(queue), e) + Hidden(e)
  BY <1>1, <1>4 DEF Accepted
<1>7. Len(queue) \in Nat
  BY DEF QueueType
<1> QED
  BY <1>1, <1>2, <1>3, <1>4, <1>5, <1>6, <1>7

LEMMA QuietCounts ==
    ASSUME QueueType, UNCHANGED <<queue, behind>>, NEW e
    PROVE  QueueType' /\ Accepted(e)' = Accepted(e) /\ Hanging' = Hanging
BY DEF QueueType, Accepted, Hidden, Hanging
-----------------------------------------------------------------------------
\* The initial state satisfies the inductive invariant.
LEMMA InitIInv == Init => IInv
<1> SUFFICES ASSUME Init PROVE IInv
  OBVIOUS
<1> USE ClientAssumption DEF Init
<1>0. PcOK
  BY DEF PcOK, Threads, Callbacks, NotifySteps, ProcessSteps, SessionSteps,
         ShutdownSteps, ScriptSteps
<1>1. TypeOK
  <2>1. nports \in 0..NPorts /\ stored \in 0..NPorts
    OBVIOUS
  <2>2. jack \in [active : BOOLEAN, process_cb : BOOLEAN, zombie : BOOLEAN]
    OBVIOUS
  <2>3. rb \in [Ports -> 0..Capacity]
    OBVIOUS
  <2>4. /\ queue \in Seq(Events) /\ Len(queue) <= RbSize
        /\ behind \in [Callbacks -> Seq(Events)]
    OBVIOUS
  <2>5. /\ free \in 0..RbSize
        /\ sem \in 0..SemMax
        /\ i \in 1..(NPorts + 1)
        /\ reading \in 1..(NPorts + 1)
        /\ len \in 0..FramebufSize
    BY DEF FramebufSize
  <2>6. /\ activated \in BOOLEAN
        /\ latch \in BOOLEAN
        /\ data \in BOOLEAN
        /\ done \in BOOLEAN
        /\ je \in Events \cup {NoEvent}
    OBVIOUS
  <2> QED
    BY <1>0, <2>1, <2>2, <2>3, <2>4, <2>5, <2>6 DEF TypeOK
<1>2. HiddenByCalls /\ ElementsConserved
  <2>1. /\ HiddenByCalls
        /\ Len(queue) = 0 /\ \A t \in Callbacks : Len(behind[t]) = 0
    BY DEF HiddenByCalls
  <2>2. Hanging = 0
    BY <2>1 DEF Hanging, Callbacks
  <2> QED
    BY <2>1, <2>2 DEF ElementsConserved, HeldBy, HeldByScript, Threads, Callbacks
<1>3. IndexInv /\ ScriptInv /\ DataInv
  BY DEF IndexInv, ScriptInv, DataInv, Threads, Callbacks
<1>4. NoLostWakeup /\ SessionHandshake /\ SessionUnique
  <2>1. Accepted("SESSION") = 0
    BY InitAccepted
  <2> QED
    BY <2>1 DEF NoLostWakeup, SessionHandshake, SessionUnique, Queued, NoEvent
<1> QED
  BY <1>1, <1>2, <1>3, <1>4 DEF IInv

\* The steps of an enqueue and the post after it.
LEMMA NotifyMoves ==
    ASSUME NEW t \in Callbacks, Notify(t)
    PROVE  \/ Goto(t, "enqueue", "link") \/ Goto(t, "enqueue", "post")
           \/ Goto(t, "enqueue", "idle") \/ Goto(t, "link", "post")
           \/ Goto(t, "post", AfterPost(t))
<1>1. CASE PopElement(t) \/ QueueFull(t) \/ SemPost(t)
  BY <1>1 DEF PopElement, QueueFull, SemPost
<1>2. CASE Link(t)
  BY <1>2 DEF Link
<1>3. ASSUME NEW u, LinkBehind(t, u) PROVE Goto(t, "link", "post")
  BY <1>3 DEF LinkBehind
<1> QED
  BY <1>1, <1>2, <1>3 DEF Notify

\* Every step takes its thread from one of its steps to another.
LEMMA NextPcOK == PcOK /\ [Next]_vars => PcOK'
<1> SUFFICES ASSUME PcOK, [Next]_vars PROVE PcOK'
  OBVIOUS
<1> USE DEF PcOK, Threads, Callbacks, NotifySteps, ProcessSteps, SessionSteps,
            ShutdownSteps, ScriptSteps, Goto
<1>1. CASE Process
  <2>1. CASE ProcessCall \/ ProcessReturn \/ ProcessWrite
    BY <2>1 DEF ProcessCall, ProcessReturn, ProcessWrite
  <2>2. CASE Notify("process")
    BY <2>2, NotifyMoves, AfterPostCallback
  <2> QED
    BY <1>1, <2>1, <2>2 DEF Process
<1>2. CASE Session
  <2>1. CASE SessionCall \/ SessionLatch \/ SessionClear \/ SessionReply
    BY <2>1 DEF SessionCall, SessionLatch, SessionClear, SessionReply
  <2>2. CASE Notify("session")
    BY <2>2, NotifyMoves, AfterPostCallback
  <2> QED
    BY <1>2, <2>1, <2>2 DEF Session
<1>3. CASE Shutdown
  <2>1. CASE ShutdownCall
    BY <2>1 DEF ShutdownCall
  <2>2. CASE Notify("shutdown")
    BY <2>2, NotifyMoves, AfterPostCallback
  <2> QED
    BY <1>3, <2>1, <2>2 DEF Shutdown
<1>4. CASE SampleRate
  <2>1. CASE SampleRateCall
    BY <2>1 DEF SampleRateCall
  <2>2. CASE Notify("sample_rate")
    BY <2>2, NotifyMoves, AfterPostCallback
  <2> QED
    BY <1>4, <2>1, <2>2 DEF SampleRate
<1>5. CASE Script
  <2>1. CASE RegisterPort \/ Activate \/ SemInterrupted
    BY <2>1 DEF RegisterPort, RegisterStore, RegisterCount, Activate,
       SemInterrupted
  <2>2. CASE GetEvent \/ Dequeue \/ DequeueEmpty \/ ReleaseElement \/ SemWait
    BY <2>2 DEF GetEvent, Dequeue, DequeueEmpty, ReleaseElement, SemWait
  <2>3. CASE HandleProcess \/ ReadPort \/ ReadDone \/ HandleSession \/ SessionDies
             \/ HandleSampleRate \/ HandleShutdown \/ Complete
    BY <2>3 DEF HandleProcess, ReadPort, ReadDone, HandleSession,
     SessionDies, HandleSampleRate, HandleShutdown, Complete
  <2> QED
    BY <1>5, <2>1, <2>2, <2>3 DEF Script, ScriptLoop
<1>6. CASE UNCHANGED vars
  BY <1>6 DEF vars
<1> QED
  BY <1>1, <1>2, <1>3, <1>4, <1>5, <1>6 DEF Next

\* Which actions change a variable.
LEMMA Frames ==
    ASSUME [Next]_vars
    PROVE  /\ UNCHANGED nports \/ RegisterCount
           /\ UNCHANGED stored \/ RegisterStore
           /\ UNCHANGED activated \/ Activate
           /\ UNCHANGED jack \/ Activate \/ ProcessWrite \/ QueueFull("process")
           /\ UNCHANGED rb \/ ProcessWrite \/ ReadPort
           /\ \/ UNCHANGED <<queue, behind>> \/ Dequeue
              \/ \E t \in Callbacks : Enqueues(t)
           /\ UNCHANGED free \/ ReleaseElement \/ \E t \in Callbacks : PopElement(t)
           /\ UNCHANGED sem \/ SemWait \/ \E t \in Callbacks : SemPost(t)
           /\ UNCHANGED latch \/ SessionLatch \/ Complete
           /\ UNCHANGED data \/ SessionCall \/ SessionClear
           /\ UNCHANGED i \/ i' = 1 \/ SemPost("process")
           /\ UNCHANGED je \/ Dequeue \/ SessionDies \/ Complete
           /\ UNCHANGED reading \/ reading' = 1 \/ ReadPort
           /\ UNCHANGED len \/ ReadPort \/ Complete
           /\ UNCHANGED done \/ HandleSession \/ HandleShutdown
<1> USE DEF ports, events, session, script
<1>1. ASSUME NEW t \in Callbacks, Notify(t)
      PROVE  /\ UNCHANGED <<nports, stored, activated, rb, session, script>>
             /\ UNCHANGED jack \/ (t = "process" /\ QueueFull(t))
             /\ UNCHANGED <<queue, behind>> \/ Enqueues(t)
             /\ UNCHANGED free \/ PopElement(t)
             /\ UNCHANGED sem \/ SemPost(t)
             /\ UNCHANGED i \/ i' = 1 \/ (t = "process" /\ SemPost(t))
  <2>1. CASE PopElement(t)
    BY <2>1 DEF PopElement
  <2>2. CASE QueueFull(t)
    BY <2>2 DEF QueueFull
  <2>3. CASE Enqueues(t)
    BY <2>3 DEF Enqueues, Link, LinkBehind
  <2>4. CASE SemPost(t)
    BY <2>4 DEF SemPost
  <2> QED
    BY <1>1, <2>1, <2>2, <2>3, <2>4 DEF Notify, Enqueues
<1>2. CASE Process
  BY <1>1, <1>2 DEF Process, ProcessCall, ProcessReturn, ProcessWrite, Callbacks
<1>3. CASE Session
  BY <1>1, <1>3 DEF Session, SessionCall, SessionLatch, SessionClear,
     SessionReply, Callbacks
<1>4. CASE Shutdown \/ SampleRate
  BY <1>1, <1>4 DEF Shutdown, ShutdownCall, SampleRate, SampleRateCall, Callbacks
<1>5. CASE Script
  BY <1>5 DEF Script, ScriptLoop, RegisterPort, RegisterStore, RegisterCount,
     Activate, SemInterrupted, GetEvent, Dequeue, DequeueEmpty, ReleaseElement,
     SemWait, HandleProcess, ReadPort, ReadDone, HandleSession,
     SessionDies, HandleSampleRate, HandleShutdown, Complete
<1>6. CASE UNCHANGED vars
  BY <1>6 DEF vars
<1> QED
  BY <1>2, <1>3, <1>4, <1>5, <1>6 DEF Next

\* Elements change hands in four actions only.
LEMMA ElementSteps ==
    ASSUME PcOK, [Next]_vars
    PROVE  \/ \E t \in Callbacks : PopElement(t) \/ Enqueues(t)
           \/ Dequeue \/ ReleaseElement
           \/ /\ UNCHANGED <<queue, behind, free>>
              /\ \A t \in Callbacks : pc'[t] = "link" <=> pc[t] = "link"
              /\ pc'["script"] = "release" <=> pc["script"] = "release"
<1> USE DEF PcOK, Threads, Callbacks, Goto, events, Enqueues
<1>1. ASSUME NEW t \in Callbacks, QueueFull(t) \/ SemPost(t)
      PROVE  /\ UNCHANGED <<queue, behind, free>>
             /\ \A u \in Callbacks : pc'[u] = "link" <=> pc[u] = "link"
             /\ pc'["script"] = "release" <=> pc["script"] = "release"
  BY <1>1, AfterPostCallback DEF QueueFull, SemPost
<1>2. CASE Process
  BY <1>1, <1>2 DEF Process, Notify, ProcessCall, ProcessReturn, ProcessWrite
<1>3. CASE Session
  BY <1>1, <1>3 DEF Session, Notify, SessionCall, SessionLatch, SessionClear,
     SessionReply
<1>4. CASE Shutdown \/ SampleRate
  BY <1>1, <1>4 DEF Shutdown, Notify, ShutdownCall, SampleRate, SampleRateCall
<1>5. CASE Script
  BY <1>5 DEF Script, ScriptLoop, RegisterPort, RegisterStore, RegisterCount,
     Activate, SemInterrupted, GetEvent, DequeueEmpty, SemWait, HandleProcess,
     ReadPort, ReadDone, HandleSession, SessionDies,
     HandleSampleRate, HandleShutdown, Complete
<1>6. CASE UNCHANGED vars
  BY <1>6 DEF vars
<1> QED
  BY <1>2, <1>3, <1>4, <1>5, <1>6 DEF Next

\* A callback leaves "link" only by linking its event.
LEMMA LinkSteps ==
    ASSUME PcOK, [Next]_vars, NEW t \in Callbacks, pc[t] = "link"
    PROVE  pc'[t] = "link" \/ Enqueues(t)
<1> USE DEF PcOK, Threads, Callbacks, Goto
<1>1. ASSUME NEW v \in Callbacks, Notify(v)
      PROVE  pc'[t] = "link" \/ Enqueues(t)
  <2>1. CASE v = t
    BY <1>1, <2>1 DEF Notify, PopElement, QueueFull, SemPost, Enqueues
  <2>2. CASE v # t
    BY <1>1, <2>2 DEF Notify, PopElement, QueueFull, Link, LinkBehind, SemPost
  <2> QED
    BY <2>1, <2>2
<1>2. CASE \/ ProcessCall \/ ProcessReturn \/ ProcessWrite \/ SessionCall
           \/ SessionLatch \/ SessionClear \/ SessionReply \/ ShutdownCall
           \/ SampleRateCall
  BY <1>2 DEF ProcessCall, ProcessReturn, ProcessWrite, SessionCall,
     SessionLatch, SessionClear, SessionReply, ShutdownCall, SampleRateCall
<1>3. CASE Script
  BY <1>3 DEF Script, ScriptLoop, RegisterPort, RegisterStore, RegisterCount,
     Activate, SemInterrupted, GetEvent, Dequeue, DequeueEmpty, ReleaseElement,
     SemWait, HandleProcess, ReadPort, ReadDone, HandleSession,
     SessionDies, HandleSampleRate, HandleShutdown, Complete
<1>4. CASE UNCHANGED vars
  BY <1>4 DEF vars
<1> QED
  BY <1>1, <1>2, <1>3, <1>4 DEF Next, Process, Session, Shutdown, SampleRate

\* What hangs on a callback's element goes with it.
LEMMA NextHiddenByCalls ==
    TypeOK /\ HiddenByCalls /\ [Next]_vars => HiddenByCalls'
<1> SUFFICES ASSUME TypeOK, HiddenByCalls, [Next]_vars,
                    NEW v \in Callbacks, behind'[v] # <<>>
             PROVE  pc'[v] = "link"
  BY DEF HiddenByCalls
<1>0. PcOK /\ behind \in [Callbacks -> Seq(Events)]
  BY DEF TypeOK
<1>1. ASSUME NEW t \in Callbacks, Enqueues(t) PROVE pc'[v] = "link"
  <2>1. /\ behind'[t] = <<>>
        /\ \A w \in Callbacks \ {t} : pc'[w] = pc[w]
        /\ \A w \in Callbacks \ {t} : behind'[w] = behind[w] \/ pc[w] = "link"
    <3>1. CASE Link(t)
      BY <1>0, <3>1 DEF Link, Goto, PcOK, Threads, Callbacks
    <3>2. ASSUME NEW u \in Callbacks \ {t}, LinkBehind(t, u)
          PROVE  /\ behind'[t] = <<>>
                 /\ \A w \in Callbacks \ {t} : pc'[w] = pc[w]
                 /\ \A w \in Callbacks \ {t} :
                       behind'[w] = behind[w] \/ pc[w] = "link"
      BY <1>0, <3>2 DEF LinkBehind, Goto, PcOK, Threads, Callbacks
    <3> QED
      BY <1>1, <3>1, <3>2 DEF Enqueues
  <2> QED
    BY <2>1 DEF HiddenByCalls
<1>2. CASE ~\E t \in Callbacks : Enqueues(t)
  <2>1. behind' = behind
    BY <1>2, Frames DEF Dequeue
  <2> QED
    BY <1>0, <1>2, <2>1, LinkSteps DEF HiddenByCalls
<1> QED
  BY <1>1, <1>2

\* Two of the parts of a sum are no larger than the sum.
LEMMA PartsOfSum ==
    ASSUME NEW a \in Nat, NEW b \in Nat, NEW h \in Nat, NEW c \in 0..1,
           NEW d \in 0..1, NEW e \in 0..1, NEW f \in 0..1, NEW g \in 0..1,
           NEW n \in Nat, a + (b + h) + c + d + e + f + g = n
    PROVE  b <= n /\ a \in 0..n
OBVIOUS

\* No step loses an element of the event queue or makes one up.
LEMMA NextElementsConserved ==
    TypeOK /\ ElementsConserved /\ [Next]_vars => ElementsConserved'
<1> SUFFICES ASSUME TypeOK, ElementsConserved, [Next]_vars
             PROVE  ElementsConserved'
  OBVIOUS
<1> USE DEF ElementsConserved, HeldBy, HeldByScript, Callbacks
<1>0. /\ PcOK
      /\ QueueType
      /\ Len(queue) + Hanging \in Nat
      /\ free \in Nat
      /\ RbSize \in Nat
  <2>1. QueueType
    BY DEF TypeOK, QueueType
  <2>2. Len(queue) \in Nat /\ Hanging \in Nat
    <3>1. Hanging \in Nat
      BY <2>1, AcceptedSum
    <3> QED
      BY <2>1, <3>1 DEF QueueType
  <2> QED
    BY <2>1, <2>2, ClientAssumption DEF TypeOK
<1>1. ASSUME NEW t \in Callbacks, PopElement(t) PROVE ElementsConserved'
  <2>1. Len(queue)' + Hanging' = Len(queue) + Hanging
    BY <1>1 DEF PopElement, Hanging
  <2>2. /\ free > 0 /\ free' = free - 1
        /\ pc[t] = "enqueue" /\ pc'[t] = "link"
        /\ \A u \in Callbacks \ {t} : pc'[u] = pc[u]
        /\ pc'["script"] = pc["script"]
    BY <1>0, <1>1 DEF PopElement, Goto, PcOK, Threads
  <2>3. CASE t = "process"
    BY <1>0, <2>1, <2>2, <2>3
  <2>4. CASE t = "session"
    BY <1>0, <2>1, <2>2, <2>4
  <2>5. CASE t = "sample_rate"
    BY <1>0, <2>1, <2>2, <2>5
  <2>6. CASE t = "shutdown"
    BY <1>0, <2>1, <2>2, <2>6
  <2> QED
    BY <2>3, <2>4, <2>5, <2>6
<1>2. ASSUME NEW t \in Callbacks, Enqueues(t) PROVE ElementsConserved'
  <2>1. Len(queue)' + Hanging' = Len(queue) + Hanging + 1
    BY <1>0, <1>2, EnqueueCounts
  <2>2. /\ free' = free
        /\ pc[t] = "link" /\ pc'[t] = "post"
        /\ \A u \in Threads \ {t} : pc'[u] = pc[u]
    BY <1>0, <1>2 DEF Enqueues, Link, LinkBehind, Goto, PcOK, Threads
  <2>3. \A u \in Callbacks \ {t} : pc'[u] = pc[u]
    BY <2>2 DEF Threads
  <2>4. pc'["script"] = pc["script"]
    BY <2>2 DEF Threads
  <2>5. CASE t = "process"
    BY <1>0, <2>1, <2>2, <2>3, <2>4, <2>5
  <2>6. CASE t = "session"
    BY <1>0, <2>1, <2>2, <2>3, <2>4, <2>6
  <2>7. CASE t = "sample_rate"
    BY <1>0, <2>1, <2>2, <2>3, <2>4, <2>7
  <2>8. CASE t = "shutdown"
    BY <1>0, <2>1, <2>2, <2>3, <2>4, <2>8
  <2> QED
    BY <2>5, <2>6, <2>7, <2>8
<1>3. CASE Dequeue
  <2>1. Len(queue)' + Hanging' + 1 = Len(queue) + Hanging
    BY <1>0, <1>3, DequeueCounts
  <2>2. QueueType'
    BY <1>0, <1>3, DequeueCounts
  <2>3. Len(queue)' \in Nat /\ Hanging' \in Nat
    <3>1. Hanging' = Hanging /\ Hanging \in Nat
      BY <1>0, <1>3, AcceptedSum DEF Dequeue, Hanging
    <3> QED
      BY <2>2, <3>1 DEF QueueType
  <2>4. /\ free' = free
        /\ pc["script"] = "dequeue" /\ pc'["script"] = "release"
        /\ \A u \in Callbacks : pc'[u] = pc[u]
    BY <1>0, <1>3 DEF Dequeue, Goto, PcOK, Threads
  <2>5. /\ HeldBy("process")' = HeldBy("process") /\ HeldBy("process") \in 0..1
        /\ HeldBy("session")' = HeldBy("session") /\ HeldBy("session") \in 0..1
        /\ HeldBy("sample_rate")' = HeldBy("sample_rate")
        /\ HeldBy("sample_rate") \in 0..1
        /\ HeldBy("shutdown")' = HeldBy("shutdown") /\ HeldBy("shutdown") \in 0..1
    BY <2>4
  <2>6. HeldByScript = 0 /\ HeldByScript' = 1
    BY <2>4
  <2> HIDE DEF HeldBy, HeldByScript
  <2> QED
    BY <1>0, <2>1, <2>3, <2>4, <2>5, <2>6, SMTT(30)
<1>4. CASE ReleaseElement
  <2>1. Len(queue)' + Hanging' = Len(queue) + Hanging
    BY <1>4 DEF ReleaseElement, Hanging
  <2> QED
    BY <1>0, <1>4, <2>1 DEF ReleaseElement, Goto, PcOK, Threads
<1>5. CASE /\ UNCHANGED <<queue, behind, free>>
           /\ \A t \in Callbacks : pc'[t] = "link" <=> pc[t] = "link"
           /\ pc'["script"] = "release" <=> pc["script"] = "release"
  <2>1. Len(queue)' + Hanging' = Len(queue) + Hanging
    BY <1>5 DEF Hanging
  <2> QED
    BY <1>0, <1>5, <2>1
<1> QED
  BY <1>0, <1>1, <1>2, <1>3, <1>4, <1>5, ElementSteps

\* The callback's index and the port count stay in step.
LEMMA NextIndexInv == TypeOK /\ IndexInv /\ [Next]_vars => IndexInv'
<1> SUFFICES ASSUME TypeOK, IndexInv, [Next]_vars PROVE IndexInv'
  OBVIOUS
<1> USE DEF IndexInv, PcOK, Threads, Callbacks, Goto
<1>0. /\ PcOK
      /\ nports \in Nat
      /\ stored \in Nat
      /\ i \in Nat
  BY DEF TypeOK
<1>1. CASE Process
  <2>1. CASE ProcessCall \/ ProcessReturn \/ ProcessWrite
    BY <1>0, <2>1 DEF ProcessCall, ProcessReturn, ProcessWrite, ports
  <2>2. CASE Notify("process")
    BY <1>0, <2>2, AfterPostCallback DEF Notify, PopElement, QueueFull, Link,
     LinkBehind, SemPost, ports
  <2> QED
    BY <1>1, <2>1, <2>2 DEF Process
<1>2. ASSUME NEW t \in {"session", "shutdown", "sample_rate"}, Notify(t)
      PROVE  IndexInv'
  BY <1>0, <1>2, AfterPostCallback DEF Notify, PopElement, QueueFull, Link,
     LinkBehind, SemPost, ports
<1>3. CASE SessionCall \/ SessionLatch \/ SessionClear \/ SessionReply
           \/ ShutdownCall \/ SampleRateCall
  BY <1>0, <1>3 DEF SessionCall, SessionLatch, SessionClear, SessionReply,
     ShutdownCall, SampleRateCall, ports
<1>4. CASE RegisterPort
  BY <1>0, <1>4 DEF RegisterPort, RegisterStore, RegisterCount
<1>5. CASE Activate \/ SemInterrupted \/ ScriptLoop
  BY <1>0, <1>5 DEF ScriptLoop, Activate, SemInterrupted, GetEvent, Dequeue,
     DequeueEmpty, ReleaseElement, SemWait, HandleProcess, ReadPort, ReadDone,
     HandleSession, SessionDies, HandleSampleRate, HandleShutdown, Complete, ports
<1>6. CASE UNCHANGED vars
  BY <1>6 DEF vars, ports
<1> QED
  BY <1>1, <1>2, <1>3, <1>4, <1>5, <1>6 DEF Next, Session, Shutdown, SampleRate,
     Script

\* The script gives its event up when it completes it.
LEMMA NextScriptInv == TypeOK /\ ScriptInv /\ [Next]_vars => ScriptInv'
<1> SUFFICES ASSUME TypeOK, ScriptInv, [Next]_vars PROVE ScriptInv'
  OBVIOUS
<1> USE DEF ScriptInv, PcOK, Threads, Callbacks, Goto
<1>0. PcOK
  BY DEF TypeOK
<1>1. ASSUME NEW t \in Callbacks, Notify(t) PROVE ScriptInv'
  BY <1>0, <1>1 DEF Notify, PopElement, QueueFull, Link, LinkBehind, SemPost, script
<1>2. CASE \/ ProcessCall \/ ProcessReturn \/ ProcessWrite \/ SessionCall
           \/ SessionLatch \/ SessionClear \/ SessionReply \/ ShutdownCall
           \/ SampleRateCall
  BY <1>0, <1>2 DEF ProcessCall, ProcessReturn, ProcessWrite, SessionCall,
     SessionLatch, SessionClear, SessionReply, ShutdownCall, SampleRateCall,
     script
<1>3. CASE Script
  BY <1>0, <1>3 DEF Script, ScriptLoop, RegisterPort, RegisterStore,
     RegisterCount, Activate, SemInterrupted, GetEvent, Dequeue, DequeueEmpty,
     ReleaseElement, SemWait, HandleProcess, ReadPort, ReadDone, HandleSession,
     SessionDies, HandleSampleRate, HandleShutdown, Complete, script
<1>4. CASE UNCHANGED vars
  BY <1>4 DEF vars, script
<1> QED
  BY <1>1, <1>2, <1>3, <1>4 DEF Next, Process, Session, Shutdown, SampleRate,
     Callbacks

\* The script comes to wait only when it has seen the queue empty, a callback
\* leaves "post" only by posting, and only the script takes from the semaphore.
LEMMA WakeupSteps ==
    ASSUME PcOK, [Next]_vars
    PROVE  /\ pc'["script"] = "wait" => pc["script"] = "wait" \/ DequeueEmpty
           /\ \A t \in Callbacks :
                pc[t] = "post" => pc'[t] = "post" \/ SemPost(t)
<1> USE DEF PcOK, Threads, Callbacks, Goto
<1>1. ASSUME NEW t \in Callbacks, Notify(t)
      PROVE  /\ pc'["script"] = pc["script"]
             /\ \A u \in Callbacks :
                  pc[u] = "post" => pc'[u] = "post" \/ SemPost(u)
  <2>1. CASE SemPost(t)
    <3>1. \A u \in Threads \ {t} : pc'[u] = pc[u]
      BY <2>1 DEF SemPost
    <3> QED
      BY <2>1, <3>1
  <2>2. CASE PopElement(t) \/ QueueFull(t) \/ Enqueues(t)
    BY <2>2 DEF PopElement, QueueFull, Enqueues, Link, LinkBehind
  <2> QED
    BY <1>1, <2>1, <2>2 DEF Notify, Enqueues
<1>2. CASE Process
  BY <1>1, <1>2 DEF Process, ProcessCall, ProcessReturn, ProcessWrite
<1>3. CASE Session
  BY <1>1, <1>3 DEF Session, SessionCall, SessionLatch, SessionClear,
     SessionReply
<1>4. CASE Shutdown \/ SampleRate
  BY <1>1, <1>4 DEF Shutdown, ShutdownCall, SampleRate, SampleRateCall
<1>5. CASE Script
  <2>1. CASE DequeueEmpty
    BY <2>1 DEF DequeueEmpty
  <2>2. CASE \/ RegisterPort \/ Activate \/ SemInterrupted \/ GetEvent
             \/ Dequeue \/ ReleaseElement \/ SemWait
    BY <2>2 DEF RegisterPort, RegisterStore, RegisterCount, Activate,
       SemInterrupted, GetEvent, Dequeue, ReleaseElement, SemWait
  <2>3. CASE \/ HandleProcess \/ ReadPort \/ ReadDone \/ HandleSession \/ SessionDies
             \/ HandleSampleRate \/ HandleShutdown \/ Complete
    BY <2>3 DEF HandleProcess, ReadPort, ReadDone, HandleSession,
     SessionDies, HandleSampleRate, HandleShutdown, Complete
  <2> QED
    BY <1>5, <2>1, <2>2, <2>3 DEF Script, ScriptLoop
<1>6. CASE UNCHANGED vars
  BY <1>6 DEF vars
<1> QED
  BY <1>2, <1>3, <1>4, <1>5, <1>6 DEF Next

\* No step loses a wake-up.
LEMMA NextNoLostWakeup ==
    TypeOK /\ NoLostWakeup /\ [Next]_vars => NoLostWakeup'
<1> SUFFICES ASSUME TypeOK, NoLostWakeup, [Next]_vars,
                    pc'["script"] = "wait", queue' # <<>>
             PROVE  sem' > 0 \/ \E t \in Callbacks : pc'[t] = "post"
  BY DEF NoLostWakeup
<1>0. PcOK /\ sem \in Nat /\ SemMax \in Nat \ {0}
  BY ClientAssumption DEF TypeOK
<1>1. CASE \E t \in Callbacks : Enqueues(t)
  BY <1>0, <1>1 DEF Enqueues, Link, LinkBehind, Goto, PcOK, Threads
<1>2. CASE \E t \in Callbacks : SemPost(t)
  <2>1. sem' > 0
    BY <1>0, <1>2 DEF SemPost
  <2> QED
    BY <2>1
<1>3. CASE DequeueEmpty
  BY <1>3 DEF DequeueEmpty, events
<1>4. CASE /\ ~DequeueEmpty
           /\ \A t \in Callbacks : ~Enqueues(t) /\ ~SemPost(t)
  <2>1. pc["script"] = "wait"
    BY <1>0, <1>4, WakeupSteps
  <2>2. ~SemWait /\ ~Dequeue
    BY <1>0, <2>1 DEF SemWait, Dequeue, Goto, PcOK, Threads
  <2>3. queue' = queue /\ sem' = sem
    BY <1>4, <2>2, Frames
  <2> QED
    BY <1>0, <1>4, <2>1, <2>3, WakeupSteps DEF NoLostWakeup
<1> QED
  BY <1>1, <1>2, <1>3, <1>4

-----------------------------------------------------------------------------
\* Having linked its event the session callback stays where it is until the
\* latch lets it go.
LEMMA SessionMoves ==
    ASSUME PcOK, [Next]_vars
    PROVE  pc["session"] \in {"post", "latch"}
              => pc'["session"] \in {"post", "latch"} \/ SessionLatch
<1> USE DEF PcOK, Threads, Callbacks, Goto
<1>1. ASSUME NEW t \in Callbacks, Notify(t)
      PROVE  pc["session"] \in {"post", "latch"}
                => pc'["session"] \in {"post", "latch"}
  BY <1>1, AfterPostCallback DEF Notify, PopElement, QueueFull, Link,
     LinkBehind, SemPost
<1>2. CASE Process
  BY <1>1, <1>2 DEF Process, ProcessCall, ProcessReturn, ProcessWrite
<1>3. CASE Session
  BY <1>1, <1>3 DEF Session, SessionCall, SessionClear, SessionReply
<1>4. CASE Shutdown \/ SampleRate
  BY <1>1, <1>4 DEF Shutdown, ShutdownCall, SampleRate, SampleRateCall
<1>5. CASE Script
  BY <1>5 DEF Script, ScriptLoop, RegisterPort, RegisterStore, RegisterCount,
     Activate, SemInterrupted, GetEvent, Dequeue, DequeueEmpty, ReleaseElement,
     SemWait, HandleProcess, ReadPort, ReadDone, HandleSession, SessionDies,
     HandleSampleRate, HandleShutdown, Complete
<1>6. CASE UNCHANGED vars
  BY <1>6 DEF vars
<1> QED
  BY <1>2, <1>3, <1>4, <1>5, <1>6 DEF Next

\* The data is there from the start of the callback to its last use.
LEMMA NextDataInv == TypeOK /\ DataInv /\ [Next]_vars => DataInv'
<1> SUFFICES ASSUME TypeOK, DataInv, [Next]_vars PROVE DataInv'
  OBVIOUS
<1> USE DEF DataInv, PcOK, Threads, Callbacks, Goto
<1>0. PcOK
  BY DEF TypeOK
<1>1. ASSUME NEW t \in Callbacks, Notify(t) PROVE DataInv'
  BY <1>0, <1>1, AfterPostCallback DEF Notify, PopElement, QueueFull, Link,
     LinkBehind, SemPost, session
<1>2. CASE ProcessCall \/ ProcessReturn \/ ProcessWrite \/ ShutdownCall
           \/ SampleRateCall
  BY <1>0, <1>2 DEF ProcessCall, ProcessReturn, ProcessWrite, ShutdownCall,
     SampleRateCall, session
<1>3. CASE SessionCall \/ SessionLatch \/ SessionClear \/ SessionReply
  BY <1>0, <1>3 DEF SessionCall, SessionLatch, SessionClear, SessionReply,
     session
<1>4. CASE Script
  BY <1>0, <1>4 DEF Script, ScriptLoop, RegisterPort, RegisterStore,
     RegisterCount, Activate, SemInterrupted, GetEvent, Dequeue, DequeueEmpty,
     ReleaseElement, SemWait, HandleProcess, ReadPort, ReadDone, HandleSession,
     SessionDies, HandleSampleRate, HandleShutdown, Complete, session
<1>5. CASE UNCHANGED vars
  BY <1>5 DEF vars, session
<1> QED
  BY <1>1, <1>2, <1>3, <1>4, <1>5 DEF Next, Process, Session, Shutdown,
     SampleRate, Callbacks

\* How the session event gets where it is.
LEMMA SessionOrigin ==
    ASSUME TypeOK, [Next]_vars
    PROVE  \/ Enqueues("session")
           \/ Dequeue
           \/ /\ Accepted("SESSION")' = Accepted("SESSION")
              /\ \/ UNCHANGED <<je, latch>>
                 \/ SessionLatch /\ je' = je
                 \/ SessionDies /\ UNCHANGED latch
                 \/ Complete
<1>0. QueueType
  BY DEF TypeOK, QueueType
<1>1. \/ UNCHANGED <<je, latch>> \/ SessionLatch \/ SessionDies \/ Complete
      \/ Dequeue
  BY Frames
<1>2. CASE Dequeue
  BY <1>2
<1>3. ASSUME NEW t \in Callbacks \ {"session"}, Enqueues(t)
      PROVE  Accepted("SESSION")' = Accepted("SESSION") /\ UNCHANGED <<je, latch>>
  <2>1. EventOf(t) # "SESSION"
    BY EventOfCallback DEF Callbacks
  <2>2. Accepted("SESSION")'
          = Accepted("SESSION") + (IF "SESSION" = EventOf(t) THEN 1 ELSE 0)
    BY <1>0, <1>3, EnqueueCounts
  <2>3. Accepted("SESSION") \in Nat
    BY <1>0, AcceptedSum
  <2>4. UNCHANGED <<je, latch>>
    BY <1>3 DEF Enqueues, Link, LinkBehind, session, script
  <2> QED
    BY <2>1, <2>2, <2>3, <2>4
<1>4. CASE UNCHANGED <<queue, behind>>
  <2>1. Accepted("SESSION")' = Accepted("SESSION")
    BY <1>0, <1>4, QuietCounts
  <2>2. SessionLatch => je' = je
    BY DEF SessionLatch, script
  <2>3. SessionDies => UNCHANGED latch
    BY DEF SessionDies, session
  <2> QED
    BY <1>1, <1>2, <2>1, <2>2, <2>3
<1> QED
  BY <1>2, <1>3, <1>4, Frames DEF Callbacks

\* The script takes the session event out of the queue, or another.
LEMMA SessionDequeue ==
    ASSUME TypeOK, Dequeue
    PROVE  /\ UNCHANGED latch
           /\ je' = "SESSION" => Accepted("SESSION")' + 1 = Accepted("SESSION")
           /\ je' # "SESSION" => Accepted("SESSION")' = Accepted("SESSION")
           /\ Accepted("SESSION")' \in Nat
<1>1. /\ Accepted("SESSION") = Accepted("SESSION")'
                + (IF "SESSION" = Head(queue) THEN 1 ELSE 0)
      /\ Accepted("SESSION")' \in Nat
  BY DequeueCounts DEF TypeOK, QueueType
<1>2. je' = Head(queue) /\ UNCHANGED latch
  BY DEF Dequeue, session
<1> QED
  BY <1>1, <1>2

\* The session callback enqueues its event when nobody has one.
LEMMA SessionEnqueues ==
    ASSUME IInv, Enqueues("session")
    PROVE  /\ Accepted("SESSION") = 0 /\ je # "SESSION" /\ ~latch
           /\ Accepted("SESSION")' = 1 /\ je' = je /\ latch' = latch
           /\ pc'["session"] = "post"
<1>0. QueueType /\ PcOK /\ SessionHandshake /\ "session" \in Callbacks
  BY DEF IInv, TypeOK, QueueType, Callbacks
<1>1. pc["session"] = "link" /\ pc'["session"] = "post" /\ UNCHANGED <<je, latch>>
  BY <1>0 DEF Enqueues, Link, LinkBehind, Goto, PcOK, Threads, session, script
<1>2. ~Queued("SESSION") /\ je # "SESSION" /\ ~latch
  BY <1>0, <1>1 DEF SessionHandshake
<1>3. Accepted("SESSION") \in Nat
  BY <1>0, AcceptedSum
<1>4. Accepted("SESSION") = 0
  BY <1>2, <1>3 DEF Queued
<1>5. Accepted("SESSION")'
        = Accepted("SESSION") + (IF "SESSION" = EventOf("session") THEN 1 ELSE 0)
  BY <1>0, EnqueueCounts
<1>6. Accepted("SESSION")' = 1
  BY <1>4, <1>5, EventOfCallback
<1> QED
  BY <1>1, <1>2, <1>4, <1>6

\* While the session event is about, the callback waits for it.
LEMMA NextSessionHandshake ==
    IInv /\ [Next]_vars /\ DataInv' => SessionHandshake'
<1> SUFFICES ASSUME IInv, [Next]_vars, DataInv',
                    Queued("SESSION")' \/ je' = "SESSION" \/ latch'
             PROVE  data' /\ pc'["session"] \in {"post", "latch"}
  BY DEF SessionHandshake
<1>0. /\ TypeOK /\ PcOK /\ latch \in BOOLEAN
      /\ SessionHandshake
      /\ SessionUnique
      /\ Accepted("SESSION") \in Nat
  BY AcceptedSum DEF IInv, TypeOK, QueueType
<1>1. CASE Enqueues("session")
  <2>1. pc'["session"] = "post"
    BY <1>1, SessionEnqueues
  <2> QED
    BY <2>1 DEF DataInv
<1>2. CASE ~Enqueues("session")
  <2>1. Queued("SESSION") \/ je = "SESSION" \/ latch
    <3>1. CASE Dequeue
      <4>1. /\ UNCHANGED latch
            /\ je' = "SESSION" => Accepted("SESSION")' + 1 = Accepted("SESSION")
            /\ je' # "SESSION" => Accepted("SESSION")' = Accepted("SESSION")
        BY <1>0, <3>1, SessionDequeue
      <4>2. CASE je' = "SESSION"
        <5>1. Accepted("SESSION")' \in Nat
          BY <1>0, <3>1, DequeueCounts DEF TypeOK, QueueType
        <5> QED
          BY <1>0, <4>1, <4>2, <5>1 DEF Queued
      <4>3. CASE je' # "SESSION"
        BY <4>1, <4>3 DEF Queued
      <4> QED
        BY <4>2, <4>3
    <3>2. CASE ~Dequeue
      <4>1. Queued("SESSION")' => Queued("SESSION")
        BY <1>0, <1>2, <3>2, SessionOrigin DEF Queued
      <4>2. je' = "SESSION" => je = "SESSION"
        BY <1>0, <1>2, <3>2, SessionOrigin DEF SessionDies, Complete, NoEvent
      <4>3. latch' => latch \/ je = "SESSION"
        BY <1>0, <1>2, <3>2, SessionOrigin DEF SessionLatch, Complete
      <4> QED
        BY <4>1, <4>2, <4>3
    <3> QED
      BY <3>1, <3>2
  <2>2. pc["session"] \in {"post", "latch"}
    BY <1>0, <2>1 DEF SessionHandshake
  <2>3. ~SessionLatch
    <3>1. SUFFICES ASSUME SessionLatch PROVE FALSE
      OBVIOUS
    <3>2. latch /\ ~latch' /\ UNCHANGED <<queue, behind, je>>
      BY <3>1 DEF SessionLatch, events, script
    <3>3. Accepted("SESSION") = 0 /\ je # "SESSION"
      BY <1>0, <3>2 DEF SessionUnique
    <3>4. Accepted("SESSION")' = 0
      BY <1>0, <3>2, <3>3, QuietCounts DEF TypeOK, QueueType
    <3> QED
      BY <3>2, <3>3, <3>4 DEF Queued
  <2>4. pc'["session"] \in {"post", "latch"}
    BY <1>0, <2>2, <2>3, SessionMoves
  <2> QED
    BY <2>4 DEF DataInv
<1> QED
  BY <1>1, <1>2

\* There is never a second session event.
LEMMA NextSessionUnique == IInv /\ [Next]_vars => SessionUnique'
<1> SUFFICES ASSUME IInv, [Next]_vars PROVE SessionUnique'
  OBVIOUS
<1>0. /\ TypeOK
      /\ SessionUnique
      /\ ScriptInv
      /\ Accepted("SESSION") \in Nat
  BY AcceptedSum DEF IInv, TypeOK, QueueType
<1>1. CASE Enqueues("session")
  BY <1>1, SessionEnqueues DEF SessionUnique
<1>2. CASE Dequeue
  <2>1. je = NoEvent
    BY <1>0, <1>2 DEF ScriptInv, Dequeue, Goto
  <2>2. /\ je' = Head(queue) /\ latch' = latch
        /\ Accepted("SESSION") = Accepted("SESSION")'
                + (IF "SESSION" = Head(queue) THEN 1 ELSE 0)
        /\ Accepted("SESSION")' \in Nat
    BY <1>0, <1>2, DequeueCounts DEF TypeOK, QueueType, Dequeue, session
  <2> QED
    BY <1>0, <2>1, <2>2 DEF SessionUnique, NoEvent
<1>3. CASE ~Enqueues("session") /\ ~Dequeue
  <2>1. Accepted("SESSION")' = Accepted("SESSION")
    BY <1>0, <1>3, SessionOrigin
  <2>2. CASE UNCHANGED <<je, latch>>
    BY <1>0, <2>1, <2>2 DEF SessionUnique
  <2>3. CASE SessionLatch /\ je' = je
    BY <1>0, <2>1, <2>3 DEF SessionUnique, SessionLatch
  <2>4. CASE SessionDies /\ UNCHANGED latch
    BY <1>0, <2>1, <2>4 DEF SessionUnique, SessionDies, NoEvent
  <2>5. CASE Complete
    <3>1. je' # "SESSION" /\ (latch' <=> latch \/ je = "SESSION")
      BY <2>5 DEF Complete, NoEvent
    <3> QED
      BY <1>0, <2>1, <3>1 DEF SessionUnique
  <2> QED
    BY <1>0, <1>3, <2>2, <2>3, <2>4, <2>5, SessionOrigin
<1> QED
  BY <1>1, <1>2, <1>3
-----------------------------------------------------------------------------
\* Every step keeps the types.
LEMMA NextTypeOK ==
    TypeOK /\ ElementsConserved /\ IndexInv /\ [Next]_vars => TypeOK'
<1> SUFFICES ASSUME TypeOK, ElementsConserved, IndexInv, [Next]_vars
             PROVE  TypeOK'
  OBVIOUS
<1>0. PcOK /\ PcOK'
  BY NextPcOK DEF TypeOK
<1>1. nports' \in 0..NPorts /\ stored' \in 0..NPorts
  <2>1. /\ nports \in 0..NPorts /\ stored \in 0..NPorts /\ NPorts \in Nat
        /\ stored = nports + (IF pc["script"] = "register" THEN 1 ELSE 0)
    BY ClientAssumption DEF TypeOK, IndexInv
  <2>2. RegisterCount => nports' \in 0..NPorts
    BY <2>1 DEF RegisterCount, Goto
  <2>3. RegisterStore => stored' \in 0..NPorts
    BY <2>1 DEF RegisterStore
  <2> QED
    BY <2>1, <2>2, <2>3, Frames
<1>2. activated' \in BOOLEAN
  <2>1. ProcessAudio \in BOOLEAN
    BY DEF ProcessAudio
  <2>2. Activate => activated' = ProcessAudio
    BY DEF Activate
  <2>3. activated \in BOOLEAN
    BY DEF TypeOK
  <2> QED
    BY <2>1, <2>2, <2>3, Frames
<1>3. jack' \in [active : BOOLEAN, process_cb : BOOLEAN, zombie : BOOLEAN]
  <2> DEFINE J == [active : BOOLEAN, process_cb : BOOLEAN, zombie : BOOLEAN]
  <2>1. jack \in J
    BY DEF TypeOK
  <2>2. ASSUME NEW b \in BOOLEAN PROVE [jack EXCEPT !.zombie = b] \in J
    BY <2>1
  <2>3. CASE Activate
    <3> DEFINE c == jack.process_cb \/ (ProcessAudio /\ ~jack.active)
    <3>1. c \in BOOLEAN /\ TRUE \in BOOLEAN
      OBVIOUS
    <3>2. jack' = [jack EXCEPT !.active = TRUE, !.process_cb = c]
      BY <2>3 DEF Activate
    <3> HIDE DEF c
    <3> QED
      BY <2>1, <3>1, <3>2
  <2>4. CASE ProcessWrite
    <3> DEFINE z == WriteToRingbuffer(rb[i], NFrames).rc # 0
    <3>1. z \in BOOLEAN
      OBVIOUS
    <3>2. jack' = [jack EXCEPT !.zombie = z]
      BY <2>4 DEF ProcessWrite
    <3> HIDE DEF z
    <3> QED
      BY <2>2, <3>1, <3>2
  <2>5. CASE QueueFull("process")
    <3>1. jack' = [jack EXCEPT !.zombie = TRUE] \/ jack' = jack
      BY <2>5 DEF QueueFull, ports
    <3> QED
      BY <2>1, <2>2, <3>1
  <2>6. UNCHANGED jack \/ Activate \/ ProcessWrite \/ QueueFull("process")
    BY Frames
  <2> QED
    BY <2>1, <2>3, <2>4, <2>5, <2>6
<1>4. rb' \in [Ports -> 0..Capacity]
  <2>1. CASE ProcessWrite
    <3>0. /\ i \in 1..(NPorts + 1) /\ nports \in 0..NPorts
          /\ NPorts \in Nat /\ i <= nports
      BY <2>1, ClientAssumption DEF TypeOK, ProcessWrite
    <3>1. i \in Ports
      BY <3>0 DEF Ports
    <3>2. WriteToRingbuffer(rb[i], NFrames).rb \in 0..Capacity
      BY <3>1, WriteType DEF TypeOK
    <3> QED
      BY <2>1, <3>1, <3>2 DEF TypeOK, ProcessWrite
  <2>2. CASE ReadPort
    <3>0. /\ reading \in 1..(NPorts + 1) /\ nports \in 0..NPorts
          /\ NPorts \in Nat /\ reading <= nports
      BY <2>2, ClientAssumption DEF TypeOK, ReadPort
    <3>1. reading \in Ports
      BY <3>0 DEF Ports
    <3>2. ReadFromRingbuffer(rb[reading]).rb \in 0..Capacity
      BY <3>1, ReadType DEF TypeOK
    <3> QED
      BY <2>2, <3>1, <3>2 DEF TypeOK, ReadPort
  <2> QED
    BY <2>1, <2>2, Frames DEF TypeOK
<1>5. queue' \in Seq(Events) /\ behind' \in [Callbacks -> Seq(Events)]
  <2>1. QueueType
    BY DEF TypeOK, QueueType
  <2>2. QueueType'
    BY <2>1, Frames, EnqueueCounts, DequeueCounts, QuietCounts
  <2> QED
    BY <2>2 DEF QueueType
<1>6. free' \in Nat
  BY Frames DEF TypeOK, ReleaseElement, PopElement
<1>7. Len(queue') <= RbSize /\ free' \in 0..RbSize
  <2>1. ElementsConserved'
    BY NextElementsConserved
  <2>2. Len(queue') \in Nat /\ Hanging' \in Nat /\ RbSize \in Nat
    <3>1. \A t \in Callbacks : Len(behind'[t]) \in Nat
      BY <1>5
    <3> QED
      BY <1>5, <3>1, ClientAssumption DEF Hanging, Callbacks
  <2>3. (\A t \in Callbacks : HeldBy(t)' \in 0..1) /\ HeldByScript' \in 0..1
    BY DEF HeldBy, HeldByScript
  <2>4. /\ HeldBy("process")' \in 0..1 /\ HeldBy("session")' \in 0..1
        /\ HeldBy("sample_rate")' \in 0..1 /\ HeldBy("shutdown")' \in 0..1
    BY <2>3 DEF Callbacks
  <2>5. free' + (Len(queue') + Hanging') + HeldBy("process")' + HeldBy("session")'
          + HeldBy("sample_rate")' + HeldBy("shutdown")' + HeldByScript' = RbSize
    BY <2>1 DEF ElementsConserved
  <2> QED
    BY <1>6, <2>2, <2>3, <2>4, <2>5, PartsOfSum
<1>8. sem' \in 0..SemMax
  BY Frames, ClientAssumption DEF TypeOK, SemWait, SemPost
<1>9. latch' \in BOOLEAN /\ data' \in BOOLEAN /\ done' \in BOOLEAN
  BY Frames DEF TypeOK, SessionLatch, Complete, SessionCall, SessionClear,
     HandleSession, SessionDies, HandleShutdown
<1>10. i' \in 1..(NPorts + 1)
  <2>1. nports \in 0..NPorts /\ i \in 1..(NPorts + 1) /\ NPorts \in Nat
    BY ClientAssumption DEF TypeOK
  <2>2. SemPost("process") => i' = i + 1 /\ i <= nports
    BY DEF SemPost, IndexInv, Goto
  <2> QED
    BY <2>1, <2>2, Frames
<1>11. je' \in Events \cup {NoEvent}
  BY Frames DEF TypeOK, Dequeue, SessionDies, Complete
<1>12. reading' \in 1..(NPorts + 1)
  BY Frames, ClientAssumption DEF TypeOK, ReadPort
<1>13. len' \in 0..FramebufSize
  <2>1. CASE ReadPort
    <3>0. /\ reading \in 1..(NPorts + 1) /\ nports \in 0..NPorts
          /\ NPorts \in Nat /\ reading <= nports
      BY <2>1, ClientAssumption DEF TypeOK, ReadPort
    <3>1. reading \in Ports
      BY <3>0 DEF Ports
    <3>2. ReadFromRingbuffer(rb[reading]).len \in 0..FramebufSize
      BY <3>1, ReadType DEF TypeOK
    <3> QED
      BY <2>1, <3>2 DEF ReadPort
  <2> QED
    BY <2>1, Frames, ClientAssumption DEF TypeOK, Complete, FramebufSize
<1> QED
  BY <1>0, <1>1, <1>2, <1>3, <1>4, <1>5, <1>7, <1>8, <1>9, <1>10, <1>11, <1>12,
     <1>13 DEF TypeOK
-----------------------------------------------------------------------------
\* The inductive invariant holds in every reachable state.
THEOREM Invariance == Spec => []IInv
<1>1. IInv /\ [Next]_vars => IInv'
  <2> SUFFICES ASSUME IInv, [Next]_vars PROVE IInv'
    OBVIOUS
  <2>1. TypeOK' /\ ElementsConserved' /\ IndexInv' /\ ScriptInv' /\ DataInv'
    BY NextTypeOK, NextElementsConserved, NextIndexInv, NextScriptInv,
       NextDataInv DEF IInv
  <2>2. NoLostWakeup' /\ HiddenByCalls'
    BY NextNoLostWakeup, NextHiddenByCalls DEF IInv
  <2>3. SessionHandshake' /\ SessionUnique'
    BY <2>1, NextSessionHandshake, NextSessionUnique
  <2> QED
    BY <2>1, <2>2, <2>3 DEF IInv
<1> QED
  BY InitIInv, <1>1, PTL DEF Spec

(***************************************************************************)
(* With any number of ports and any ring buffer size the variables keep    *)
(* their types; in particular the event queue never holds more than the    *)
(* rb_size elements that JacksRbClient_new gave it.                        *)
(***************************************************************************)
THEOREM ClientTypeOK == Spec => []TypeOK
<1>1. IInv => TypeOK
  BY DEF IInv
<1> QED
  BY Invariance, <1>1, PTL

(***************************************************************************)
(* JacksRbClient_get_event never sleeps on the semaphore with an event in  *)
(* the queue that no callback is about to announce.                        *)
(***************************************************************************)
THEOREM ClientNoLostWakeup == Spec => []NoLostWakeup
<1>1. IInv => NoLostWakeup
  BY DEF IInv
<1> QED
  BY Invariance, <1>1, PTL

(***************************************************************************)
(* The script finds the session event's data in place, and JACK frees it   *)
(* only when the script has completed the event; no completion is left     *)
(* over for a later session callback.                                      *)
(***************************************************************************)
THEOREM ClientSessionHandshake == Spec => []SessionHandshake
<1>1. IInv => SessionHandshake
  BY DEF IInv
<1> QED
  BY Invariance, <1>1, PTL

(***************************************************************************)
(* Although the script may register ports while JACK runs, the process     *)
(* callback only ever uses entries of ports[] that are filled.             *)
(***************************************************************************)
THEOREM ClientPortsStored == Spec => []PortsStored
<1>1. IInv => PortsStored
  <2> SUFFICES ASSUME IInv, i <= nports PROVE i <= stored
    BY DEF PortsStored
  <2>1. /\ stored = nports + (IF pc["script"] = "register" THEN 1 ELSE 0)
        /\ nports \in Nat /\ i \in Nat
    BY DEF IInv, IndexInv, TypeOK
  <2> QED
    BY <2>1
<1> QED
  BY Invariance, <1>1, PTL
-----------------------------------------------------------------------------
(* The audio *)

\* A multiple of the sample size, and the sum and the difference of two.
LEMMA WholeTimes == ASSUME NEW k \in Nat PROVE (SampleSize * k) % SampleSize = 0
BY ClientAssumption

LEMMA WholeSum ==
    ASSUME NEW a \in Nat, NEW b \in Nat, a % SampleSize = 0, b % SampleSize = 0
    PROVE  /\ (a + b) % SampleSize = 0
           /\ a >= b => (a - b) % SampleSize = 0
<1> DEFINE q == a \div SampleSize
           r == b \div SampleSize
<1>1. q \in Nat /\ r \in Nat /\ a = SampleSize * q /\ b = SampleSize * r
  BY ClientAssumption
<1> HIDE DEF q, r
<1>2. (a + b) % SampleSize = 0
  <2>1. a + b = SampleSize * (q + r)
    BY <1>1, ClientAssumption
  <2> QED
    BY <1>1, <2>1, WholeTimes
<1>3. ASSUME a >= b PROVE (a - b) % SampleSize = 0
  <2>1. a - b = SampleSize * (q - r)
    BY <1>1, ClientAssumption
  <2>2. q >= r
    <3>1. ASSUME q < r PROVE FALSE
      <4>1. r - q \in Nat /\ r - q >= 1
        BY <1>1, <3>1
      <4>2. SampleSize * (r - q) >= SampleSize
        BY <4>1, ClientAssumption
      <4>3. SampleSize * (r - q) = b - a
        BY <1>1, ClientAssumption
      <4> QED
        BY <1>3, <4>2, <4>3, ClientAssumption
    <3> QED
      BY <1>1, <3>1
  <2> QED
    BY <1>1, <2>1, <2>2, WholeTimes
<1> QED
  BY <1>2, <1>3

\* What a write and a read do to the bytes in the ring.
LEMMA WriteBytes ==
    ASSUME NEW fill \in 0..Capacity, WriteToRingbuffer(fill, NFrames).rc = 0
    PROVE  WriteToRingbuffer(fill, NFrames).rb = fill + SampleSize * NFrames
<1> DEFINE size == SampleSize * NFrames
<1>1. size \in Nat
  BY ClientAssumption
<1> HIDE DEF size
<1>2. ~(Stored(fill, size) < size)
  BY DEF WriteToRingbuffer, size
<1>3. Stored(fill, size) = size
  BY <1>1, <1>2, ClientAssumption DEF Stored
<1> QED
  BY <1>3 DEF WriteToRingbuffer, size

LEMMA ReadBytes ==
    ASSUME NEW fill \in 0..Capacity
    PROVE  ReadFromRingbuffer(fill).rb = IF fill < RbSize THEN 0 ELSE fill - RbSize
BY ClientAssumption DEF ReadFromRingbuffer

\* The port a write or a read is for exists.
LEMMA PortOfStep ==
    ASSUME TypeOK
    PROVE  /\ ProcessWrite => i \in Ports /\ rb[i] \in 0..Capacity
           /\ ReadPort => reading \in Ports /\ rb[reading] \in 0..Capacity
<1>1. /\ i \in 1..(NPorts + 1) /\ reading \in 1..(NPorts + 1)
      /\ nports \in 0..NPorts /\ NPorts \in Nat /\ rb \in [Ports -> 0..Capacity]
  BY ClientAssumption DEF TypeOK
<1>2. ProcessWrite => i \in Ports
  BY <1>1 DEF ProcessWrite, Ports
<1>3. ReadPort => reading \in Ports
  BY <1>1 DEF ReadPort, Ports
<1> QED
  BY <1>1, <1>2, <1>3

\* Only a failed process callback makes JACK drop the client, and an idle
\* callback starts only by being called.
LEMMA DroppedSteps ==
    ASSUME TypeOK, [Next]_vars
    PROVE  /\ jack'.zombie = jack.zombie \/ ProcessWrite \/ QueueFull("process")
           /\ pc["process"] = "idle" => pc'["process"] = "idle" \/ ProcessCall
<1>0. PcOK /\ jack \in [active : BOOLEAN, process_cb : BOOLEAN, zombie : BOOLEAN]
  BY DEF TypeOK
<1>1. jack'.zombie = jack.zombie \/ ProcessWrite \/ QueueFull("process")
  <2>1. Activate => jack'.zombie = jack.zombie
    BY <1>0 DEF Activate
  <2> QED
    BY <2>1, Frames
<1>2. pc["process"] = "idle" => pc'["process"] = "idle" \/ ProcessCall
  <2> USE DEF PcOK, Threads, Callbacks, Goto
  <2>1. ASSUME NEW t \in Callbacks, Notify(t), pc["process"] = "idle"
        PROVE  pc'["process"] = "idle"
    BY <1>0, <2>1, AfterPostCallback DEF Notify, PopElement, QueueFull, Link,
     LinkBehind, SemPost
  <2>2. CASE ProcessCall \/ ProcessReturn \/ ProcessWrite
    BY <1>0, <2>2 DEF ProcessReturn, ProcessWrite
  <2>3. CASE SessionCall \/ SessionLatch \/ SessionClear \/ SessionReply
             \/ ShutdownCall \/ SampleRateCall
    BY <1>0, <2>3 DEF SessionCall, SessionLatch, SessionClear, SessionReply,
       ShutdownCall, SampleRateCall
  <2>4. CASE Script
    BY <1>0, <2>4 DEF Script, ScriptLoop, RegisterPort, RegisterStore,
       RegisterCount, Activate, SemInterrupted, GetEvent, Dequeue, DequeueEmpty,
       ReleaseElement, SemWait, HandleProcess, ReadPort, ReadDone,
       HandleSession, SessionDies, HandleSampleRate, HandleShutdown, Complete
  <2>5. CASE UNCHANGED vars
    BY <2>5 DEF vars
  <2> QED
    BY <2>1, <2>2, <2>3, <2>4, <2>5 DEF Next, Process, Session, Shutdown,
       SampleRate
<1> QED
  BY <1>1, <1>2

\* A process callback that fails has returned.
LEMMA FailedReturns ==
    ASSUME TypeOK
    PROVE  /\ QueueFull("process") => jack'.zombie /\ pc'["process"] = "idle"
           /\ ProcessWrite /\ jack'.zombie => pc'["process"] = "idle"
           /\ ProcessWrite /\ ~jack'.zombie =>
                /\ WriteToRingbuffer(rb[i], NFrames).rc = 0
                /\ pc'["process"] = "enqueue"
           /\ ProcessWrite => pc["process"] = "loop"
<1>0. PcOK /\ jack \in [active : BOOLEAN, process_cb : BOOLEAN, zombie : BOOLEAN]
  BY DEF TypeOK
<1> USE DEF PcOK, Threads, Callbacks, Goto
<1>1. QueueFull("process") => jack'.zombie /\ pc'["process"] = "idle"
  BY <1>0 DEF QueueFull
<1>2. ASSUME ProcessWrite
      PROVE  /\ jack'.zombie <=> WriteToRingbuffer(rb[i], NFrames).rc # 0
             /\ pc["process"] = "loop"
             /\ IF WriteToRingbuffer(rb[i], NFrames).rc # 0
                THEN pc'["process"] = "idle" ELSE pc'["process"] = "enqueue"
  BY <1>0, <1>2 DEF ProcessWrite
<1> QED
  BY <1>1, <1>2

LEMMA NextDroppedInv == IInv /\ DroppedInv /\ [Next]_vars => DroppedInv'
<1> SUFFICES ASSUME IInv, DroppedInv, [Next]_vars PROVE DroppedInv'
  OBVIOUS
<1>0. /\ TypeOK /\ PcOK /\ nports \in Nat /\ NPorts \in Nat
      /\ rb \in [Ports -> 0..Capacity]
  BY ClientAssumption DEF IInv, TypeOK
<1>1. jack'.zombie => pc'["process"] = "idle"
  <2>1. CASE QueueFull("process") \/ ProcessWrite
    BY <1>0, <2>1, FailedReturns
  <2>2. CASE jack'.zombie = jack.zombie
    BY <1>0, <2>2, DroppedSteps DEF DroppedInv, ProcessCall
  <2> QED
    BY <1>0, <2>1, <2>2, DroppedSteps
<1>2. ASSUME NEW p \in Ports, p > nports' PROVE rb'[p] = 0
  <2>1. p > nports /\ p \in Nat
    BY <1>0, <1>2, Frames DEF RegisterCount, Ports
  <2>2. rb[p] = 0
    BY <2>1 DEF DroppedInv
  <2>3. CASE ProcessWrite
    <3>1. i # p /\ i \in Ports
      BY <1>0, <2>1, <2>3, PortOfStep DEF ProcessWrite
    <3> QED
      BY <1>0, <2>2, <2>3, <3>1 DEF ProcessWrite
  <2>4. CASE ReadPort
    <3>1. reading # p /\ reading \in Ports
      BY <1>0, <2>1, <2>4, PortOfStep DEF ReadPort
    <3> QED
      BY <1>0, <2>2, <2>4, <3>1 DEF ReadPort
  <2> QED
    BY <2>2, <2>3, <2>4, Frames
<1> QED
  BY <1>1, <1>2 DEF DroppedInv

\* A write of whole samples, or a read of whole samples, leaves whole samples.
LEMMA NextWholeSamples ==
    ASSUME RbSize % SampleSize = 0, IInv, DroppedInv, WholeSamples, [Next]_vars
    PROVE  WholeSamples'
<1>0. TypeOK /\ rb \in [Ports -> 0..Capacity] /\ Capacity \in Nat
  BY ClientAssumption DEF IInv, TypeOK
<1> SUFFICES ASSUME ~jack'.zombie, NEW p \in Ports PROVE rb'[p] % SampleSize = 0
  BY DEF WholeSamples
<1>1. ~jack.zombie
  <2>1. CASE ProcessWrite
    BY <1>0, <2>1, FailedReturns DEF DroppedInv
  <2>2. CASE QueueFull("process")
    BY <1>0, <2>2, FailedReturns
  <2> QED
    BY <1>0, <2>1, <2>2, DroppedSteps
<1>2. rb[p] % SampleSize = 0 /\ rb[p] \in Nat /\ rb[p] \in 0..Capacity
  BY <1>0, <1>1 DEF WholeSamples
<1>3. CASE ProcessWrite
  <2>1. /\ WriteToRingbuffer(rb[i], NFrames).rc = 0
        /\ rb' = [rb EXCEPT ![i] = WriteToRingbuffer(rb[i], NFrames).rb]
    BY <1>0, <1>3, FailedReturns DEF ProcessWrite
  <2>2. CASE p = i
    <3>1. rb'[p] = rb[p] + SampleSize * NFrames
      BY <1>0, <1>2, <2>1, <2>2, WriteBytes
    <3>2. SampleSize * NFrames \in Nat /\ (SampleSize * NFrames) % SampleSize = 0
      BY WholeTimes, ClientAssumption
    <3> QED
      BY <1>2, <3>1, <3>2, WholeSum
  <2>3. CASE p # i
    BY <1>0, <1>2, <2>1, <2>3
  <2> QED
    BY <2>2, <2>3
<1>4. CASE ReadPort
  <2>1. rb' = [rb EXCEPT ![reading] = ReadFromRingbuffer(rb[reading]).rb]
    BY <1>4 DEF ReadPort
  <2>2. CASE p = reading
    <3>1. rb'[p] = IF rb[p] < RbSize THEN 0 ELSE rb[p] - RbSize
      BY <1>0, <1>2, <2>1, <2>2, ReadBytes
    <3>2. 0 % SampleSize = 0
      BY ClientAssumption
    <3> QED
      BY <1>2, <3>1, <3>2, WholeSum, ClientAssumption
  <2>3. CASE p # reading
    BY <1>0, <1>2, <2>1, <2>3
  <2> QED
    BY <2>2, <2>3
<1> QED
  BY <1>2, <1>3, <1>4, Frames

\* The products that occur.
LEMMA Reads ==
    ASSUME NEW m \in Nat
    PROVE  /\ RbSize * m \in Nat
           /\ RbSize * (m + 1) = RbSize * m + RbSize
           /\ RbSize * 0 = 0
BY ClientAssumption

\* The steps by which the script, or the callback, comes to owe more or less.
LEMMA ScriptOwesSteps ==
    ASSUME TypeOK, [Next]_vars, NEW p \in Ports
    PROVE  ScriptOwes(p)' = ScriptOwes(p) \/ Dequeue \/ ReadPort \/ ReadDone
<1>0. PcOK /\ p >= 1
  BY DEF TypeOK, Ports
<1> USE DEF PcOK, Threads, Callbacks, Goto
<1>1. ASSUME pc'["script"] = pc["script"], UNCHANGED <<je, reading>>
      PROVE  ScriptOwes(p)' = ScriptOwes(p)
  BY <1>1 DEF ScriptOwes
<1>2. ASSUME NEW t \in Callbacks, Notify(t)
      PROVE  pc'["script"] = pc["script"] /\ UNCHANGED <<je, reading>>
  BY <1>0, <1>2 DEF Notify, PopElement, QueueFull, Link, LinkBehind, SemPost, script
<1>3. CASE \/ ProcessCall \/ ProcessReturn \/ ProcessWrite \/ SessionCall
           \/ SessionLatch \/ SessionClear \/ SessionReply \/ ShutdownCall
           \/ SampleRateCall
  <2>1. pc'["script"] = pc["script"] /\ UNCHANGED <<je, reading>>
    BY <1>0, <1>3 DEF ProcessCall, ProcessReturn, ProcessWrite, SessionCall,
       SessionLatch, SessionClear, SessionReply, ShutdownCall, SampleRateCall,
       script
  <2> QED
    BY <1>1, <2>1
<1>4. CASE RegisterPort \/ Activate \/ SemInterrupted \/ GetEvent
           \/ DequeueEmpty \/ SemWait
  <2>1. /\ pc["script"] \in {"run", "register", "dequeue", "wait"}
        /\ pc'["script"] \in {"run", "register", "dequeue", "wait"}
    BY <1>0, <1>4 DEF RegisterPort, RegisterStore, RegisterCount, Activate,
       SemInterrupted, GetEvent, DequeueEmpty, SemWait
  <2> QED
    BY <2>1 DEF ScriptOwes
<1>5. CASE ReleaseElement
  <2>1. pc["script"] = "release" /\ pc'["script"] = "handle" /\ je' = je
    BY <1>0, <1>5 DEF ReleaseElement, script
  <2> QED
    BY <2>1 DEF ScriptOwes
<1>6. CASE HandleProcess
  <2>1. /\ pc["script"] = "handle" /\ pc'["script"] = "read"
        /\ je = "PROCESS" /\ reading' = 1
    BY <1>0, <1>6 DEF HandleProcess
  <2> QED
    BY <1>0, <2>1 DEF ScriptOwes
<1>7. CASE HandleSession \/ HandleSampleRate \/ HandleShutdown
  <2>1. pc["script"] = "handle" /\ pc'["script"] = "complete" /\ je # "PROCESS"
    BY <1>0, <1>7 DEF HandleSession, HandleSampleRate, HandleShutdown
  <2> QED
    BY <2>1 DEF ScriptOwes
<1>8. CASE SessionDies \/ Complete
  <2>1. /\ pc["script"] = "complete" \/ (pc["script"] = "handle" /\ je # "PROCESS")
        /\ pc'["script"] \in {"run", "ended"}
    BY <1>0, <1>8 DEF SessionDies, Complete
  <2> QED
    BY <2>1 DEF ScriptOwes
<1>9. CASE UNCHANGED vars
  BY <1>1, <1>9 DEF vars, script
<1> QED
  BY <1>1, <1>2, <1>3, <1>4, <1>5, <1>6, <1>7, <1>8, <1>9 DEF Next, Process,
     Session, Shutdown, SampleRate, Script, ScriptLoop

LEMMA CallbackOwesSteps ==
    ASSUME TypeOK, [Next]_vars, NEW p \in Ports
    PROVE  \/ CallbackOwes(p)' = CallbackOwes(p)
           \/ ProcessWrite \/ Enqueues("process") \/ QueueFull("process")
<1>0. PcOK
  BY DEF TypeOK
<1> USE DEF PcOK, Threads, Callbacks, Goto
<1>1. ASSUME pc'["process"] = pc["process"], UNCHANGED i
      PROVE  CallbackOwes(p)' = CallbackOwes(p)
  BY <1>1 DEF CallbackOwes
<1>2. ASSUME NEW t \in Callbacks \ {"process"}, Notify(t)
      PROVE  pc'["process"] = pc["process"] /\ UNCHANGED i
  BY <1>0, <1>2 DEF Notify, PopElement, QueueFull, Link, LinkBehind, SemPost
<1>3. CASE \/ SessionCall \/ SessionLatch \/ SessionClear \/ SessionReply
           \/ ShutdownCall \/ SampleRateCall
  <2>1. pc'["process"] = pc["process"] /\ UNCHANGED i
    BY <1>0, <1>3 DEF SessionCall, SessionLatch, SessionClear, SessionReply,
       ShutdownCall, SampleRateCall
  <2> QED
    BY <1>1, <2>1
<1>4. CASE Script
  <2>1. pc'["process"] = pc["process"] /\ UNCHANGED i
    BY <1>0, <1>4 DEF Script, ScriptLoop, RegisterPort, RegisterStore,
       RegisterCount, Activate, SemInterrupted, GetEvent, Dequeue, DequeueEmpty,
       ReleaseElement, SemWait, HandleProcess, ReadPort, ReadDone,
       HandleSession, SessionDies, HandleSampleRate, HandleShutdown, Complete
  <2> QED
    BY <1>1, <2>1
<1>5. CASE ProcessCall \/ ProcessReturn \/ SemPost("process")
  <2>1. /\ pc["process"] \in {"idle", "loop", "post"}
        /\ pc'["process"] \in {"idle", "loop", "post"}
    BY <1>0, <1>5, AfterPostCallback DEF ProcessCall, ProcessReturn, SemPost
  <2> QED
    BY <2>1 DEF CallbackOwes
<1>6. CASE PopElement("process")
  <2>1. pc["process"] = "enqueue" /\ pc'["process"] = "link" /\ UNCHANGED i
    BY <1>0, <1>6 DEF PopElement
  <2> QED
    BY <2>1 DEF CallbackOwes
<1>7. CASE UNCHANGED vars
  BY <1>1, <1>7 DEF vars
<1> QED
  BY <1>1, <1>2, <1>3, <1>4, <1>5, <1>6, <1>7 DEF Next, Process,
     Session, Shutdown, SampleRate, Notify, Enqueues

\* A client that JACK has not dropped now, it had not dropped before.
LEMMA NotDroppedBefore ==
    ASSUME TypeOK, DroppedInv, [Next]_vars, ~jack'.zombie
    PROVE  ~jack.zombie /\ ~QueueFull("process")
<1>1. CASE ProcessWrite
  BY <1>1, FailedReturns DEF DroppedInv
<1>2. ~QueueFull("process")
  BY FailedReturns
<1> QED
  BY <1>1, <1>2, DroppedSteps, FailedReturns

\* Bytes r that m reads empty, and m1 reads, one more or one less.
LEMMA Enough ==
    ASSUME NEW m \in Nat, NEW m1 \in Nat, NEW r \in Nat, r <= RbSize * m
    PROVE  /\ m1 = m => r <= RbSize * m1
           /\ m1 = m + 1 => \A w \in Nat : w <= RbSize => r + w <= RbSize * m1
           /\ m = m1 + 1 => r - RbSize <= RbSize * m1
           /\ 0 <= RbSize * m1
<1>1. RbSize \in Nat /\ RbSize * m \in Nat /\ RbSize * m1 \in Nat
  BY Reads, ClientAssumption
<1>2. m1 = m + 1 => RbSize * m1 = RbSize * m + RbSize
  BY Reads
<1>3. m = m1 + 1 => RbSize * m = RbSize * m1 + RbSize
  BY Reads
<1> QED
  BY <1>1, <1>2, <1>3

LEMMA OwesBits ==
    ASSUME NEW p
    PROVE  /\ ScriptOwes(p) \in 0..1 /\ CallbackOwes(p) \in 0..1
           /\ ScriptOwes(p)' \in 0..1 /\ CallbackOwes(p)' \in 0..1
BY DEF ScriptOwes, CallbackOwes

\* A step that moves no audio: what is owed stays, or grows.
LEMMA OwedQuiet ==
    ASSUME TypeOK, UNCHANGED rb, NEW n \in Nat, NEW n1 \in Nat,
           NEW p \in Ports,
           rb[p] <= RbSize * (n + ScriptOwes(p) + CallbackOwes(p)),
           LET m == n + ScriptOwes(p) + CallbackOwes(p)
               m1 == n1 + ScriptOwes(p)' + CallbackOwes(p)'
           IN  m1 = m \/ m1 = m + 1 \/ (m = m1 + 1 /\ rb[p] = 0)
    PROVE  rb'[p] <= RbSize * (n1 + ScriptOwes(p)' + CallbackOwes(p)')
<1> DEFINE m == n + ScriptOwes(p) + CallbackOwes(p)
           m1 == n1 + ScriptOwes(p)' + CallbackOwes(p)'
<1>1. m \in Nat /\ m1 \in Nat
  BY OwesBits
<1>2. rb[p] \in Nat /\ rb'[p] = rb[p]
  BY ClientAssumption DEF TypeOK
<1>3. rb[p] <= RbSize * m /\ (m1 = m \/ m1 = m + 1 \/ (m = m1 + 1 /\ rb[p] = 0))
  OBVIOUS
<1> HIDE DEF m, m1
<1>4. rb[p] <= RbSize * m1
  <2>1. CASE m1 = m
    BY <1>1, <1>2, <1>3, <2>1
  <2>2. CASE m1 = m + 1
    <3>1. rb[p] + 0 <= RbSize * m1
      BY <1>1, <1>2, <1>3, <2>2, Enough, ClientAssumption
    <3> QED
      BY <1>2, <3>1
  <2>3. CASE m = m1 + 1 /\ rb[p] = 0
    BY <1>1, <1>2, <1>3, <2>3, Enough
  <2> QED
    BY <1>3, <2>1, <2>2, <2>3
<1> QED
  BY <1>2, <1>4 DEF m1

\* A write adds at most one read's bytes, and owes a read.
LEMMA OwedWrite ==
    ASSUME SampleSize * NFrames <= RbSize, TypeOK, ProcessWrite, ~jack'.zombie,
           NEW n \in Nat, NEW p \in Ports,
           rb[p] <= RbSize * (n + ScriptOwes(p) + CallbackOwes(p))
    PROVE  rb'[p] <= RbSize * (n + ScriptOwes(p)' + CallbackOwes(p)')
<1>0. PcOK /\ rb \in [Ports -> 0..Capacity] /\ Capacity \in Nat
  BY ClientAssumption DEF TypeOK
<1>1. /\ pc["process"] = "loop" /\ pc'["process"] = "enqueue" /\ i' = i
      /\ pc'["script"] = pc["script"] /\ UNCHANGED <<je, reading>>
      /\ WriteToRingbuffer(rb[i], NFrames).rc = 0
      /\ rb' = [rb EXCEPT ![i] = WriteToRingbuffer(rb[i], NFrames).rb]
  BY <1>0, FailedReturns DEF ProcessWrite, Goto, PcOK, Threads, Callbacks, script
<1>2. /\ ScriptOwes(p)' = ScriptOwes(p)
      /\ CallbackOwes(p) = 0 /\ CallbackOwes(p)' = IF p = i THEN 1 ELSE 0
  BY <1>1 DEF ScriptOwes, CallbackOwes
<1> DEFINE m == n + ScriptOwes(p)
<1>3. m \in Nat /\ rb[p] \in Nat /\ rb[p] <= RbSize * m
  <2>1. m \in Nat /\ m + 0 = m
    BY OwesBits
  <2>2. rb[p] \in Nat
    BY <1>0
  <2> QED
    BY <1>2, <2>1, <2>2
<1> HIDE DEF m
<1>4. CASE p = i
  <2>1. rb'[p] = rb[p] + SampleSize * NFrames
    BY <1>0, <1>1, <1>4, WriteBytes
  <2>2. m + 1 \in Nat /\ SampleSize * NFrames \in Nat
    BY <1>3, ClientAssumption
  <2>3. rb[p] + SampleSize * NFrames <= RbSize * (m + 1)
    BY <1>3, <2>2, Enough
  <2> QED
    BY <1>2, <1>4, <2>1, <2>3 DEF m
<1>5. CASE p # i
  <2>1. rb'[p] = rb[p]
    BY <1>0, <1>1, <1>5
  <2>2. n + ScriptOwes(p)' + CallbackOwes(p)' = m
    BY <1>2, <1>5, OwesBits DEF m
  <2> QED
    BY <1>3, <2>1, <2>2
<1> QED
  BY <1>4, <1>5

\* A read takes what a read can, and is owed no more.
LEMMA OwedRead ==
    ASSUME TypeOK, ReadPort, NEW n \in Nat, NEW p \in Ports,
           rb[p] <= RbSize * (n + ScriptOwes(p) + CallbackOwes(p))
    PROVE  rb'[p] <= RbSize * (n + ScriptOwes(p)' + CallbackOwes(p)')
<1>0. /\ rb \in [Ports -> 0..Capacity] /\ Capacity \in Nat
      /\ reading \in Nat /\ p \in Nat /\ RbSize \in Nat
  BY ClientAssumption DEF TypeOK, Ports
<1>1. /\ pc["script"] = "read" /\ UNCHANGED <<pc, i>> /\ reading' = reading + 1
      /\ rb' = [rb EXCEPT ![reading] = ReadFromRingbuffer(rb[reading]).rb]
  BY DEF ReadPort
<1>2. /\ CallbackOwes(p)' = CallbackOwes(p)
      /\ p # reading => ScriptOwes(p)' = ScriptOwes(p)
      /\ p = reading => ScriptOwes(p) = 1 /\ ScriptOwes(p)' = 0
  BY <1>0, <1>1 DEF ScriptOwes, CallbackOwes
<1>3. CASE p # reading
  <2>1. rb'[p] = rb[p]
    BY <1>0, <1>1, <1>3
  <2> QED
    BY <1>2, <1>3, <2>1
<1>4. CASE p = reading
  <2> DEFINE m1 == n + CallbackOwes(p)
  <2>1. /\ m1 \in Nat
        /\ n + ScriptOwes(p) + CallbackOwes(p) = m1 + 1
        /\ n + ScriptOwes(p)' + CallbackOwes(p)' = m1
    BY <1>2, <1>4, OwesBits
  <2> HIDE DEF m1
  <2>2. rb'[p] = IF rb[p] < RbSize THEN 0 ELSE rb[p] - RbSize
    BY <1>0, <1>1, <1>4, ReadBytes
  <2>3. rb[p] \in Nat /\ m1 + 1 \in Nat /\ rb[p] <= RbSize * (m1 + 1)
    BY <1>0, <2>1
  <2>4. rb[p] - RbSize <= RbSize * m1 /\ 0 <= RbSize * m1
    BY <2>1, <2>3, Enough
  <2> QED
    BY <2>1, <2>2, <2>4
<1> QED
  BY <1>3, <1>4

\* Every step leaves reads enough owed.
LEMMA NextOwedInv ==
    ASSUME SampleSize * NFrames <= RbSize, IInv, AudioInv, [Next]_vars
    PROVE  OwedInv'
<1> DEFINE n == Accepted("PROCESS")
           n1 == Accepted("PROCESS")'
<1>0. /\ TypeOK /\ PcOK /\ QueueType
      /\ rb \in [Ports -> 0..Capacity]
  BY DEF IInv, TypeOK, QueueType
<1> SUFFICES ASSUME ~jack'.zombie, NEW p \in Ports
             PROVE  rb'[p] <= RbSize * (n1 + ScriptOwes(p)' + CallbackOwes(p)')
  BY DEF OwedInv
<1>1. ~jack.zombie /\ ~QueueFull("process") /\ DroppedInv
  BY <1>0, NotDroppedBefore DEF AudioInv
<1>2. rb[p] <= RbSize * (n + ScriptOwes(p) + CallbackOwes(p))
  BY <1>1 DEF AudioInv, OwedInv
<1>3. n \in Nat
  BY <1>0, AcceptedSum
<1>q. UNCHANGED <<queue, behind>> => n1 = n
  BY <1>0, QuietCounts
<1>e. \A t \in Callbacks : Enqueues(t) =>
          n1 = n + (IF "PROCESS" = EventOf(t) THEN 1 ELSE 0)
  BY <1>0, EnqueueCounts
<1>d. Dequeue => /\ n = n1 + (IF "PROCESS" = Head(queue) THEN 1 ELSE 0)
                 /\ n1 \in Nat
  BY <1>0, DequeueCounts
<1> HIDE DEF n, n1
<1>4. CASE ProcessWrite
  <2>1. n1 = n
    BY <1>4, <1>q DEF ProcessWrite, events
  <2> QED
    BY <1>0, <1>2, <1>3, <1>4, <2>1, OwedWrite
<1>5. CASE ReadPort
  <2>1. n1 = n
    BY <1>5, <1>q DEF ReadPort, events
  <2> QED
    BY <1>0, <1>2, <1>3, <1>5, <2>1, OwedRead
<1>6. CASE Dequeue
  <2>1. PICK d \in 0..1 : d = IF "PROCESS" = Head(queue) THEN 1 ELSE 0
    OBVIOUS
  <2>2. n = n1 + d /\ n1 \in Nat
    BY <1>6, <1>d, <2>1
  <2>3. /\ pc["script"] = "dequeue" /\ pc'["script"] = "release" /\ je' = Head(queue)
        /\ pc'["process"] = pc["process"] /\ UNCHANGED <<i, rb>>
    BY <1>0, <1>6 DEF Dequeue, Goto, PcOK, Threads, Callbacks
  <2>4. ScriptOwes(p) = 0 /\ ScriptOwes(p)' = d /\ CallbackOwes(p)' = CallbackOwes(p)
    BY <2>1, <2>3 DEF ScriptOwes, CallbackOwes
  <2>5. n1 + ScriptOwes(p)' + CallbackOwes(p)' = n + ScriptOwes(p) + CallbackOwes(p)
    BY <2>2, <2>4, OwesBits
  <2> QED
    BY <1>2, <2>3, <2>5
<1>7. CASE ReadDone
  <2>1. n1 = n
    BY <1>7, <1>q DEF ReadDone, events
  <2>2. /\ reading > nports /\ pc["script"] = "read" /\ pc'["script"] = "complete"
        /\ pc'["process"] = pc["process"] /\ UNCHANGED <<i, rb>>
    BY <1>0, <1>7 DEF ReadDone, Goto, PcOK, Threads, Callbacks
  <2>3. p \in Nat /\ reading \in Nat /\ nports \in Nat
    BY <1>0 DEF TypeOK, Ports
  <2>4. CallbackOwes(p)' = CallbackOwes(p) /\ ScriptOwes(p)' = 0
    BY <2>2 DEF ScriptOwes, CallbackOwes
  <2>5. CASE p > nports
    <3>1. rb[p] = 0
      BY <1>1, <2>5 DEF DroppedInv
    <3>2. LET m == n + ScriptOwes(p) + CallbackOwes(p)
              m1 == n + ScriptOwes(p)' + CallbackOwes(p)'
          IN  m1 = m \/ m1 = m + 1 \/ (m = m1 + 1 /\ rb[p] = 0)
      BY <1>3, <2>4, <3>1, OwesBits
    <3> QED
      BY <1>0, <1>2, <1>3, <2>1, <2>2, <3>2, OwedQuiet
  <2>6. CASE ~(p > nports)
    <3>1. ScriptOwes(p) = 0
      BY <2>2, <2>3, <2>6 DEF ScriptOwes
    <3>2. rb'[p] = rb[p]
      BY <2>2
    <3> QED
      BY <1>2, <2>1, <2>4, <3>1, <3>2
  <2> QED
    BY <2>5, <2>6
<1>8. CASE Enqueues("process")
  <2>1. n1 = n + 1 /\ n1 \in Nat
    BY <1>3, <1>8, <1>e, EventOfCallback DEF Callbacks
  <2>2. /\ pc["process"] = "link" /\ pc'["process"] = "post"
        /\ UNCHANGED <<i, rb, je, reading>> /\ pc'["script"] = pc["script"]
    BY <1>0, <1>8 DEF Enqueues, Link, LinkBehind, Goto, PcOK, Threads, Callbacks,
       script
  <2>3. ScriptOwes(p)' = ScriptOwes(p) /\ CallbackOwes(p)' = 0
    BY <2>2 DEF ScriptOwes, CallbackOwes
  <2>4. LET m == n + ScriptOwes(p) + CallbackOwes(p)
            m1 == n1 + ScriptOwes(p)' + CallbackOwes(p)'
        IN  m1 = m \/ m1 = m + 1 \/ (m = m1 + 1 /\ rb[p] = 0)
    BY <1>3, <2>1, <2>3, OwesBits
  <2> QED
    BY <1>0, <1>2, <1>3, <2>1, <2>2, <2>4, OwedQuiet
<1>9. CASE ~(ProcessWrite \/ ReadPort \/ Dequeue \/ ReadDone \/ Enqueues("process"))
  <2>1. UNCHANGED rb
    BY <1>9, Frames
  <2>2. ScriptOwes(p)' = ScriptOwes(p) /\ CallbackOwes(p)' = CallbackOwes(p)
    BY <1>0, <1>1, <1>9, ScriptOwesSteps, CallbackOwesSteps
  <2>3. n1 = n
    <3>1. ASSUME NEW t \in Callbacks \ {"process"}, Enqueues(t) PROVE n1 = n
      BY <1>3, <1>e, <3>1, EventOfCallback DEF Callbacks
    <3> QED
      BY <1>9, <1>q, <3>1, Frames
  <2> QED
    BY <1>2, <2>1, <2>2, <2>3
<1> QED
  BY <1>4, <1>5, <1>6, <1>7, <1>8, <1>9

LEMMA InitAudioInv == Init => AudioInv /\ WholeSamples
<1> SUFFICES ASSUME Init PROVE AudioInv /\ WholeSamples
  OBVIOUS
<1>1. /\ jack.zombie = FALSE /\ pc["process"] = "idle" /\ pc["script"] = "run"
      /\ \A p \in Ports : rb[p] = 0
  BY DEF Init, Threads, Callbacks
<1>2. DroppedInv
  BY <1>1 DEF DroppedInv
<1>3. OwedInv
  <2>1. Accepted("PROCESS") = 0
    BY InitAccepted
  <2>2. \A p \in Ports : Accepted("PROCESS") + ScriptOwes(p) + CallbackOwes(p) = 0
    BY <1>1, <2>1 DEF ScriptOwes, CallbackOwes
  <2>3. RbSize * 0 = 0
    BY ClientAssumption
  <2> QED
    BY <1>1, <2>2, <2>3 DEF OwedInv
<1>4. WholeSamples
  BY <1>1, ClientAssumption DEF WholeSamples
<1> QED
  BY <1>2, <1>3, <1>4 DEF AudioInv

(***************************************************************************)
(* Rings hold whole samples as long as JACK has not dropped the client, if *)
(* a read, which takes at most rb_size bytes, takes whole samples.         *)
(***************************************************************************)
THEOREM ClientWholeSamples ==
    ASSUME RbSize % SampleSize = 0
    PROVE  Spec => []WholeSamples
<1>1. Init => DroppedInv /\ WholeSamples
  BY InitAudioInv DEF AudioInv
<1>2. IInv /\ DroppedInv /\ WholeSamples /\ [Next]_vars => (DroppedInv /\ WholeSamples)'
  BY NextDroppedInv, NextWholeSamples
<1> QED
  BY <1>1, <1>2, Invariance, PTL DEF Spec

(***************************************************************************)
(* When the script waits and no process callback runs, no more audio is in *)
(* any ring than the reads for process events behind another callback's    *)
(* unlinked event will take, for any number of ports and however far the   *)
(* script lagged behind, if the bytes of one process cycle fit in a read   *)
(* (framebuf has rb_size bytes, not samples).                              *)
(***************************************************************************)
THEOREM ClientNoStrandedAudio ==
    ASSUME SampleSize * NFrames <= RbSize
    PROVE  Spec => []NoStrandedAudio
<1>1. Init => AudioInv
  BY InitAudioInv
<1>2. IInv /\ AudioInv /\ [Next]_vars => AudioInv'
  <2> SUFFICES ASSUME IInv, AudioInv, [Next]_vars PROVE AudioInv'
    OBVIOUS
  <2>1. DroppedInv'
    BY NextDroppedInv DEF AudioInv
  <2>2. OwedInv'
    BY NextOwedInv
  <2> QED
    BY <2>1, <2>2 DEF AudioInv
<1>3. IInv /\ AudioInv => NoStrandedAudio
  <2> SUFFICES ASSUME IInv, AudioInv, pc["script"] = "wait", queue = <<>>,
                      pc["process"] = "idle", ~jack.zombie, NEW p \in Ports
               PROVE  rb[p] <= RbSize * Hidden("PROCESS")
    BY DEF NoStrandedAudio, IInv
  <2>1. rb[p] <= RbSize * (Accepted("PROCESS") + ScriptOwes(p) + CallbackOwes(p))
    BY DEF AudioInv, OwedInv
  <2>2. Count(queue, "PROCESS") = 0 /\ Hidden("PROCESS") \in Nat
    BY CountEmpty, AcceptedSum DEF IInv, TypeOK, QueueType
  <2>3. ScriptOwes(p) = 0 /\ CallbackOwes(p) = 0
    BY DEF ScriptOwes, CallbackOwes
  <2>4. Accepted("PROCESS") + ScriptOwes(p) + CallbackOwes(p) = Hidden("PROCESS")
    BY <2>2, <2>3 DEF Accepted
  <2> QED
    BY <2>1, <2>4
<1> QED
  BY <1>1, <1>2, <1>3, Invariance, PTL DEF Spec
=============================================================================
