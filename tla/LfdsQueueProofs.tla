-------------------------- MODULE LfdsQueueProofs ---------------------------
(***************************************************************************)
(* Proofs about LfdsQueue, for any number of threads and elements: each    *)
(* element is in one place, no NULL pointer is followed, and with a single *)
(* consumer the queue implements AbstractQueue.                            *)
(***************************************************************************)
EXTENDS LfdsQueue, FiniteSetTheorems, FunctionTheorems, SequenceTheorems,
        WellFoundedInduction, TLAPS

-----------------------------------------------------------------------------
(* The inductive invariant *)

Pairs == [ptr : Elements \cup {NULL}, ctr : Int]
Stamped == [ptr : Elements, ctr : Int]

\* Steps at which a producer has a copy of qs->enqueue and its own element
Reading == {"enq_counter", "next_pointer", "next_counter", "check",
            "check_counter", "link", "help"}

ProducerSteps == Unlinked \cup {"idle", "pop", "init_pointer", "swing", "return_1",
                                "return_0"}
ConsumerSteps == {"idle", "deq_pointer", "deq_counter", "enq_pointer", "enq_counter",
                  "next_pointer", "next_counter", "check", "check_counter", "help",
                  "user_data", "advance", "push", "return_1", "return_0"}

\* Steps at which a copy of qs->dequeue is complete
HasDequeue == ConsumerSteps \ {"idle", "deq_pointer", "deq_counter", "push",
                               "return_1", "return_0"}
\* Steps at which a copy of qs->enqueue is complete
HasEnqueue == {"next_pointer", "next_counter", "check", "check_counter", "link",
               "help", "swing"}
\* Steps at which the pointer of a next pair has been read
HasNext == {"next_counter", "check", "check_counter", "help"}

SharedTypes == /\ enqueue \in Stamped
               /\ dequeue \in Stamped
               /\ next \in [Elements -> Pairs]
               /\ user_data \in [Elements -> AllItems \cup {NoItem}]
               /\ freelist \in Seq(Elements)
               /\ aba_counter \in Int

LocalTypes == /\ load \in Loads
              /\ sent \in [Producers -> Nat]
              /\ elem \in [Threads -> Elements \cup {NULL}]
              /\ enq \in [Threads -> Pairs]
              /\ deq \in [Threads -> Pairs]
              /\ nxt \in [Threads -> Pairs]
              /\ out \in [Consumers -> AllItems \cup {NoItem}]
              /\ pc \in [Threads -> ProducerSteps \cup ConsumerSteps]
              /\ \A p \in Producers : pc[p] \in ProducerSteps
              /\ \A c \in Consumers : pc[c] \in ConsumerSteps

TypesInv == SharedTypes /\ LocalTypes

\* The places an element can be: the queue, the freelist, a thread
Queue == <<"queue", 0>>
Free == <<"free", 0>>
At(t) == <<"thread", t>>
Places == {Queue, Free} \cup {At(t) : t \in Threads}

\* L has each element once.
OnePlace(L) ==
    \A a \in Places, b \in Places : \A j \in 1..Len(L[a]), k \in 1..Len(L[b]) :
        L[a][j] = L[b][k] => a = b /\ j = k
Everywhere(L) == \A e \in Elements : \E a \in Places : \E k \in 1..Len(L[a]) : L[a][k] = e

\* A thread has an element, alone or with what was linked to it.
Alone(t) == pc[t] = IF t \in Producers THEN "init_pointer" ELSE "push"
Holding(t) == Alone(t) \/ (t \in Producers /\ pc[t] \in Unlinked)

HeldInv(L, t) == /\ Holding(t) => Len(L[At(t)]) >= 1 /\ L[At(t)][1] = elem[t]
                 /\ Alone(t) => Len(L[At(t)]) = 1
                 /\ ~Holding(t) => L[At(t)] = <<>>

PlaceInv(L) == /\ OnePlace(L)
               /\ Everywhere(L)
               /\ L[Free] = freelist
               /\ \A t \in Threads : HeldInv(L, t)

\* The elements of S are linked to each other, and the last to none.
Linked(S, links) ==
    \A k \in 1..Len(S) : links[S[k]].ptr = IF k < Len(S) THEN S[k + 1] ELSE NULL

ListInv(L) == /\ Linked(L[Queue], next)
              /\ Len(L[Queue]) >= 1
              /\ L[Queue][1] = dequeue.ptr
              /\ \E k \in 1..Len(L[Queue]) : L[Queue][k] = enqueue.ptr
              /\ \A p \in Producers : pc[p] \in Unlinked => Linked(L[At(p)], next)

\* An element that is free and not linked was never used, or it would be linked
\* to the one that followed it.
Spare(e) == next[e].ptr = NULL =>
               \A p \in Producers : pc[p] \in Reading => enq[p].ptr # e
SpareInv(L) == /\ \A k \in 1..Len(L[Free]) : Spare(L[Free][k])
               /\ \A t \in Threads : Alone(t) => Spare(elem[t])

\* Producers initialised their elements in the order of rank.  What a producer
\* found at the end of the queue, and what others linked to an element, is not
\* of this producer's own making.
RankInv(L, rank) ==
    /\ \A q \in Producers : pc[q] \in Unlinked =>
          \A k \in 1..Len(L[At(q)]) : rank[L[At(q)][k]] <= rank[elem[q]]
    /\ \A p \in Producers, q \in Producers :
          pc[p] \in Reading /\ pc[q] \in Unlinked =>
          \A k \in 1..Len(L[At(q)]) :
             enq[p].ptr = L[At(q)][k] => rank[elem[p]] < rank[enq[p].ptr]

\* What a producer's copies tell as long as qs->enqueue did not move
ProducerInv(p) ==
    /\ sent[p] <= load[p]
    /\ pc[p] # "idle" => sent[p] >= 1
    /\ Holding(p) \/ pc[p] \in {"swing", "return_1"} => elem[p] # NULL
    /\ pc[p] \in {"idle", "pop", "return_0"} => elem[p] = NULL
    /\ pc[p] \in Reading \cup {"swing"} => enq[p].ptr # NULL
    /\ pc[p] \in HasEnqueue => enq[p].ctr <= enqueue.ctr
    /\ pc[p] \in Unlinked \ {"init_counter"} => user_data[elem[p]] = Item(p, sent[p])
    /\ pc[p] = "link" => nxt[p].ptr = NULL
    /\ pc[p] = "help" => nxt[p].ptr # NULL
    /\ pc[p] \in HasNext /\ enqueue = enq[p] /\ nxt[p].ptr # NULL =>
          next[enqueue.ptr].ptr = nxt[p].ptr
    /\ pc[p] = "swing" /\ enqueue = enq[p] => next[enqueue.ptr].ptr = elem[p]

\* What a consumer's copies tell as long as qs->dequeue did not move
ConsumerInv(c) ==
    /\ elem[c] # NULL <=> pc[c] = "push"
    /\ pc[c] \in HasDequeue \cup {"deq_counter"} => deq[c].ptr # NULL
    /\ pc[c] \in HasDequeue => deq[c].ctr <= dequeue.ctr
    /\ pc[c] \in HasEnqueue => enq[c].ctr <= enqueue.ctr
    /\ pc[c] = "help" => enq[c].ptr = deq[c].ptr /\ nxt[c].ptr # NULL
    /\ pc[c] \in {"user_data", "advance"} => enq[c].ptr # deq[c].ptr /\ nxt[c].ptr # NULL
    /\ pc[c] = "check_counter" /\ dequeue.ctr = deq[c].ctr => dequeue.ptr = deq[c].ptr
    /\ pc[c] \in HasNext /\ enqueue = enq[c] /\ enq[c].ptr = deq[c].ptr
       /\ nxt[c].ptr # NULL =>
          next[enqueue.ptr].ptr = nxt[c].ptr
    /\ pc[c] \in HasDequeue /\ dequeue = deq[c] =>
          /\ pc[c] # "enq_pointer" /\ enq[c].ptr # deq[c].ptr =>
                enqueue.ptr # dequeue.ptr
          /\ pc[c] \in HasNext \cup {"user_data", "advance"} /\ nxt[c].ptr # NULL =>
                next[dequeue.ptr].ptr = nxt[c].ptr
          /\ pc[c] \in HasNext /\ enq[c].ptr # deq[c].ptr => nxt[c].ptr # NULL
          /\ pc[c] = "advance" => out[c] = user_data[nxt[c].ptr]

CopiesInv == /\ \A p \in Producers : ProducerInv(p)
             /\ \A c \in Consumers : ConsumerInv(c)

Inv(L, rank) == PlaceInv(L) /\ ListInv(L) /\ SpareInv(L) /\ RankInv(L, rank)

IInv == /\ TypesInv
        /\ CopiesInv
        /\ \E L \in [Places -> Seq(Elements)], N \in Nat :
              \E rank \in [Elements -> 0..N] : Inv(L, rank)
-----------------------------------------------------------------------------
(* Moving elements between places *)

LEMMA PairFields ==
    \A q \in Pairs : /\ \A n \in Int : [q EXCEPT !.ctr = n] \in Pairs
                     /\ [q EXCEPT !.ptr = NULL] \in Pairs
BY DEF Pairs

LEMMA PlacesDiffer ==
    /\ Queue \in Places /\ Free \in Places /\ Queue # Free
    /\ \A t \in Threads : At(t) \in Places /\ At(t) # Queue /\ At(t) # Free
    /\ \A t, u : At(t) = At(u) => t = u
    /\ \A a \in Places : a = Queue \/ a = Free \/ \E t \in Threads : a = At(t)
<1>1. Queue # Free /\ \A t : At(t) # Queue /\ At(t) # Free
  BY DEF Queue, Free, At
<1>2. \A t, u : At(t) = At(u) => t = u
  BY DEF At
<1> QED
  BY <1>1, <1>2 DEF Places

\* The first element of one place goes to an empty place.
MoveHead(L, a, b) == [L EXCEPT ![a] = Tail(L[a]), ![b] = <<Head(L[a])>>]

\* All that is in b goes before, or behind, what is in a.
MoveBefore(L, a, b) == [L EXCEPT ![a] = L[b] \o L[a], ![b] = <<>>]
MoveBehind(L, a, b) == [L EXCEPT ![a] = L[a] \o L[b], ![b] = <<>>]

LEMMA MoveHeadKeeps ==
    ASSUME NEW L \in [Places -> Seq(Elements)], NEW a \in Places, NEW b \in Places,
           a # b, Len(L[a]) >= 1, L[b] = <<>>, OnePlace(L), Everywhere(L)
    PROVE  LET M == MoveHead(L, a, b)
           IN  /\ M \in [Places -> Seq(Elements)] /\ OnePlace(M) /\ Everywhere(M)
               /\ \A x \in Places : x # a /\ x # b => M[x] = L[x]
               /\ Len(M[a]) = Len(L[a]) - 1
               /\ \A k \in 1..Len(M[a]) : M[a][k] = L[a][k + 1]
               /\ Len(M[b]) = 1 /\ M[b][1] = L[a][1]
<1> DEFINE M == MoveHead(L, a, b)
           from(x) == IF x = b THEN a ELSE x
           at(x, j) == IF x = a THEN j + 1 ELSE IF x = b THEN 1 ELSE j
<1>1. /\ Tail(L[a]) \in Seq(Elements) /\ Len(Tail(L[a])) = Len(L[a]) - 1
      /\ \A k \in 1..(Len(L[a]) - 1) : Tail(L[a])[k] = L[a][k + 1]
      /\ Head(L[a]) = L[a][1] /\ L[a][1] \in Elements
  <2>1. L[a] \in Seq(Elements) /\ L[a] # <<>> /\ Len(L[a]) \in Nat
    BY EmptySeq
  <2> QED
    BY <2>1, HeadTailProperties, ElementOfSeq
<1>2. /\ M \in [Places -> Seq(Elements)]
      /\ M[a] = Tail(L[a]) /\ M[b] = <<L[a][1]>>
      /\ \A x \in Places : x # a /\ x # b => M[x] = L[x]
  <2>1. M = [x \in Places |-> IF x = b THEN <<L[a][1]>>
                              ELSE IF x = a THEN Tail(L[a]) ELSE L[x]]
    BY <1>1 DEF MoveHead
  <2>2. <<L[a][1]>> \in Seq(Elements)
    BY <1>1
  <2> QED
    BY <1>1, <2>1, <2>2
<1>3. Len(M[b]) = 1 /\ M[b][1] = L[a][1]
  BY <1>1, <1>2
<1> HIDE DEF M
<1>4. ASSUME NEW x \in Places, NEW j \in 1..Len(M[x])
      PROVE  /\ j \in Nat
             /\ from(x) \in Places /\ at(x, j) \in 1..Len(L[from(x)])
             /\ M[x][j] = L[from(x)][at(x, j)]
  <2>0. j \in Nat /\ Len(L[x]) \in Nat /\ Len(M[x]) \in Nat /\ Len(L[a]) \in Nat
    BY <1>2
  <2>1. CASE x = a
    <3>1. j \in 1..(Len(L[a]) - 1) /\ j + 1 \in 1..Len(L[a])
      BY <1>1, <1>2, <2>0, <2>1
    <3>2. M[x][j] = L[a][j + 1]
      BY <1>1, <1>2, <2>1, <3>1
    <3> QED
      BY <2>0, <2>1, <3>1, <3>2
  <2>2. CASE x = b
    BY <1>3, <2>0, <2>2
  <2>3. CASE x # a /\ x # b
    BY <1>2, <2>0, <2>3
  <2> QED
    BY <2>1, <2>2, <2>3
<1>5. OnePlace(M)
  <2> SUFFICES ASSUME NEW x \in Places, NEW y \in Places, NEW j \in 1..Len(M[x]),
                      NEW k \in 1..Len(M[y]), M[x][j] = M[y][k]
               PROVE  x = y /\ j = k
    BY DEF OnePlace
  <2>1. from(x) = from(y) /\ at(x, j) = at(y, k)
    <3> HIDE DEF from, at
    <3>1. /\ from(x) \in Places /\ at(x, j) \in 1..Len(L[from(x)])
          /\ from(y) \in Places /\ at(y, k) \in 1..Len(L[from(y)])
          /\ L[from(x)][at(x, j)] = L[from(y)][at(y, k)]
      BY <1>4
    <3> QED
      BY <3>1, SMTT(30) DEF OnePlace
  <2>2. j \in Nat /\ k \in Nat /\ (x = b => j = 1) /\ (y = b => k = 1) /\ j >= 1 /\ k >= 1
    BY <1>3, <1>4
  <2> QED
    BY <2>1, <2>2
<1>6. Everywhere(M)
  <2> SUFFICES ASSUME NEW e \in Elements
               PROVE  \E x \in Places : \E j \in 1..Len(M[x]) : M[x][j] = e
    BY DEF Everywhere
  <2>1. PICK y \in Places : \E k \in 1..Len(L[y]) : L[y][k] = e
    BY DEF Everywhere
  <2>2. PICK k \in 1..Len(L[y]) : L[y][k] = e
    BY <2>1
  <2>3. k \in Nat /\ Len(L[y]) \in Nat
    OBVIOUS
  <2>4. CASE y = a /\ k = 1
    BY <1>3, <2>2, <2>4
  <2>5. CASE y = a /\ k # 1
    <3>1. k - 1 \in 1..Len(M[a]) /\ M[a][k - 1] = L[a][k]
      BY <1>1, <1>2, <2>3, <2>5
    <3> QED
      BY <2>2, <2>5, <3>1
  <2>6. CASE y # a
    <3>1. y # b
      BY <2>3
    <3> QED
      BY <1>2, <2>2, <2>6, <3>1
  <2> QED
    BY <2>4, <2>5, <2>6
<1> QED
  BY <1>1, <1>2, <1>3, <1>5, <1>6 DEF M

LEMMA MoveBehindKeeps ==
    ASSUME NEW L \in [Places -> Seq(Elements)], NEW a \in Places, NEW b \in Places,
           a # b, OnePlace(L), Everywhere(L)
    PROVE  LET M == MoveBehind(L, a, b)
           IN  /\ M \in [Places -> Seq(Elements)] /\ OnePlace(M) /\ Everywhere(M)
               /\ \A x \in Places : x # a /\ x # b => M[x] = L[x]
               /\ Len(M[a]) = Len(L[a]) + Len(L[b]) /\ M[a] = L[a] \o L[b]
               /\ \A k \in 1..Len(M[a]) : M[a][k] = IF k <= Len(L[a]) THEN L[a][k]
                                                    ELSE L[b][k - Len(L[a])]
               /\ M[b] = <<>>
<1> DEFINE M == MoveBehind(L, a, b)
           from(x, j) == IF x = a /\ j > Len(L[a]) THEN b ELSE x
           at(x, j) == IF x = a /\ j > Len(L[a]) THEN j - Len(L[a]) ELSE j
<1>0. Len(L[a]) \in Nat /\ Len(L[b]) \in Nat /\ L[a] \in Seq(Elements) /\ L[b] \in Seq(Elements)
  OBVIOUS
<1>1. /\ L[a] \o L[b] \in Seq(Elements) /\ Len(L[a] \o L[b]) = Len(L[a]) + Len(L[b])
      /\ \A k \in 1..(Len(L[a]) + Len(L[b])) : (L[a] \o L[b])[k] =
            IF k <= Len(L[a]) THEN L[a][k] ELSE L[b][k - Len(L[a])]
  BY <1>0, ConcatProperties
<1>2. /\ M \in [Places -> Seq(Elements)]
      /\ M[a] = L[a] \o L[b] /\ M[b] = <<>>
      /\ \A x \in Places : x # a /\ x # b => M[x] = L[x]
  <2>1. M = [x \in Places |-> IF x = b THEN <<>>
                              ELSE IF x = a THEN L[a] \o L[b] ELSE L[x]]
    BY DEF MoveBehind
  <2>2. <<>> \in Seq(Elements)
    OBVIOUS
  <2> QED
    BY <1>1, <2>1, <2>2
<1>3. Len(M[b]) = 0
  BY <1>2
<1> HIDE DEF M
<1>4. ASSUME NEW x \in Places, NEW j \in 1..Len(M[x])
      PROVE  /\ j \in Nat /\ x # b
             /\ from(x, j) \in Places /\ at(x, j) \in 1..Len(L[from(x, j)])
             /\ M[x][j] = L[from(x, j)][at(x, j)]
  <2>0. j \in Nat /\ Len(L[x]) \in Nat /\ Len(M[x]) \in Nat
    BY <1>2
  <2>1. CASE x = a
    <3>1. M[a][j] = IF j <= Len(L[a]) THEN L[a][j] ELSE L[b][j - Len(L[a])]
      BY <1>1, <1>2, <2>1
    <3>2. j <= Len(L[a]) + Len(L[b]) /\ j >= 1
      BY <1>1, <1>2, <2>0, <2>1
    <3>3. CASE j <= Len(L[a])
      BY <1>0, <2>0, <2>1, <3>1, <3>2, <3>3
    <3>4. CASE j > Len(L[a])
      BY <1>0, <2>0, <2>1, <3>1, <3>2, <3>4
    <3> QED
      BY <1>0, <2>0, <3>3, <3>4
  <2>2. CASE x = b
    BY <1>3, <2>0, <2>2
  <2>3. CASE x # a /\ x # b
    BY <1>2, <2>0, <2>3
  <2> QED
    BY <2>1, <2>2, <2>3
<1>5. OnePlace(M)
  <2> SUFFICES ASSUME NEW x \in Places, NEW y \in Places, NEW j \in 1..Len(M[x]),
                      NEW k \in 1..Len(M[y]), M[x][j] = M[y][k]
               PROVE  x = y /\ j = k
    BY DEF OnePlace
  <2>1. from(x, j) = from(y, k) /\ at(x, j) = at(y, k)
    <3> HIDE DEF from, at
    <3> QED
      BY <1>4, SMTT(30) DEF OnePlace
  <2>2. j \in Nat /\ k \in Nat /\ x # b /\ y # b
    BY <1>4
  <2> QED
    BY <1>0, <2>1, <2>2
<1>6. Everywhere(M)
  <2> SUFFICES ASSUME NEW e \in Elements
               PROVE  \E x \in Places : \E j \in 1..Len(M[x]) : M[x][j] = e
    BY DEF Everywhere
  <2>1. PICK y \in Places : \E k \in 1..Len(L[y]) : L[y][k] = e
    BY DEF Everywhere
  <2>2. PICK k \in 1..Len(L[y]) : L[y][k] = e
    BY <2>1
  <2>3. k \in Nat /\ Len(L[y]) \in Nat /\ k >= 1 /\ k <= Len(L[y])
    OBVIOUS
  <2>4. CASE y = a
    <3>1. k \in 1..Len(M[a]) /\ M[a][k] = L[a][k]
      BY <1>0, <1>1, <1>2, <2>3, <2>4
    <3> QED
      BY <2>2, <2>4, <3>1
  <2>5. CASE y = b
    <3>1. /\ Len(L[a]) + k \in 1..Len(M[a]) /\ ~(Len(L[a]) + k <= Len(L[a]))
          /\ (Len(L[a]) + k) - Len(L[a]) = k
      BY <1>0, <1>1, <1>2, <2>3, <2>5
    <3>2. M[a][Len(L[a]) + k] = L[b][k]
      BY <1>1, <1>2, <3>1
    <3> QED
      BY <2>2, <2>5, <3>1, <3>2
  <2>6. CASE y # a /\ y # b
    BY <1>2, <2>2, <2>6
  <2> QED
    BY <2>4, <2>5, <2>6
<1> QED
  BY <1>1, <1>2, <1>5, <1>6 DEF M

LEMMA MoveBeforeKeeps ==
    ASSUME NEW L \in [Places -> Seq(Elements)], NEW a \in Places, NEW b \in Places,
           a # b, OnePlace(L), Everywhere(L)
    PROVE  LET M == MoveBefore(L, a, b)
           IN  /\ M \in [Places -> Seq(Elements)] /\ OnePlace(M) /\ Everywhere(M)
               /\ \A x \in Places : x # a /\ x # b => M[x] = L[x]
               /\ Len(M[a]) = Len(L[b]) + Len(L[a]) /\ M[a] = L[b] \o L[a]
               /\ \A k \in 1..Len(M[a]) : M[a][k] = IF k <= Len(L[b]) THEN L[b][k]
                                                    ELSE L[a][k - Len(L[b])]
               /\ M[b] = <<>>
<1> DEFINE M == MoveBefore(L, a, b)
           from(x, j) == IF x = a /\ j <= Len(L[b]) THEN b ELSE x
           at(x, j) == IF x = a /\ j > Len(L[b]) THEN j - Len(L[b]) ELSE j
<1>0. Len(L[a]) \in Nat /\ Len(L[b]) \in Nat /\ L[a] \in Seq(Elements) /\ L[b] \in Seq(Elements)
  OBVIOUS
<1>1. /\ L[b] \o L[a] \in Seq(Elements) /\ Len(L[b] \o L[a]) = Len(L[b]) + Len(L[a])
      /\ \A k \in 1..(Len(L[b]) + Len(L[a])) : (L[b] \o L[a])[k] =
            IF k <= Len(L[b]) THEN L[b][k] ELSE L[a][k - Len(L[b])]
  BY <1>0, ConcatProperties
<1>2. /\ M \in [Places -> Seq(Elements)]
      /\ M[a] = L[b] \o L[a] /\ M[b] = <<>>
      /\ \A x \in Places : x # a /\ x # b => M[x] = L[x]
  <2>1. M = [x \in Places |-> IF x = b THEN <<>>
                              ELSE IF x = a THEN L[b] \o L[a] ELSE L[x]]
    BY DEF MoveBefore
  <2>2. <<>> \in Seq(Elements)
    OBVIOUS
  <2> QED
    BY <1>1, <2>1, <2>2
<1>3. Len(M[b]) = 0
  BY <1>2
<1> HIDE DEF M
<1>4. ASSUME NEW x \in Places, NEW j \in 1..Len(M[x])
      PROVE  /\ j \in Nat /\ x # b
             /\ from(x, j) \in Places /\ at(x, j) \in 1..Len(L[from(x, j)])
             /\ M[x][j] = L[from(x, j)][at(x, j)]
  <2>0. j \in Nat /\ Len(L[x]) \in Nat /\ Len(M[x]) \in Nat
    BY <1>2
  <2>1. CASE x = a
    <3>1. M[a][j] = IF j <= Len(L[b]) THEN L[b][j] ELSE L[a][j - Len(L[b])]
      BY <1>1, <1>2, <2>1
    <3>2. j <= Len(L[b]) + Len(L[a]) /\ j >= 1
      BY <1>1, <1>2, <2>0, <2>1
    <3>3. CASE j <= Len(L[b])
      BY <1>0, <2>0, <2>1, <3>1, <3>2, <3>3
    <3>4. CASE j > Len(L[b])
      BY <1>0, <2>0, <2>1, <3>1, <3>2, <3>4
    <3> QED
      BY <1>0, <2>0, <3>3, <3>4
  <2>2. CASE x = b
    BY <1>3, <2>0, <2>2
  <2>3. CASE x # a /\ x # b
    BY <1>2, <2>0, <2>3
  <2> QED
    BY <2>1, <2>2, <2>3
<1>5. OnePlace(M)
  <2> SUFFICES ASSUME NEW x \in Places, NEW y \in Places, NEW j \in 1..Len(M[x]),
                      NEW k \in 1..Len(M[y]), M[x][j] = M[y][k]
               PROVE  x = y /\ j = k
    BY DEF OnePlace
  <2>1. from(x, j) = from(y, k) /\ at(x, j) = at(y, k)
    <3> HIDE DEF from, at
    <3> QED
      BY <1>4, SMTT(30) DEF OnePlace
  <2>2. j \in Nat /\ k \in Nat /\ x # b /\ y # b
    BY <1>4
  <2> QED
    BY <1>0, <2>1, <2>2
<1>6. Everywhere(M)
  <2> SUFFICES ASSUME NEW e \in Elements
               PROVE  \E x \in Places : \E j \in 1..Len(M[x]) : M[x][j] = e
    BY DEF Everywhere
  <2>1. PICK y \in Places : \E k \in 1..Len(L[y]) : L[y][k] = e
    BY DEF Everywhere
  <2>2. PICK k \in 1..Len(L[y]) : L[y][k] = e
    BY <2>1
  <2>3. k \in Nat /\ Len(L[y]) \in Nat /\ k >= 1 /\ k <= Len(L[y])
    OBVIOUS
  <2>5. CASE y = b
    <3>1. k \in 1..Len(M[a]) /\ M[a][k] = L[b][k]
      BY <1>0, <1>1, <1>2, <2>3, <2>5
    <3> QED
      BY <2>2, <2>5, <3>1
  <2>4. CASE y = a
    <3>1. /\ Len(L[b]) + k \in 1..Len(M[a]) /\ ~(Len(L[b]) + k <= Len(L[b]))
          /\ (Len(L[b]) + k) - Len(L[b]) = k
      BY <1>0, <1>1, <1>2, <2>3, <2>4
    <3>2. M[a][Len(L[b]) + k] = L[a][k]
      BY <1>1, <1>2, <3>1
    <3> QED
      BY <2>2, <2>4, <3>1, <3>2
  <2>6. CASE y # a /\ y # b
    BY <1>2, <2>2, <2>6
  <2> QED
    BY <2>4, <2>5, <2>6
<1> QED
  BY <1>1, <1>2, <1>5, <1>6 DEF M
-----------------------------------------------------------------------------
(* What each action does, thread by thread *)

Others(t) == \A u \in Threads \ {t} :
                /\ pc'[u] = pc[u] /\ elem'[u] = elem[u] /\ enq'[u] = enq[u]
                /\ deq'[u] = deq[u] /\ nxt'[u] = nxt[u]

Step(t, from, to, e, q, d, n) ==
    /\ pc[t] = from /\ pc'[t] = to
    /\ elem'[t] = e /\ enq'[t] = q /\ deq'[t] = d /\ nxt'[t] = n
    /\ Others(t)

\* The thread's copies stay.
Moves(t, from, to) == Step(t, from, to, elem[t], enq[t], deq[t], nxt[t])

LEMMA GotoEffect ==
    ASSUME LocalTypes, NEW t \in Threads, NEW from, NEW to, Goto(t, from, to)
    PROVE  /\ pc[t] = from /\ pc'[t] = to
           /\ \A u \in Threads \ {t} : pc'[u] = pc[u]
  BY DEF LocalTypes, Goto

\* Steps that both kinds of threads make
LEMMA ReadEffects ==
    ASSUME LocalTypes, NEW t \in Threads, NEW e, NEW from, NEW to
    PROVE  /\ ReadEnqueuePointer(t, from, to) =>
                Step(t, from, to, elem[t], Pair(enqueue.ptr, 0), deq[t], nxt[t])
           /\ ReadEnqueueCounter(t, from, to) =>
                Step(t, from, to, elem[t], Pair(enq[t].ptr, enqueue.ctr), deq[t], nxt[t])
           /\ ReadNextPointer(t, e, from, to) =>
                Step(t, from, to, elem[t], enq[t], deq[t], Pair(next[e].ptr, 0))
           /\ ReadNextCounter(t, e, from, to) =>
                Step(t, from, to, elem[t], enq[t], deq[t], Pair(nxt[t].ptr, next[e].ctr))
           /\ SwingEnqueue(t, e, from, to) => Moves(t, from, to)
<1>1. ReadEnqueuePointer(t, from, to) =>
        Step(t, from, to, elem[t], Pair(enqueue.ptr, 0), deq[t], nxt[t])
  BY GotoEffect DEF LocalTypes, ReadEnqueuePointer, Step, Others
<1>2. ReadEnqueueCounter(t, from, to) =>
        Step(t, from, to, elem[t], Pair(enq[t].ptr, enqueue.ctr), deq[t], nxt[t])
  BY GotoEffect DEF LocalTypes, ReadEnqueueCounter, Step, Others, Pairs, Pair
<1>3. ReadNextPointer(t, e, from, to) =>
        Step(t, from, to, elem[t], enq[t], deq[t], Pair(next[e].ptr, 0))
  BY GotoEffect DEF LocalTypes, ReadNextPointer, Step, Others
<1>4. ReadNextCounter(t, e, from, to) =>
        Step(t, from, to, elem[t], enq[t], deq[t], Pair(nxt[t].ptr, next[e].ctr))
  BY GotoEffect DEF LocalTypes, ReadNextCounter, Step, Others, Pairs, Pair
<1>5. SwingEnqueue(t, e, from, to) => Moves(t, from, to)
  BY GotoEffect DEF SwingEnqueue, Moves, Step, Others, local
<1> QED
  BY <1>1, <1>2, <1>3, <1>4, <1>5

LEMMA ProducerEffects ==
    ASSUME LocalTypes, NEW p \in Producers
    PROVE  /\ EnqueueCall(p) => Moves(p, "idle", "pop")
           /\ PopElement(p) =>
                Step(p, "pop", "init_pointer", Head(freelist), enq[p], deq[p], nxt[p])
           /\ PopFails(p) => Moves(p, "pop", "return_0")
           /\ InitPointer(p) => Moves(p, "init_pointer", "init_counter")
           /\ InitCounter(p) => Moves(p, "init_counter", "enq_pointer")
           /\ CheckEnqueuePointer(p) =>
                Moves(p, "check", IF enqueue.ptr # enq[p].ptr THEN "enq_pointer"
                                  ELSE "check_counter")
           /\ CheckEnqueue(p) =>
                Moves(p, "check_counter",
                      IF enqueue.ctr # enq[p].ctr THEN "enq_pointer"
                      ELSE IF nxt[p].ptr = NULL THEN "link" ELSE "help")
           /\ LinkElement(p) =>
                Moves(p, "link", IF next[enq[p].ptr] = nxt[p] THEN "swing"
                                 ELSE "enq_pointer")
           /\ EnqueueReturn(p) =>
                \E from \in {"return_1", "return_0"} :
                   Step(p, from, "idle", NULL, NoPair, NoPair, NoPair)
           /\ ReadEnqueuePointer(p, "enq_pointer", "enq_counter") =>
                Step(p, "enq_pointer", "enq_counter", elem[p], Pair(enqueue.ptr, 0), deq[p],
                     nxt[p])
           /\ ReadEnqueueCounter(p, "enq_counter", "next_pointer") =>
                Step(p, "enq_counter", "next_pointer", elem[p],
                     Pair(enq[p].ptr, enqueue.ctr), deq[p], nxt[p])
           /\ ReadNextPointer(p, enq[p].ptr, "next_pointer", "next_counter") =>
                Step(p, "next_pointer", "next_counter", elem[p], enq[p], deq[p],
                     Pair(next[enq[p].ptr].ptr, 0))
           /\ ReadNextCounter(p, enq[p].ptr, "next_counter", "check") =>
                Step(p, "next_counter", "check", elem[p], enq[p], deq[p],
                     Pair(nxt[p].ptr, next[enq[p].ptr].ctr))
           /\ SwingEnqueue(p, nxt[p].ptr, "help", "enq_pointer") =>
                Moves(p, "help", "enq_pointer")
           /\ SwingEnqueue(p, elem[p], "swing", "return_1") =>
                Moves(p, "swing", "return_1")
<1>0. p \in Threads
  BY DEF Threads
<1>1. EnqueueCall(p) => Moves(p, "idle", "pop")
  BY <1>0, GotoEffect DEF EnqueueCall, Moves, Step, Others
<1>2. PopElement(p) =>
        Step(p, "pop", "init_pointer", Head(freelist), enq[p], deq[p], nxt[p])
  BY <1>0, GotoEffect DEF LocalTypes, PopElement, Step, Others
<1>3. PopFails(p) => Moves(p, "pop", "return_0")
  BY <1>0, GotoEffect DEF PopFails, Moves, Step, Others, local
<1>4. InitPointer(p) => Moves(p, "init_pointer", "init_counter")
  BY <1>0, GotoEffect DEF InitPointer, Moves, Step, Others, local
<1>5. InitCounter(p) => Moves(p, "init_counter", "enq_pointer")
  BY <1>0, GotoEffect DEF InitCounter, Moves, Step, Others, local
<1>6. CheckEnqueuePointer(p) =>
        Moves(p, "check", IF enqueue.ptr # enq[p].ptr THEN "enq_pointer"
                          ELSE "check_counter")
  BY <1>0, GotoEffect DEF CheckEnqueuePointer, Moves, Step, Others, local
<1>7. CheckEnqueue(p) =>
        Moves(p, "check_counter",
              IF enqueue.ctr # enq[p].ctr THEN "enq_pointer"
              ELSE IF nxt[p].ptr = NULL THEN "link" ELSE "help")
  BY <1>0, GotoEffect DEF CheckEnqueue, Moves, Step, Others, local
<1>8. LinkElement(p) =>
        Moves(p, "link", IF next[enq[p].ptr] = nxt[p] THEN "swing" ELSE "enq_pointer")
  BY <1>0, GotoEffect DEF LinkElement, Moves, Step, Others, local
<1>9. EnqueueReturn(p) =>
        \E from \in {"return_1", "return_0"} :
           Step(p, from, "idle", NULL, NoPair, NoPair, NoPair)
  <2>1. ASSUME EnqueueReturn(p), NEW from, Goto(p, from, "idle")
        PROVE  Step(p, from, "idle", NULL, NoPair, NoPair, NoPair)
    BY <1>0, <2>1, GotoEffect DEF LocalTypes, EnqueueReturn, Forget, Step, Others
  <2> QED
    BY <2>1 DEF EnqueueReturn
<1>10. ReadEnqueuePointer(p, "enq_pointer", "enq_counter") =>
         Step(p, "enq_pointer", "enq_counter", elem[p], Pair(enqueue.ptr, 0), deq[p],
              nxt[p])
  BY <1>0, ReadEffects
<1>11. ReadEnqueueCounter(p, "enq_counter", "next_pointer") =>
         Step(p, "enq_counter", "next_pointer", elem[p],
              Pair(enq[p].ptr, enqueue.ctr), deq[p], nxt[p])
  BY <1>0, ReadEffects
<1>12. ReadNextPointer(p, enq[p].ptr, "next_pointer", "next_counter") =>
         Step(p, "next_pointer", "next_counter", elem[p], enq[p], deq[p],
              Pair(next[enq[p].ptr].ptr, 0))
  BY <1>0, ReadEffects
<1>13. ReadNextCounter(p, enq[p].ptr, "next_counter", "check") =>
         Step(p, "next_counter", "check", elem[p], enq[p], deq[p],
              Pair(nxt[p].ptr, next[enq[p].ptr].ctr))
  BY <1>0, ReadEffects
<1>14. SwingEnqueue(p, nxt[p].ptr, "help", "enq_pointer") =>
         Moves(p, "help", "enq_pointer")
  BY <1>0, ReadEffects
<1>15. SwingEnqueue(p, elem[p], "swing", "return_1") =>
         Moves(p, "swing", "return_1")
  BY <1>0, ReadEffects
<1> QED
  BY <1>1, <1>2, <1>3, <1>4, <1>5, <1>6, <1>7, <1>8, <1>9,
     <1>10, <1>11, <1>12, <1>13, <1>14, <1>15

LEMMA ConsumerEffects ==
    ASSUME LocalTypes, NEW c \in Consumers
    PROVE  /\ DequeueCall(c) => Moves(c, "idle", "deq_pointer")
           /\ ReadDequeuePointer(c) =>
                Step(c, "deq_pointer", "deq_counter", elem[c], enq[c],
                     Pair(dequeue.ptr, 0), nxt[c])
           /\ ReadDequeueCounter(c) =>
                Step(c, "deq_counter", "enq_pointer", elem[c], enq[c],
                     Pair(deq[c].ptr, dequeue.ctr), nxt[c])
           /\ CheckDequeuePointer(c) =>
                Moves(c, "check", IF dequeue.ptr # deq[c].ptr THEN "deq_pointer"
                                  ELSE "check_counter")
           /\ CheckDequeue(c) =>
                Moves(c, "check_counter",
                      IF dequeue.ctr # deq[c].ctr THEN "deq_pointer"
                      ELSE IF enq[c].ptr # deq[c].ptr THEN "user_data"
                      ELSE IF nxt[c].ptr = NULL THEN "return_0" ELSE "help")
           /\ ReadUserData(c) => Moves(c, "user_data", "advance")
           /\ AdvanceDequeue(c) =>
                IF dequeue = deq[c]
                THEN Step(c, "advance", "push", deq[c].ptr, enq[c], deq[c], nxt[c])
                ELSE Moves(c, "advance", "deq_pointer")
           /\ PushElement(c) => Step(c, "push", "return_1", NULL, enq[c], deq[c], nxt[c])
           /\ DequeueReturn(c) =>
                \E from \in {"return_1", "return_0"} :
                   Step(c, from, "idle", NULL, NoPair, NoPair, NoPair)
           /\ ReadEnqueuePointer(c, "enq_pointer", "enq_counter") =>
                Step(c, "enq_pointer", "enq_counter", elem[c], Pair(enqueue.ptr, 0), deq[c],
                     nxt[c])
           /\ ReadEnqueueCounter(c, "enq_counter", "next_pointer") =>
                Step(c, "enq_counter", "next_pointer", elem[c],
                     Pair(enq[c].ptr, enqueue.ctr), deq[c], nxt[c])
           /\ ReadNextPointer(c, deq[c].ptr, "next_pointer", "next_counter") =>
                Step(c, "next_pointer", "next_counter", elem[c], enq[c], deq[c],
                     Pair(next[deq[c].ptr].ptr, 0))
           /\ ReadNextCounter(c, deq[c].ptr, "next_counter", "check") =>
                Step(c, "next_counter", "check", elem[c], enq[c], deq[c],
                     Pair(nxt[c].ptr, next[deq[c].ptr].ctr))
           /\ SwingEnqueue(c, nxt[c].ptr, "help", "deq_pointer") =>
                Moves(c, "help", "deq_pointer")
<1>0. c \in Threads
  BY DEF Threads
<1>1. DequeueCall(c) => Moves(c, "idle", "deq_pointer")
  BY <1>0, GotoEffect DEF DequeueCall, Moves, Step, Others, local
<1>2. ReadDequeuePointer(c) =>
        Step(c, "deq_pointer", "deq_counter", elem[c], enq[c],
             Pair(dequeue.ptr, 0), nxt[c])
  BY <1>0, GotoEffect DEF LocalTypes, ReadDequeuePointer, Step, Others
<1>3. ReadDequeueCounter(c) =>
        Step(c, "deq_counter", "enq_pointer", elem[c], enq[c],
             Pair(deq[c].ptr, dequeue.ctr), nxt[c])
  BY <1>0, GotoEffect DEF LocalTypes, ReadDequeueCounter, Step, Others, Pairs, Pair
<1>4. CheckDequeuePointer(c) =>
        Moves(c, "check", IF dequeue.ptr # deq[c].ptr THEN "deq_pointer"
                          ELSE "check_counter")
  BY <1>0, GotoEffect DEF CheckDequeuePointer, Moves, Step, Others, local
<1>5. CheckDequeue(c) =>
        Moves(c, "check_counter",
              IF dequeue.ctr # deq[c].ctr THEN "deq_pointer"
              ELSE IF enq[c].ptr # deq[c].ptr THEN "user_data"
              ELSE IF nxt[c].ptr = NULL THEN "return_0" ELSE "help")
  BY <1>0, GotoEffect DEF CheckDequeue, Moves, Step, Others, local
<1>6. ReadUserData(c) => Moves(c, "user_data", "advance")
  BY <1>0, GotoEffect DEF ReadUserData, Moves, Step, Others
<1>7. AdvanceDequeue(c) =>
        IF dequeue = deq[c]
        THEN Step(c, "advance", "push", deq[c].ptr, enq[c], deq[c], nxt[c])
        ELSE Moves(c, "advance", "deq_pointer")
  <2>1. CASE dequeue = deq[c]
    BY <1>0, <2>1, GotoEffect DEF LocalTypes, AdvanceDequeue, Step, Others
  <2>2. CASE dequeue # deq[c]
    BY <1>0, <2>2, GotoEffect DEF AdvanceDequeue, Moves, Step, Others
  <2> QED
    BY <2>1, <2>2
<1>8. PushElement(c) => Step(c, "push", "return_1", NULL, enq[c], deq[c], nxt[c])
  BY <1>0, GotoEffect DEF LocalTypes, PushElement, Step, Others
<1>9. DequeueReturn(c) =>
        \E from \in {"return_1", "return_0"} :
           Step(c, from, "idle", NULL, NoPair, NoPair, NoPair)
  <2>1. ASSUME DequeueReturn(c), NEW from, Goto(c, from, "idle")
        PROVE  Step(c, from, "idle", NULL, NoPair, NoPair, NoPair)
    BY <1>0, <2>1, GotoEffect DEF LocalTypes, DequeueReturn, Forget, Step, Others
  <2> QED
    BY <2>1 DEF DequeueReturn
<1>10. ReadEnqueuePointer(c, "enq_pointer", "enq_counter") =>
         Step(c, "enq_pointer", "enq_counter", elem[c], Pair(enqueue.ptr, 0), deq[c],
              nxt[c])
  BY <1>0, ReadEffects
<1>11. ReadEnqueueCounter(c, "enq_counter", "next_pointer") =>
         Step(c, "enq_counter", "next_pointer", elem[c],
              Pair(enq[c].ptr, enqueue.ctr), deq[c], nxt[c])
  BY <1>0, ReadEffects
<1>12. ReadNextPointer(c, deq[c].ptr, "next_pointer", "next_counter") =>
         Step(c, "next_pointer", "next_counter", elem[c], enq[c], deq[c],
              Pair(next[deq[c].ptr].ptr, 0))
  BY <1>0, ReadEffects
<1>13. ReadNextCounter(c, deq[c].ptr, "next_counter", "check") =>
         Step(c, "next_counter", "check", elem[c], enq[c], deq[c],
              Pair(nxt[c].ptr, next[deq[c].ptr].ctr))
  BY <1>0, ReadEffects
<1>14. SwingEnqueue(c, nxt[c].ptr, "help", "deq_pointer") =>
         Moves(c, "help", "deq_pointer")
  BY <1>0, ReadEffects
<1> QED
  BY <1>1, <1>2, <1>3, <1>4, <1>5, <1>6, <1>7, <1>8, <1>9,
     <1>10, <1>11, <1>12, <1>13, <1>14
-----------------------------------------------------------------------------
(* Types *)

LEMMA Numbers ==
    /\ Capacity \in Nat /\ Elements = 1..(Capacity + 1) /\ NULL \notin Elements
    /\ Elements \subseteq Nat /\ PtrStep \in Int /\ PtrStep > 0
    /\ NoPair \in Pairs /\ Stamped \subseteq Pairs
    /\ \A e \in Elements \cup {NULL}, k \in Int : Pair(e, k) \in Pairs
    /\ \A e \in Elements, k \in Int : Pair(e, k) \in Stamped
    /\ \A x \in Pairs : /\ x.ptr \in Elements \cup {NULL} /\ x.ctr \in Int
                        /\ x = Pair(x.ptr, x.ctr)
    /\ \A x \in Stamped : x.ptr \in Elements /\ x.ctr \in Int /\ x = Pair(x.ptr, x.ctr)
    /\ \A e, f, j, k : Pair(e, j).ptr = e /\ Pair(e, j).ctr = j
<1>1. Capacity \in Nat /\ Elements = 1..(Capacity + 1) /\ NULL \notin Elements
  BY LfdsQueueAssumption DEF Elements, NULL
<1>2. Elements \subseteq Nat /\ PtrStep \in Int /\ PtrStep > 0
  BY <1>1 DEF PtrStep
<1>3. \A e, f, j, k : Pair(e, j).ptr = e /\ Pair(e, j).ctr = j
  BY DEF Pair
<1>4. \A e \in Elements \cup {NULL}, k \in Int : Pair(e, k) \in Pairs
  BY DEF Pair, Pairs
<1>5. \A e \in Elements, k \in Int : Pair(e, k) \in Stamped
  BY DEF Pair, Stamped
<1>6. \A x \in Pairs : /\ x.ptr \in Elements \cup {NULL} /\ x.ctr \in Int
                       /\ x = Pair(x.ptr, x.ctr)
  BY DEF Pair, Pairs
<1>7. \A x \in Stamped : x.ptr \in Elements /\ x.ctr \in Int /\ x = Pair(x.ptr, x.ctr)
  BY DEF Pair, Stamped
<1>8. NoPair \in Pairs /\ Stamped \subseteq Pairs
  BY <1>4 DEF NoPair, Stamped, Pairs
<1> QED
  BY <1>1, <1>2, <1>3, <1>4, <1>5, <1>6, <1>7, <1>8

LEMMA ItemType ==
    ASSUME NEW p \in Producers, load \in Loads, sent \in [Producers -> Nat],
           sent[p] >= 1, sent[p] <= load[p]
    PROVE  Item(p, sent[p]) \in ItemsOf[p] /\ Item(p, sent[p]) \in AllItems
<1>1. load[p] \in Nat /\ sent[p] \in 1..load[p]
  BY LfdsQueueAssumption
<1>2. sent[p] \in UNION {1..l[p] : l \in Loads}
  BY <1>1
<1>3. Item(p, sent[p]) \in ItemsOf[p]
  BY <1>2 DEF ItemsOf
<1> QED
  BY <1>3 DEF AllItems

\* The pc of each thread
LEMMA StepTypes ==
    ASSUME TypesInv, CopiesInv, NEW t \in Threads,
           (t \in Producers /\ Enqueue(t)) \/ (t \in Consumers /\ Dequeue(t))
    PROVE  /\ pc' \in [Threads -> ProducerSteps \cup ConsumerSteps]
           /\ \A p \in Producers : pc'[p] \in ProducerSteps
           /\ \A c \in Consumers : pc'[c] \in ConsumerSteps
<1>1. \E from, to : Goto(t, from, to)
  BY DEF Enqueue, Dequeue, EnqueueCall, PopElement, PopFails, InitPointer, InitCounter,
         ReadEnqueuePointer, ReadEnqueueCounter, ReadNextPointer, ReadNextCounter,
         CheckEnqueuePointer, CheckEnqueue, LinkElement, SwingEnqueue, EnqueueReturn,
         DequeueCall, ReadDequeuePointer, ReadDequeueCounter, CheckDequeuePointer,
         CheckDequeue, ReadUserData, AdvanceDequeue, PushElement, DequeueReturn
<1>2. PICK to : pc' = [pc EXCEPT ![t] = to]
  BY <1>1 DEF Goto
<1>3. to = pc'[t]
  BY <1>2 DEF TypesInv, LocalTypes
<1>4. t \in Producers => pc'[t] \in ProducerSteps
  <2> SUFFICES ASSUME t \in Producers PROVE pc'[t] \in ProducerSteps
    OBVIOUS
  <2>1. Enqueue(t)
    BY LfdsQueueAssumption
  <2> QED
    BY <2>1, ProducerEffects DEF Enqueue, ProducerSteps, Unlinked, TypesInv, Moves, Step
<1>5. t \in Consumers => pc'[t] \in ConsumerSteps
  <2> SUFFICES ASSUME t \in Consumers PROVE pc'[t] \in ConsumerSteps
    OBVIOUS
  <2>1. Dequeue(t)
    BY LfdsQueueAssumption
  <2> QED
    BY <2>1, ConsumerEffects DEF Dequeue, ConsumerSteps, TypesInv, Moves, Step
<1>6. \A u \in Threads : u # t => pc'[u] = pc[u]
  BY <1>2 DEF TypesInv, LocalTypes
<1>7. pc' \in [Threads -> ProducerSteps \cup ConsumerSteps]
  BY <1>2, <1>3, <1>4, <1>5 DEF TypesInv, LocalTypes
<1> QED
  BY <1>4, <1>5, <1>6, <1>7 DEF TypesInv, LocalTypes, Threads

\* Which actions change which variable
LEMMA ProducerFrames ==
    ASSUME NEW p \in Producers, Enqueue(p)
    PROVE  /\ UNCHANGED <<load, out, dequeue>>
           /\ UNCHANGED deq \/ EnqueueReturn(p)
           /\ UNCHANGED sent \/ EnqueueCall(p)
           /\ UNCHANGED elem \/ PopElement(p) \/ EnqueueReturn(p)
           /\ \/ UNCHANGED enq
              \/ ReadEnqueuePointer(p, "enq_pointer", "enq_counter")
              \/ ReadEnqueueCounter(p, "enq_counter", "next_pointer")
              \/ EnqueueReturn(p)
           /\ \/ UNCHANGED nxt
              \/ ReadNextPointer(p, enq[p].ptr, "next_pointer", "next_counter")
              \/ ReadNextCounter(p, enq[p].ptr, "next_counter", "check")
              \/ EnqueueReturn(p)
           /\ \/ UNCHANGED enqueue
              \/ SwingEnqueue(p, nxt[p].ptr, "help", "enq_pointer")
              \/ SwingEnqueue(p, elem[p], "swing", "return_1")
           /\ UNCHANGED next \/ InitPointer(p) \/ InitCounter(p) \/ LinkElement(p)
           /\ UNCHANGED user_data \/ InitCounter(p)
           /\ UNCHANGED freelist \/ PopElement(p)
           /\ UNCHANGED aba_counter \/ InitPointer(p) \/ InitCounter(p)
<1>1. CASE EnqueueCall(p)
  BY <1>1 DEF EnqueueCall, shared
<1>2. CASE PopElement(p)
  BY <1>2 DEF PopElement
<1>3. CASE PopFails(p)
  BY <1>3 DEF PopFails, shared, local
<1>4. CASE InitPointer(p)
  BY <1>4 DEF InitPointer, local
<1>5. CASE InitCounter(p)
  BY <1>5 DEF InitCounter, local
<1>6. CASE ReadEnqueuePointer(p, "enq_pointer", "enq_counter")
  BY <1>6 DEF ReadEnqueuePointer, shared
<1>7. CASE ReadEnqueueCounter(p, "enq_counter", "next_pointer")
  BY <1>7 DEF ReadEnqueueCounter, shared
<1>8. CASE ReadNextPointer(p, enq[p].ptr, "next_pointer", "next_counter")
  BY <1>8 DEF ReadNextPointer, shared
<1>9. CASE ReadNextCounter(p, enq[p].ptr, "next_counter", "check")
  BY <1>9 DEF ReadNextCounter, shared
<1>10. CASE CheckEnqueuePointer(p)
  BY <1>10 DEF CheckEnqueuePointer, shared, local
<1>11. CASE CheckEnqueue(p)
  BY <1>11 DEF CheckEnqueue, shared, local
<1>12. CASE LinkElement(p)
  BY <1>12 DEF LinkElement, local
<1>13. CASE SwingEnqueue(p, nxt[p].ptr, "help", "enq_pointer")
  BY <1>13 DEF SwingEnqueue, local
<1>14. CASE SwingEnqueue(p, elem[p], "swing", "return_1")
  BY <1>14 DEF SwingEnqueue, local
<1>15. CASE EnqueueReturn(p)
  BY <1>15 DEF EnqueueReturn, Forget, shared
<1> QED
  BY <1>1, <1>2, <1>3, <1>4, <1>5, <1>6, <1>7,
     <1>8, <1>9, <1>10, <1>11, <1>12, <1>13, <1>14, <1>15 DEF Enqueue

LEMMA ConsumerFrames ==
    ASSUME NEW c \in Consumers, Dequeue(c)
    PROVE  /\ UNCHANGED <<load, sent, next, user_data, aba_counter>>
           /\ \/ UNCHANGED elem
              \/ AdvanceDequeue(c) \/ PushElement(c) \/ DequeueReturn(c)
           /\ \/ UNCHANGED enq
              \/ ReadEnqueuePointer(c, "enq_pointer", "enq_counter")
              \/ ReadEnqueueCounter(c, "enq_counter", "next_pointer")
              \/ DequeueReturn(c)
           /\ \/ UNCHANGED deq
              \/ ReadDequeuePointer(c) \/ ReadDequeueCounter(c) \/ DequeueReturn(c)
           /\ \/ UNCHANGED nxt
              \/ ReadNextPointer(c, deq[c].ptr, "next_pointer", "next_counter")
              \/ ReadNextCounter(c, deq[c].ptr, "next_counter", "check")
              \/ DequeueReturn(c)
           /\ UNCHANGED out \/ ReadUserData(c) \/ DequeueReturn(c)
           /\ UNCHANGED enqueue \/ SwingEnqueue(c, nxt[c].ptr, "help", "deq_pointer")
           /\ UNCHANGED dequeue \/ AdvanceDequeue(c)
           /\ UNCHANGED freelist \/ PushElement(c)
<1>1. CASE DequeueCall(c)
  BY <1>1 DEF DequeueCall, shared, local
<1>2. CASE ReadDequeuePointer(c)
  BY <1>2 DEF ReadDequeuePointer, shared
<1>3. CASE ReadDequeueCounter(c)
  BY <1>3 DEF ReadDequeueCounter, shared
<1>4. CASE ReadEnqueuePointer(c, "enq_pointer", "enq_counter")
  BY <1>4 DEF ReadEnqueuePointer, shared
<1>5. CASE ReadEnqueueCounter(c, "enq_counter", "next_pointer")
  BY <1>5 DEF ReadEnqueueCounter, shared
<1>6. CASE ReadNextPointer(c, deq[c].ptr, "next_pointer", "next_counter")
  BY <1>6 DEF ReadNextPointer, shared
<1>7. CASE ReadNextCounter(c, deq[c].ptr, "next_counter", "check")
  BY <1>7 DEF ReadNextCounter, shared
<1>8. CASE CheckDequeuePointer(c)
  BY <1>8 DEF CheckDequeuePointer, shared, local
<1>9. CASE CheckDequeue(c)
  BY <1>9 DEF CheckDequeue, shared, local
<1>10. CASE SwingEnqueue(c, nxt[c].ptr, "help", "deq_pointer")
  BY <1>10 DEF SwingEnqueue, local
<1>11. CASE ReadUserData(c)
  BY <1>11 DEF ReadUserData, shared
<1>12. CASE AdvanceDequeue(c)
  BY <1>12 DEF AdvanceDequeue
<1>13. CASE PushElement(c)
  BY <1>13 DEF PushElement
<1>14. CASE DequeueReturn(c)
  BY <1>14 DEF DequeueReturn, Forget, shared
<1> QED
  BY <1>1, <1>2, <1>3, <1>4, <1>5, <1>6, <1>7,
     <1>8, <1>9, <1>10, <1>11, <1>12, <1>13, <1>14 DEF Dequeue

LEMMA ProducerTypes ==
    ASSUME TypesInv, CopiesInv, NEW p \in Producers, Enqueue(p)
    PROVE  TypesInv'
<1>0. p \in Threads /\ ProducerInv(p)
  BY DEF Threads, CopiesInv
<1>1. /\ pc' \in [Threads -> ProducerSteps \cup ConsumerSteps]
      /\ \A q \in Producers : pc'[q] \in ProducerSteps
      /\ \A c \in Consumers : pc'[c] \in ConsumerSteps
  BY <1>0, StepTypes
<1> USE DEF TypesInv, SharedTypes, LocalTypes
<1>2. load' \in Loads /\ out' \in [Consumers -> AllItems \cup {NoItem}]
  BY ProducerFrames
<1>3. sent' \in [Producers -> Nat]
  <2>1. CASE EnqueueCall(p)
    BY <2>1 DEF EnqueueCall
  <2> QED
    BY <2>1, ProducerFrames
<1>4. elem' \in [Threads -> Elements \cup {NULL}]
  <2>1. CASE PopElement(p)
    BY <2>1, HeadTailProperties DEF PopElement
  <2>2. CASE EnqueueReturn(p)
    BY <2>2 DEF EnqueueReturn, Forget
  <2> QED
    BY <2>1, <2>2, ProducerFrames
<1>5. enq' \in [Threads -> Pairs]
  <2>1. CASE ReadEnqueuePointer(p, "enq_pointer", "enq_counter")
    <3>1. enqueue.ptr \in Elements \cup {NULL} /\ 0 \in Int
      BY Numbers
    <3>2. Pair(enqueue.ptr, 0) \in Pairs
      BY <3>1, Numbers
    <3> QED
      BY <2>1, <3>2 DEF ReadEnqueuePointer
  <2>2. CASE ReadEnqueueCounter(p, "enq_counter", "next_pointer")
    BY <2>2 DEF ReadEnqueueCounter, Pairs, Stamped
  <2>3. CASE EnqueueReturn(p)
    BY <2>3, Numbers DEF EnqueueReturn, Forget
  <2> QED
    BY <2>1, <2>2, <2>3, ProducerFrames
<1>6. deq' \in [Threads -> Pairs]
  <2>1. CASE EnqueueReturn(p)
    BY <2>1, Numbers DEF EnqueueReturn, Forget
  <2> QED
    BY <2>1, ProducerFrames
<1>7. nxt' \in [Threads -> Pairs]
  <2>1. CASE ReadNextPointer(p, enq[p].ptr, "next_pointer", "next_counter")
    <3>1. enq[p].ptr \in Elements
      BY <1>0, <2>1, Numbers DEF ReadNextPointer, Goto, ProducerInv, Reading
    <3>2. next[enq[p].ptr].ptr \in Elements \cup {NULL} /\ 0 \in Int
      BY <3>1, Numbers
    <3>3. Pair(next[enq[p].ptr].ptr, 0) \in Pairs
      BY <3>2, Numbers
    <3> QED
      BY <2>1, <3>3 DEF ReadNextPointer
  <2>2. CASE ReadNextCounter(p, enq[p].ptr, "next_counter", "check")
    <3>1. enq[p].ptr \in Elements
      BY <1>0, <2>2, Numbers DEF ReadNextCounter, Goto, ProducerInv, Reading
    <3> QED
      BY <2>2, <3>1 DEF ReadNextCounter, Pairs
  <2>3. CASE EnqueueReturn(p)
    BY <2>3, Numbers DEF EnqueueReturn, Forget
  <2> QED
    BY <2>1, <2>2, <2>3, ProducerFrames
<1>8. enqueue' \in Stamped
  <2>1. CASE SwingEnqueue(p, nxt[p].ptr, "help", "enq_pointer")
    <3>1. nxt[p].ptr \in Elements /\ enq[p].ctr + PtrStep \in Int
      BY <1>0, <2>1, Numbers DEF SwingEnqueue, Goto, ProducerInv
    <3> QED
      BY <2>1, <3>1, Numbers DEF SwingEnqueue, Dcas
  <2>2. CASE SwingEnqueue(p, elem[p], "swing", "return_1")
    <3>1. elem[p] \in Elements /\ enq[p].ctr + PtrStep \in Int
      BY <1>0, <2>2, Numbers DEF SwingEnqueue, Goto, ProducerInv
    <3> QED
      BY <2>2, <3>1, Numbers DEF SwingEnqueue, Dcas
  <2> QED
    BY <2>1, <2>2, ProducerFrames
<1>9. dequeue' \in Stamped
  BY ProducerFrames
<1>10. next' \in [Elements -> Pairs]
  <2>1. CASE InitPointer(p)
    BY <2>1, <1>0, PairFields DEF InitPointer
  <2>2. CASE InitCounter(p)
    <3>1. aba_counter' \in Int
      BY <2>2 DEF InitCounter, Increment
    <3> QED
      <4>1. next' = [e \in Elements |-> IF e = elem[p] THEN [next[e] EXCEPT !.ctr = aba_counter']
                                        ELSE next[e]]
        BY <2>2 DEF InitCounter
      <4>2. \A e \in Elements : [next[e] EXCEPT !.ctr = aba_counter'] \in Pairs
        BY <3>1, PairFields
      <4> QED
        BY <4>1, <4>2
  <2>3. CASE LinkElement(p)
    <3>1. elem[p] \in Elements \cup {NULL} /\ nxt[p].ctr + PtrStep \in Int
      BY <1>0, Numbers
    <3>2. Pair(elem[p], nxt[p].ctr + PtrStep) \in Pairs
      BY <3>1, Numbers
    <3> QED
      BY <2>3, <3>2 DEF LinkElement, Dcas
  <2> QED
    BY <2>1, <2>2, <2>3, ProducerFrames
<1>11. user_data' \in [Elements -> AllItems \cup {NoItem}]
  <2>1. CASE InitCounter(p)
    <3>1. Item(p, sent[p]) \in AllItems
      BY <1>0, <2>1, ItemType DEF ProducerInv, InitCounter, Goto
    <3> QED
      BY <2>1, <3>1 DEF InitCounter
  <2> QED
    BY <2>1, ProducerFrames
<1>12. freelist' \in Seq(Elements)
  <2>1. CASE PopElement(p)
    BY <2>1, HeadTailProperties DEF PopElement
  <2> QED
    BY <2>1, ProducerFrames
<1>13. aba_counter' \in Int
  <2>1. CASE InitPointer(p) \/ InitCounter(p)
    BY <2>1 DEF InitPointer, InitCounter, Increment
  <2> QED
    BY <2>1, ProducerFrames
<1> QED
  BY <1>1, <1>2, <1>3, <1>4, <1>5, <1>6, <1>7, <1>8, <1>9, <1>10, <1>11, <1>12, <1>13

LEMMA ConsumerTypes ==
    ASSUME TypesInv, CopiesInv, NEW c \in Consumers, Dequeue(c)
    PROVE  TypesInv'
<1>0. c \in Threads /\ ConsumerInv(c)
  BY DEF Threads, CopiesInv
<1>1. /\ pc' \in [Threads -> ProducerSteps \cup ConsumerSteps]
      /\ \A q \in Producers : pc'[q] \in ProducerSteps
      /\ \A d \in Consumers : pc'[d] \in ConsumerSteps
  BY <1>0, StepTypes
<1> USE DEF TypesInv, SharedTypes, LocalTypes
<1>2. /\ load' \in Loads /\ sent' \in [Producers -> Nat] /\ next' \in [Elements -> Pairs]
      /\ user_data' \in [Elements -> AllItems \cup {NoItem}] /\ aba_counter' \in Int
  BY ConsumerFrames
<1>3. out' \in [Consumers -> AllItems \cup {NoItem}]
  <2>1. CASE ReadUserData(c)
    <3>1. nxt[c].ptr \in Elements
      BY <1>0, <2>1, Numbers DEF ReadUserData, Goto, ConsumerInv
    <3> QED
      BY <2>1, <3>1 DEF ReadUserData
  <2>2. CASE DequeueReturn(c)
    BY <2>2 DEF DequeueReturn
  <2> QED
    BY <2>1, <2>2, ConsumerFrames
<1>4. elem' \in [Threads -> Elements \cup {NULL}]
  <2>1. CASE AdvanceDequeue(c)
    <3>1. deq[c].ptr \in Elements \cup {NULL}
      BY <1>0, Numbers
    <3> QED
      BY <1>0, <2>1, <3>1 DEF AdvanceDequeue
  <2>2. CASE PushElement(c)
    BY <2>2 DEF PushElement
  <2>3. CASE DequeueReturn(c)
    BY <2>3 DEF DequeueReturn, Forget
  <2> QED
    BY <2>1, <2>2, <2>3, ConsumerFrames
<1>5. enq' \in [Threads -> Pairs]
  <2>1. CASE ReadEnqueuePointer(c, "enq_pointer", "enq_counter")
    <3>1. enqueue.ptr \in Elements \cup {NULL} /\ 0 \in Int
      BY Numbers
    <3>2. Pair(enqueue.ptr, 0) \in Pairs
      BY <3>1, Numbers
    <3> QED
      BY <2>1, <3>2 DEF ReadEnqueuePointer
  <2>2. CASE ReadEnqueueCounter(c, "enq_counter", "next_pointer")
    BY <2>2 DEF ReadEnqueueCounter, Pairs, Stamped
  <2>3. CASE DequeueReturn(c)
    BY <2>3, Numbers DEF DequeueReturn, Forget
  <2> QED
    BY <2>1, <2>2, <2>3, ConsumerFrames
<1>6. deq' \in [Threads -> Pairs]
  <2>1. CASE ReadDequeuePointer(c)
    <3>1. Pair(dequeue.ptr, 0) \in Pairs
      BY Numbers
    <3> QED
      BY <2>1, <3>1 DEF ReadDequeuePointer
  <2>2. CASE ReadDequeueCounter(c)
    BY <2>2 DEF ReadDequeueCounter, Pairs, Stamped
  <2>3. CASE DequeueReturn(c)
    BY <2>3, Numbers DEF DequeueReturn, Forget
  <2> QED
    BY <2>1, <2>2, <2>3, ConsumerFrames
<1>7. nxt' \in [Threads -> Pairs]
  <2>1. CASE ReadNextPointer(c, deq[c].ptr, "next_pointer", "next_counter")
    <3>1. deq[c].ptr \in Elements
      BY <1>0, <2>1, Numbers DEF ReadNextPointer, Goto, ConsumerInv, HasDequeue, ConsumerSteps
    <3>2. next[deq[c].ptr].ptr \in Elements \cup {NULL} /\ 0 \in Int
      BY <3>1, Numbers
    <3>3. Pair(next[deq[c].ptr].ptr, 0) \in Pairs
      BY <3>2, Numbers
    <3> QED
      BY <2>1, <3>3 DEF ReadNextPointer
  <2>2. CASE ReadNextCounter(c, deq[c].ptr, "next_counter", "check")
    <3>1. deq[c].ptr \in Elements
      BY <1>0, <2>2, Numbers DEF ReadNextCounter, Goto, ConsumerInv, HasDequeue, ConsumerSteps
    <3> QED
      BY <2>2, <3>1 DEF ReadNextCounter, Pairs
  <2>3. CASE DequeueReturn(c)
    BY <2>3, Numbers DEF DequeueReturn, Forget
  <2> QED
    BY <2>1, <2>2, <2>3, ConsumerFrames
<1>8. enqueue' \in Stamped
  <2>1. CASE SwingEnqueue(c, nxt[c].ptr, "help", "deq_pointer")
    <3>1. nxt[c].ptr \in Elements /\ enq[c].ctr + PtrStep \in Int
      BY <1>0, <2>1, Numbers DEF SwingEnqueue, Goto, ConsumerInv
    <3> QED
      BY <2>1, <3>1, Numbers DEF SwingEnqueue, Dcas
  <2> QED
    BY <2>1, ConsumerFrames
<1>9. dequeue' \in Stamped
  <2>1. CASE AdvanceDequeue(c)
    <3>1. pc[c] = "advance"
      BY <2>1 DEF AdvanceDequeue, Goto
    <3>2. nxt[c].ptr \in Elements /\ deq[c].ctr + PtrStep \in Int
      BY <1>0, <3>1, Numbers DEF ConsumerInv
    <3> QED
      BY <2>1, <3>2, Numbers DEF AdvanceDequeue, Dcas
  <2> QED
    BY <2>1, ConsumerFrames
<1>10. freelist' \in Seq(Elements)
  <2>1. CASE PushElement(c)
    <3>1. elem[c] \in Elements
      BY <1>0, <2>1, Numbers DEF PushElement, Goto, ConsumerInv
    <3> QED
      BY <2>1, <3>1 DEF PushElement
  <2> QED
    BY <2>1, ConsumerFrames
<1> QED
  BY <1>1, <1>2, <1>3, <1>4, <1>5, <1>6, <1>7, <1>8, <1>9, <1>10
-----------------------------------------------------------------------------
(* The copies a thread made *)

\* What a step of thread t does to the words that others have copied: the
\* counters tell whether qs->enqueue or qs->dequeue moved, and a link of the
\* first or last element stays.
SharedMove(t) ==
    /\ \/ enqueue' = enqueue
       \/ enqueue'.ctr > enqueue.ctr /\ enqueue'.ptr # dequeue.ptr
    /\ dequeue' = dequeue \/ dequeue'.ctr > dequeue.ctr
    /\ \A x \in {enqueue.ptr, dequeue.ptr} : next[x].ptr # NULL =>
          /\ next'[x].ptr = next[x].ptr
          /\ user_data'[next[x].ptr] = user_data[next[x].ptr]
    /\ \A p \in Producers \ {t} : pc[p] \in Unlinked \ {"init_counter"} =>
          user_data'[elem[p]] = user_data[elem[p]]
    /\ load' = load
    /\ \A p \in Producers \ {t} : sent'[p] = sent[p]
    /\ \A c \in Consumers \ {t} : out'[c] = out[c]

LEMMA OtherProducer ==
    ASSUME TypesInv, TypesInv', NEW t \in Threads, Others(t), SharedMove(t),
           NEW p \in Producers \ {t}, ProducerInv(p)
    PROVE  ProducerInv(p)'
<1>0. p \in Producers /\ p \in Threads \ {t}
  BY DEF Threads
<1>1. /\ pc'[p] = pc[p] /\ elem'[p] = elem[p] /\ enq'[p] = enq[p] /\ nxt'[p] = nxt[p]
      /\ sent'[p] = sent[p] /\ load' = load
  BY <1>0 DEF Others, SharedMove
<1>2. /\ enqueue.ctr \in Int /\ enqueue'.ctr \in Int /\ enq[p].ctr \in Int
  BY <1>0, Numbers DEF TypesInv, SharedTypes, LocalTypes, Pairs, Stamped
<1>3. enqueue' = enqueue \/ enqueue'.ctr > enqueue.ctr
  BY DEF SharedMove
<1>4. (sent[p] <= load[p])'
  BY <1>1 DEF ProducerInv
<1>5. (pc[p] # "idle" => sent[p] >= 1)'
  BY <1>1 DEF ProducerInv
<1>6. (Holding(p) \/ pc[p] \in {"swing", "return_1"} => elem[p] # NULL)'
  BY <1>1 DEF ProducerInv, Holding, Alone
<1>7. (pc[p] \in {"idle", "pop", "return_0"} => elem[p] = NULL)'
  BY <1>1 DEF ProducerInv
<1>8. (pc[p] \in Reading \cup {"swing"} => enq[p].ptr # NULL)'
  BY <1>1 DEF ProducerInv
<1>9. (pc[p] \in HasEnqueue => enq[p].ctr <= enqueue.ctr)'
  BY <1>1, <1>2, <1>3 DEF ProducerInv
<1>10. (pc[p] \in Unlinked \ {"init_counter"} => user_data[elem[p]] = Item(p, sent[p]))'
  BY <1>1 DEF ProducerInv, SharedMove
<1>11. (pc[p] = "link" => nxt[p].ptr = NULL)'
  BY <1>1 DEF ProducerInv
<1>12. (pc[p] = "help" => nxt[p].ptr # NULL)'
  BY <1>1 DEF ProducerInv
<1>13. pc[p] \in HasEnqueue /\ enqueue' = enq[p] => enqueue' = enqueue
  BY <1>2, <1>3 DEF ProducerInv
<1>14. (pc[p] \in HasNext /\ enqueue = enq[p] /\ nxt[p].ptr # NULL =>
          next[enqueue.ptr].ptr = nxt[p].ptr)'
  BY <1>1, <1>13 DEF ProducerInv, SharedMove, HasNext, HasEnqueue
<1>15. (pc[p] = "swing" /\ enqueue = enq[p] => next[enqueue.ptr].ptr = elem[p])'
  <2>1. pc[p] = "swing" => elem[p] # NULL
    BY DEF ProducerInv
  <2> QED
    BY <1>1, <1>13, <2>1 DEF ProducerInv, SharedMove, HasEnqueue
<1> QED
  BY <1>4, <1>5, <1>6, <1>7, <1>8, <1>9, <1>10, <1>11, <1>12, <1>14, <1>15
     DEF ProducerInv

LEMMA OtherConsumer ==
    ASSUME TypesInv, TypesInv', NEW t \in Threads, Others(t), SharedMove(t),
           NEW c \in Consumers \ {t}, ConsumerInv(c)
    PROVE  ConsumerInv(c)'
<1>0. c \in Consumers /\ c \in Threads \ {t}
  BY DEF Threads
<1>1. /\ pc'[c] = pc[c] /\ elem'[c] = elem[c] /\ enq'[c] = enq[c] /\ nxt'[c] = nxt[c]
      /\ deq'[c] = deq[c] /\ out'[c] = out[c]
  BY <1>0 DEF Others, SharedMove
<1>2. /\ enqueue.ctr \in Int /\ enqueue'.ctr \in Int /\ enq[c].ctr \in Int
      /\ dequeue.ctr \in Int /\ dequeue'.ctr \in Int /\ deq[c].ctr \in Int
  BY <1>0, Numbers DEF TypesInv, SharedTypes, LocalTypes, Pairs, Stamped
<1>3. /\ enqueue' = enqueue \/ enqueue'.ctr > enqueue.ctr
      /\ dequeue' = dequeue \/ dequeue'.ctr > dequeue.ctr
  BY DEF SharedMove
<1>4. (elem[c] # NULL <=> pc[c] = "push")'
  BY <1>1 DEF ConsumerInv
<1>5. (pc[c] \in HasDequeue \cup {"deq_counter"} => deq[c].ptr # NULL)'
  BY <1>1 DEF ConsumerInv
<1>6. (pc[c] \in HasDequeue => deq[c].ctr <= dequeue.ctr)'
  BY <1>1, <1>2, <1>3 DEF ConsumerInv
<1>7. (pc[c] \in HasEnqueue => enq[c].ctr <= enqueue.ctr)'
  BY <1>1, <1>2, <1>3 DEF ConsumerInv
<1>8. (pc[c] = "help" => enq[c].ptr = deq[c].ptr /\ nxt[c].ptr # NULL)'
  BY <1>1 DEF ConsumerInv
<1>9. (pc[c] \in {"user_data", "advance"} => enq[c].ptr # deq[c].ptr /\ nxt[c].ptr # NULL)'
  BY <1>1 DEF ConsumerInv
<1>10. (pc[c] = "check_counter" /\ dequeue.ctr = deq[c].ctr => dequeue.ptr = deq[c].ptr)'
  BY <1>1, <1>2, <1>3 DEF ConsumerInv, HasDequeue, ConsumerSteps
<1>11. pc[c] \in HasEnqueue /\ enqueue' = enq[c] => enqueue' = enqueue
  BY <1>2, <1>3 DEF ConsumerInv
<1>12. pc[c] \in HasDequeue /\ dequeue' = deq[c] => dequeue' = dequeue
  BY <1>2, <1>3 DEF ConsumerInv
<1>13. (pc[c] \in HasNext /\ enqueue = enq[c] /\ enq[c].ptr = deq[c].ptr
        /\ nxt[c].ptr # NULL => next[enqueue.ptr].ptr = nxt[c].ptr)'
  BY <1>1, <1>11 DEF ConsumerInv, SharedMove, HasNext, HasEnqueue
<1>14. (pc[c] \in HasDequeue /\ dequeue = deq[c] =>
          /\ pc[c] # "enq_pointer" /\ enq[c].ptr # deq[c].ptr =>
                enqueue.ptr # dequeue.ptr
          /\ pc[c] \in HasNext \cup {"user_data", "advance"} /\ nxt[c].ptr # NULL =>
                next[dequeue.ptr].ptr = nxt[c].ptr
          /\ pc[c] \in HasNext /\ enq[c].ptr # deq[c].ptr => nxt[c].ptr # NULL
          /\ pc[c] = "advance" => out[c] = user_data[nxt[c].ptr])'
  <2> SUFFICES ASSUME pc[c] \in HasDequeue, dequeue' = deq[c]
               PROVE  (/\ pc[c] # "enq_pointer" /\ enq[c].ptr # deq[c].ptr =>
                            enqueue.ptr # dequeue.ptr
                       /\ pc[c] \in HasNext \cup {"user_data", "advance"}
                          /\ nxt[c].ptr # NULL => next[dequeue.ptr].ptr = nxt[c].ptr
                       /\ pc[c] \in HasNext /\ enq[c].ptr # deq[c].ptr => nxt[c].ptr # NULL
                       /\ pc[c] = "advance" => out[c] = user_data[nxt[c].ptr])'
    BY <1>1
  <2>1. dequeue' = dequeue /\ dequeue = deq[c]
    BY <1>12
  <2>2. (pc[c] # "enq_pointer" /\ enq[c].ptr # deq[c].ptr => enqueue.ptr # dequeue.ptr)'
    BY <1>1, <2>1 DEF ConsumerInv, SharedMove
  <2>3. (pc[c] \in HasNext \cup {"user_data", "advance"} /\ nxt[c].ptr # NULL =>
            next[dequeue.ptr].ptr = nxt[c].ptr)'
    BY <1>1, <2>1 DEF ConsumerInv, SharedMove
  <2>4. (pc[c] \in HasNext /\ enq[c].ptr # deq[c].ptr => nxt[c].ptr # NULL)'
    BY <1>1, <2>1 DEF ConsumerInv
  <2>5. (pc[c] = "advance" => out[c] = user_data[nxt[c].ptr])'
    BY <1>1, <2>1 DEF ConsumerInv, SharedMove
  <2> QED
    BY <2>2, <2>3, <2>4, <2>5
<1> QED
  BY <1>4, <1>5, <1>6, <1>7, <1>8, <1>9, <1>10, <1>13, <1>14 DEF ConsumerInv

\* What the places say of the words that are shared
LEMMA QueueFacts ==
    ASSUME TypesInv, NEW L \in [Places -> Seq(Elements)], PlaceInv(L), ListInv(L)
    PROVE  /\ Len(L[Queue]) \in Nat
           /\ \A k \in 1..Len(L[Queue]) : L[Queue][k] \in Elements
           /\ \A x \in {enqueue.ptr, dequeue.ptr} : \E k \in 1..Len(L[Queue]) :
                /\ x = L[Queue][k]
                /\ next[x].ptr # NULL => /\ k + 1 \in 1..Len(L[Queue])
                                         /\ next[x].ptr = L[Queue][k + 1]
           /\ \A t \in Threads : Holding(t) =>
                \A k \in 1..Len(L[Queue]) : elem[t] # L[Queue][k]
           /\ \A t \in Threads, u \in Threads :
                Holding(t) /\ Holding(u) /\ t # u => elem[t] # elem[u]
           /\ \A j \in 1..Len(L[Queue]), k \in 1..Len(L[Queue]) :
                L[Queue][j] = L[Queue][k] => j = k
<1>1. L[Queue] \in Seq(Elements) /\ Queue \in Places /\ Len(L[Queue]) \in Nat
  BY PlacesDiffer
<1>2. \A k \in 1..Len(L[Queue]) : L[Queue][k] \in Elements
  BY <1>1, ElementOfSeq
<1>3. ASSUME NEW k \in 1..Len(L[Queue]), next[L[Queue][k]].ptr # NULL
      PROVE  k + 1 \in 1..Len(L[Queue]) /\ next[L[Queue][k]].ptr = L[Queue][k + 1]
  BY <1>1, <1>3 DEF ListInv, Linked
<1>4. \E k \in 1..Len(L[Queue]) : enqueue.ptr = L[Queue][k]
  BY DEF ListInv
<1>5. \E k \in 1..Len(L[Queue]) : dequeue.ptr = L[Queue][k]
  <2>1. 1 \in 1..Len(L[Queue]) /\ L[Queue][1] = dequeue.ptr
    BY <1>1 DEF ListInv
  <2> QED
    BY <2>1
<1>6. \A x \in {enqueue.ptr, dequeue.ptr} : \E k \in 1..Len(L[Queue]) :
         /\ x = L[Queue][k]
         /\ next[x].ptr # NULL => /\ k + 1 \in 1..Len(L[Queue])
                                  /\ next[x].ptr = L[Queue][k + 1]
  BY <1>3, <1>4, <1>5
<1>7. ASSUME NEW t \in Threads, Holding(t)
      PROVE  /\ At(t) \in Places /\ At(t) # Queue
             /\ 1 \in 1..Len(L[At(t)]) /\ L[At(t)][1] = elem[t]
  <2>1. At(t) \in Places /\ At(t) # Queue /\ L[At(t)] \in Seq(Elements)
    BY PlacesDiffer
  <2>2. Len(L[At(t)]) >= 1 /\ L[At(t)][1] = elem[t] /\ Len(L[At(t)]) \in Nat
    BY <1>7, <2>1 DEF PlaceInv, HeldInv
  <2> QED
    BY <2>1, <2>2
<1>8. \A t \in Threads : Holding(t) => \A k \in 1..Len(L[Queue]) : elem[t] # L[Queue][k]
  BY <1>1, <1>7 DEF PlaceInv, OnePlace
<1>9. \A t \in Threads, u \in Threads :
         Holding(t) /\ Holding(u) /\ t # u => elem[t] # elem[u]
  <2> SUFFICES ASSUME NEW t \in Threads, NEW u \in Threads, Holding(t), Holding(u),
                      elem[t] = elem[u]
               PROVE  t = u
    OBVIOUS
  <2>1. At(t) = At(u)
    BY <1>7 DEF PlaceInv, OnePlace
  <2> QED
    BY <2>1, PlacesDiffer
<1>10. \A j \in 1..Len(L[Queue]), k \in 1..Len(L[Queue]) :
          L[Queue][j] = L[Queue][k] => j = k
  BY <1>1 DEF PlaceInv, OnePlace
<1> QED
  BY <1>1, <1>2, <1>6, <1>8, <1>9, <1>10

\* qs->enqueue moves to the successor of the element it pointed to.
LEMMA SwingMoves ==
    ASSUME TypesInv, TypesInv', NEW L \in [Places -> Seq(Elements)], PlaceInv(L), ListInv(L),
           NEW t \in Threads, NEW e, NEW from, NEW to, SwingEnqueue(t, e, from, to),
           e # NULL, enqueue = enq[t] => next[enqueue.ptr].ptr = e
    PROVE  /\ \/ enqueue' = enqueue
              \/ enqueue'.ctr > enqueue.ctr /\ enqueue'.ptr # dequeue.ptr
           /\ \E k \in 1..Len(L[Queue]) : L[Queue][k] = enqueue'.ptr
<1>1. CASE enqueue # enq[t]
  BY <1>1 DEF SwingEnqueue, Dcas, ListInv
<1>2. CASE enqueue = enq[t]
  <2>1. enqueue' = Pair(e, enqueue.ctr + PtrStep)
    BY <1>2 DEF SwingEnqueue, Dcas
  <2>2. enqueue'.ptr = e /\ enqueue'.ctr > enqueue.ctr
    <3>1. enqueue.ctr \in Int
      BY Numbers DEF TypesInv, SharedTypes
    <3> QED
      BY <2>1, <3>1, Numbers
  <2>3. PICK k \in 1..Len(L[Queue]) : k + 1 \in 1..Len(L[Queue]) /\ e = L[Queue][k + 1]
    BY <1>2, QueueFacts
  <2>4. k + 1 # 1 /\ 1 \in 1..Len(L[Queue]) /\ dequeue.ptr = L[Queue][1]
    BY <2>3, QueueFacts DEF ListInv
  <2>5. e # dequeue.ptr
    BY <2>3, <2>4, QueueFacts
  <2> QED
    BY <2>2, <2>3, <2>5
<1> QED
  BY <1>1, <1>2

LEMMA ProducerShared ==
    ASSUME TypesInv, TypesInv', CopiesInv, NEW L \in [Places -> Seq(Elements)],
           PlaceInv(L), ListInv(L), NEW p \in Producers, Enqueue(p)
    PROVE  SharedMove(p)
<1>0. p \in Threads /\ ProducerInv(p)
  BY DEF Threads, CopiesInv
<1>1. \/ enqueue' = enqueue
      \/ enqueue'.ctr > enqueue.ctr /\ enqueue'.ptr # dequeue.ptr
  <2>1. CASE SwingEnqueue(p, nxt[p].ptr, "help", "enq_pointer")
    <3>1. nxt[p].ptr # NULL /\ (enqueue = enq[p] => next[enqueue.ptr].ptr = nxt[p].ptr)
      BY <1>0, <2>1 DEF ProducerInv, HasNext, SwingEnqueue, Goto
    <3> QED
      BY <1>0, <2>1, <3>1, SwingMoves
  <2>2. CASE SwingEnqueue(p, elem[p], "swing", "return_1")
    <3>1. elem[p] # NULL /\ (enqueue = enq[p] => next[enqueue.ptr].ptr = elem[p])
      BY <1>0, <2>2 DEF ProducerInv, SwingEnqueue, Goto
    <3> QED
      BY <1>0, <2>2, <3>1, SwingMoves
  <2> QED
    BY <2>1, <2>2, ProducerFrames
<1>2. \A x \in {enqueue.ptr, dequeue.ptr} : next[x].ptr # NULL =>
          next'[x].ptr = next[x].ptr
  <2> SUFFICES ASSUME NEW x \in {enqueue.ptr, dequeue.ptr}, next[x].ptr # NULL
               PROVE  next'[x].ptr = next[x].ptr
    OBVIOUS
  <2>0. x \in Elements /\ next[x] \in Pairs /\ next \in [Elements -> Pairs]
    BY Numbers DEF TypesInv, SharedTypes
  <2>1. CASE InitPointer(p)
    <3>1. elem[p] # x
      BY <1>0, <2>1, QueueFacts, SMTT(30) DEF Holding, Alone, InitPointer, Goto
    <3> QED
      BY <2>0, <2>1, <3>1 DEF InitPointer
  <2>2. CASE InitCounter(p)
    BY <2>0, <2>2 DEF InitCounter, Pairs
  <2>3. CASE LinkElement(p)
    <3>1. next[enq[p].ptr] = nxt[p] => enq[p].ptr # x
      BY <1>0, <2>3 DEF ProducerInv, LinkElement
    <3> QED
      BY <2>0, <2>3, <3>1 DEF LinkElement, Dcas
  <2> QED
    BY <2>1, <2>2, <2>3, ProducerFrames
<1>3. \A x \in {enqueue.ptr, dequeue.ptr} : next[x].ptr # NULL =>
          user_data'[next[x].ptr] = user_data[next[x].ptr]
  <2>1. CASE InitCounter(p)
    <3>1. Holding(p)
      BY <2>1 DEF Holding, InitCounter, Goto, Unlinked
    <3>2. \A x \in {enqueue.ptr, dequeue.ptr} : next[x].ptr # NULL =>
             next[x].ptr # elem[p]
      BY <1>0, <3>1, QueueFacts
    <3>3. user_data' = [user_data EXCEPT ![elem[p]] = Item(p, sent[p])]
      BY <2>1 DEF InitCounter
    <3> QED
      BY <3>2, <3>3 DEF TypesInv, SharedTypes
  <2> QED
    BY <2>1, ProducerFrames
<1>4. \A q \in Producers \ {p} : pc[q] \in Unlinked \ {"init_counter"} =>
          user_data'[elem[q]] = user_data[elem[q]]
  <2>1. CASE InitCounter(p)
    <3>1. Holding(p)
      BY <2>1 DEF Holding, InitCounter, Goto, Unlinked
    <3>2. \A q \in Producers \ {p} : pc[q] \in Unlinked =>
             q \in Threads /\ Holding(q) /\ elem[q] # elem[p]
      BY <1>0, <3>1, QueueFacts DEF Holding, Threads
    <3>3. user_data' = [user_data EXCEPT ![elem[p]] = Item(p, sent[p])]
      BY <2>1 DEF InitCounter
    <3> QED
      BY <3>2, <3>3 DEF TypesInv, SharedTypes
  <2> QED
    BY <2>1, ProducerFrames
<1>5. \A q \in Producers \ {p} : sent'[q] = sent[q]
  <2>1. CASE EnqueueCall(p)
    BY <2>1 DEF EnqueueCall, TypesInv, LocalTypes
  <2> QED
    BY <2>1, ProducerFrames
<1>6. load' = load /\ out' = out /\ dequeue' = dequeue
  BY ProducerFrames
<1> QED
  BY <1>1, <1>2, <1>3, <1>4, <1>5, <1>6 DEF SharedMove

LEMMA ConsumerShared ==
    ASSUME TypesInv, TypesInv', CopiesInv, NEW L \in [Places -> Seq(Elements)],
           PlaceInv(L), ListInv(L), NEW c \in Consumers, Dequeue(c)
    PROVE  SharedMove(c)
<1>0. c \in Threads /\ ConsumerInv(c)
  BY DEF Threads, CopiesInv
<1>1. \/ enqueue' = enqueue
      \/ enqueue'.ctr > enqueue.ctr /\ enqueue'.ptr # dequeue.ptr
  <2>1. CASE SwingEnqueue(c, nxt[c].ptr, "help", "deq_pointer")
    <3>1. nxt[c].ptr # NULL /\ (enqueue = enq[c] => next[enqueue.ptr].ptr = nxt[c].ptr)
      BY <1>0, <2>1 DEF ConsumerInv, HasNext, SwingEnqueue, Goto
    <3> QED
      BY <1>0, <2>1, <3>1, SwingMoves
  <2> QED
    BY <2>1, ConsumerFrames
<1>2. dequeue' = dequeue \/ dequeue'.ctr > dequeue.ctr
  <2>1. CASE AdvanceDequeue(c)
    <3>1. dequeue.ctr \in Int
      BY Numbers DEF TypesInv, SharedTypes
    <3>2. dequeue' = Dcas(dequeue, Pair(nxt[c].ptr, deq[c].ctr + PtrStep), deq[c])
      BY <2>1 DEF AdvanceDequeue
    <3> QED
      BY <3>1, <3>2, Numbers DEF Dcas
  <2> QED
    BY <2>1, ConsumerFrames
<1>3. next' = next /\ user_data' = user_data /\ load' = load /\ sent' = sent
  BY ConsumerFrames
<1>4. \A d \in Consumers \ {c} : out'[d] = out[d]
  <2>1. CASE ReadUserData(c)
    BY <2>1 DEF ReadUserData, TypesInv, LocalTypes
  <2>2. CASE DequeueReturn(c)
    BY <2>2 DEF DequeueReturn, TypesInv, LocalTypes
  <2> QED
    BY <2>1, <2>2, ConsumerFrames
<1> QED
  BY <1>1, <1>2, <1>3, <1>4 DEF SharedMove

LEMMA ProducerOwn ==
    ASSUME TypesInv, TypesInv', NEW p \in Producers, ProducerInv(p), Enqueue(p)
    PROVE  ProducerInv(p)'
<1>0. /\ p \in Threads /\ LocalTypes /\ sent[p] \in Nat /\ load[p] \in Nat
      /\ elem[p] \in Elements \cup {NULL} /\ enq[p] \in Pairs /\ nxt[p] \in Pairs
      /\ enqueue \in Stamped /\ enqueue.ctr \in Int /\ enqueue.ptr # NULL
      /\ next \in [Elements -> Pairs]
      /\ user_data \in [Elements -> AllItems \cup {NoItem}]
  BY LfdsQueueAssumption, Numbers, SMTT(30) DEF TypesInv, SharedTypes, LocalTypes, Threads
<1>1. CASE EnqueueCall(p)
  <2>1. UNCHANGED <<load, enqueue, next, user_data>>
    BY <1>1 DEF EnqueueCall, shared, local
  <2>2. sent'[p] = sent[p] + 1 /\ sent[p] < load[p]
    BY <1>0, <1>1 DEF EnqueueCall, LocalTypes
  <2> QED
    BY <1>0, <1>1, <2>1, <2>2, ProducerEffects, Numbers
       DEF Moves, Step, ProducerInv, Holding, Alone, Unlinked, Reading, HasEnqueue, HasNext
<1>2. CASE PopFails(p)
  <2>1. UNCHANGED <<sent, load, enqueue, next, user_data>>
    BY <1>2 DEF PopFails, shared, local
  <2> QED
    BY <1>0, <1>2, <2>1, ProducerEffects, Numbers
       DEF Moves, Step, ProducerInv, Holding, Alone, Unlinked, Reading, HasEnqueue, HasNext
<1>3. CASE InitPointer(p)
  <2>1. UNCHANGED <<sent, load, enqueue, user_data>>
    BY <1>3 DEF InitPointer, shared, local
  <2> QED
    BY <1>0, <1>3, <2>1, ProducerEffects, Numbers
       DEF Moves, Step, ProducerInv, Holding, Alone, Unlinked, Reading, HasEnqueue, HasNext
<1>4. CASE ReadEnqueuePointer(p, "enq_pointer", "enq_counter")
  <2>1. UNCHANGED <<sent, load, enqueue, next, user_data>>
    BY <1>4 DEF ReadEnqueuePointer, shared, local
  <2> QED
    BY <1>0, <1>4, <2>1, ProducerEffects, Numbers
       DEF Moves, Step, ProducerInv, Holding, Alone, Unlinked, Reading, HasEnqueue, HasNext
<1>5. CASE ReadEnqueueCounter(p, "enq_counter", "next_pointer")
  <2>1. UNCHANGED <<sent, load, enqueue, next, user_data>>
    BY <1>5 DEF ReadEnqueueCounter, shared, local
  <2> QED
    BY <1>0, <1>5, <2>1, ProducerEffects, Numbers
       DEF Moves, Step, ProducerInv, Holding, Alone, Unlinked, Reading, HasEnqueue, HasNext
<1>6. CASE ReadNextPointer(p, enq[p].ptr, "next_pointer", "next_counter")
  <2>1. UNCHANGED <<sent, load, enqueue, next, user_data>>
    BY <1>6 DEF ReadNextPointer, shared, local
  <2> QED
    BY <1>0, <1>6, <2>1, ProducerEffects, Numbers, SMTT(30)
       DEF Moves, Step, ProducerInv, Holding, Alone, Unlinked, Reading, HasEnqueue, HasNext
<1>7. CASE ReadNextCounter(p, enq[p].ptr, "next_counter", "check")
  <2>1. UNCHANGED <<sent, load, enqueue, next, user_data>>
    BY <1>7 DEF ReadNextCounter, shared, local
  <2> QED
    BY <1>0, <1>7, <2>1, ProducerEffects, Numbers
       DEF Moves, Step, ProducerInv, Holding, Alone, Unlinked, Reading, HasEnqueue, HasNext
<1>8. CASE CheckEnqueuePointer(p)
  <2>1. UNCHANGED <<sent, load, enqueue, next, user_data>>
    BY <1>8 DEF CheckEnqueuePointer, shared, local
  <2> QED
    BY <1>0, <1>8, <2>1, ProducerEffects, Numbers
       DEF Moves, Step, ProducerInv, Holding, Alone, Unlinked, Reading, HasEnqueue, HasNext
<1>9. CASE CheckEnqueue(p)
  <2>1. UNCHANGED <<sent, load, enqueue, next, user_data>>
    BY <1>9 DEF CheckEnqueue, shared, local
  <2> QED
    BY <1>0, <1>9, <2>1, ProducerEffects, Numbers
       DEF Moves, Step, ProducerInv, Holding, Alone, Unlinked, Reading, HasEnqueue, HasNext
<1>10. CASE EnqueueReturn(p)
  <2>1. UNCHANGED <<sent, load, enqueue, next, user_data>>
    BY <1>10 DEF EnqueueReturn, shared, local
  <2> QED
    BY <1>0, <1>10, <2>1, ProducerEffects, Numbers
       DEF Moves, Step, ProducerInv, Holding, Alone, Unlinked, Reading, HasEnqueue, HasNext
<1>11. CASE SwingEnqueue(p, nxt[p].ptr, "help", "enq_pointer")
  <2>1. UNCHANGED <<sent, load, next, user_data>>
    BY <1>11 DEF SwingEnqueue, shared, local
  <2> QED
    BY <1>0, <1>11, <2>1, ProducerEffects, Numbers
       DEF Moves, Step, ProducerInv, Holding, Alone, Unlinked, Reading, HasEnqueue, HasNext
<1>12. CASE SwingEnqueue(p, elem[p], "swing", "return_1")
  <2>1. UNCHANGED <<sent, load, next, user_data>>
    BY <1>12 DEF SwingEnqueue, shared, local
  <2> QED
    BY <1>0, <1>12, <2>1, ProducerEffects, Numbers
       DEF Moves, Step, ProducerInv, Holding, Alone, Unlinked, Reading, HasEnqueue, HasNext
<1>13. CASE PopElement(p)
  <2>1. UNCHANGED <<sent, load, enqueue, next, user_data>>
    BY <1>13 DEF PopElement
  <2>2. Head(freelist) \in Elements
    BY <1>13, HeadTailProperties DEF PopElement, TypesInv, SharedTypes
  <2> QED
    BY <1>0, <1>13, <2>1, <2>2, ProducerEffects, Numbers
       DEF Moves, Step, ProducerInv, Holding, Alone, Unlinked, Reading, HasEnqueue, HasNext
<1>14. CASE InitCounter(p)
  <2>1. UNCHANGED <<sent, load, enqueue>>
    BY <1>14 DEF InitCounter, local
  <2>2. elem[p] \in Elements
    BY <1>0, <1>14 DEF ProducerInv, InitCounter, Goto, Holding, Unlinked
  <2>3. user_data'[elem[p]] = Item(p, sent[p])
    BY <1>0, <1>14, <2>2 DEF InitCounter
  <2> QED
    BY <1>0, <1>14, <2>1, <2>2, <2>3, ProducerEffects
       DEF Moves, Step, ProducerInv, Holding, Alone, Unlinked, Reading, HasEnqueue, HasNext
<1>15. CASE LinkElement(p)
  <2>1. UNCHANGED <<sent, load, enqueue, user_data>>
    BY <1>15 DEF LinkElement, local
  <2>2. enq[p].ptr \in Elements /\ pc[p] = "link"
    BY <1>0, <1>15, Numbers DEF ProducerInv, LinkElement, Reading
  <2>3. next[enq[p].ptr] = nxt[p] => next'[enq[p].ptr].ptr = elem[p]
    BY <1>0, <1>15, <2>2, Numbers DEF LinkElement, Dcas
  <2>4. enq[p].ctr <= enqueue.ctr
    BY <2>2 DEF ProducerInv, HasEnqueue
  <2> QED
    BY <1>0, <1>15, <2>1, <2>2, <2>3, <2>4, ProducerEffects
       DEF Moves, Step, ProducerInv, Holding, Alone, Unlinked, Reading, HasEnqueue, HasNext
<1> QED
  BY <1>1, <1>2, <1>3, <1>4, <1>5, <1>6, <1>7, <1>8, <1>9, <1>10, <1>11, <1>12,
     <1>13, <1>14, <1>15 DEF Enqueue

\* The first element of the queue is not the last.
LEMMA FirstHasNext ==
    ASSUME TypesInv, NEW L \in [Places -> Seq(Elements)], PlaceInv(L), ListInv(L),
           enqueue.ptr # dequeue.ptr
    PROVE  next[dequeue.ptr].ptr # NULL
<1>1. Len(L[Queue]) \in Nat /\ Len(L[Queue]) >= 1 /\ L[Queue][1] = dequeue.ptr
  BY QueueFacts DEF ListInv
<1>2. PICK k \in 1..Len(L[Queue]) : L[Queue][k] = enqueue.ptr
  BY DEF ListInv
<1>3. 1 \in 1..Len(L[Queue]) /\ 1 < Len(L[Queue]) /\ 2 \in 1..Len(L[Queue])
  BY <1>1, <1>2
<1>4. next[dequeue.ptr].ptr = L[Queue][2]
  BY <1>1, <1>3 DEF ListInv, Linked
<1> QED
  BY <1>3, <1>4, QueueFacts, Numbers, SMTT(30)

LEMMA ConsumerOwn ==
    ASSUME TypesInv, TypesInv', NEW L \in [Places -> Seq(Elements)], PlaceInv(L), ListInv(L),
           NEW c \in Consumers, ConsumerInv(c), Dequeue(c)
    PROVE  ConsumerInv(c)'
<1>0. /\ c \in Threads /\ LocalTypes
      /\ elem[c] \in Elements \cup {NULL} /\ enq[c] \in Pairs /\ nxt[c] \in Pairs
      /\ deq[c] \in Pairs /\ dequeue \in Stamped /\ dequeue.ctr \in Int /\ dequeue.ptr # NULL
      /\ enqueue \in Stamped /\ enqueue.ctr \in Int /\ enqueue.ptr # NULL
  BY Numbers DEF TypesInv, SharedTypes, LocalTypes, Threads
<1>1. CASE DequeueCall(c)
  <2>1. UNCHANGED <<enqueue, dequeue, next, user_data, out>>
    BY <1>1 DEF DequeueCall, shared, local
  <2> QED
    BY <1>0, <1>1, <2>1, ConsumerEffects, Numbers
       DEF Moves, Step, ConsumerInv, HasDequeue, HasEnqueue,
           HasNext, ConsumerSteps
<1>2. CASE ReadDequeuePointer(c)
  <2>1. UNCHANGED <<enqueue, dequeue, next, user_data, out>>
    BY <1>2 DEF ReadDequeuePointer, shared, local
  <2> QED
    BY <1>0, <1>2, <2>1, ConsumerEffects, Numbers
       DEF Moves, Step, ConsumerInv, HasDequeue, HasEnqueue,
           HasNext, ConsumerSteps
<1>3. CASE ReadDequeueCounter(c)
  <2>1. UNCHANGED <<enqueue, dequeue, next, user_data, out>>
    BY <1>3 DEF ReadDequeueCounter, shared, local
  <2> QED
    BY <1>0, <1>3, <2>1, ConsumerEffects, Numbers
       DEF Moves, Step, ConsumerInv, HasDequeue, HasEnqueue,
           HasNext, ConsumerSteps
<1>4. CASE ReadEnqueuePointer(c, "enq_pointer", "enq_counter")
  <2>1. UNCHANGED <<enqueue, dequeue, next, user_data, out>>
    BY <1>4 DEF ReadEnqueuePointer, shared, local
  <2> QED
    BY <1>0, <1>4, <2>1, ConsumerEffects, Numbers, SMTT(30)
       DEF Moves, Step, ConsumerInv, HasDequeue, HasEnqueue,
           HasNext, ConsumerSteps
<1>5. CASE ReadEnqueueCounter(c, "enq_counter", "next_pointer")
  <2>1. UNCHANGED <<enqueue, dequeue, next, user_data, out>>
    BY <1>5 DEF ReadEnqueueCounter, shared, local
  <2> QED
    BY <1>0, <1>5, <2>1, ConsumerEffects, Numbers
       DEF Moves, Step, ConsumerInv, HasDequeue, HasEnqueue,
           HasNext, ConsumerSteps
<1>6. CASE ReadNextPointer(c, deq[c].ptr, "next_pointer", "next_counter")
  <2>1. UNCHANGED <<enqueue, dequeue, next, user_data, out>>
    BY <1>6 DEF ReadNextPointer, shared, local
  <2>2. enqueue.ptr # dequeue.ptr => next[dequeue.ptr].ptr # NULL
    BY FirstHasNext
  <2> QED
    BY <1>0, <1>6, <2>1, <2>2, ConsumerEffects, Numbers, SMTT(30)
       DEF Moves, Step, ConsumerInv, HasDequeue, HasEnqueue,
           HasNext, ConsumerSteps
<1>7. CASE ReadNextCounter(c, deq[c].ptr, "next_counter", "check")
  <2>1. UNCHANGED <<enqueue, dequeue, next, user_data, out>>
    BY <1>7 DEF ReadNextCounter, shared, local
  <2> QED
    BY <1>0, <1>7, <2>1, ConsumerEffects, Numbers, SMTT(30)
       DEF Moves, Step, ConsumerInv, HasDequeue, HasEnqueue,
           HasNext, ConsumerSteps
<1>8. CASE CheckDequeuePointer(c)
  <2>1. UNCHANGED <<enqueue, dequeue, next, user_data, out>>
    BY <1>8 DEF CheckDequeuePointer, shared, local
  <2> QED
    BY <1>0, <1>8, <2>1, ConsumerEffects, Numbers
       DEF Moves, Step, ConsumerInv, HasDequeue, HasEnqueue,
           HasNext, ConsumerSteps
<1>9. CASE CheckDequeue(c)
  <2>1. UNCHANGED <<enqueue, dequeue, next, user_data, out>>
    BY <1>9 DEF CheckDequeue, shared, local
  <2>2. dequeue.ptr = deq[c].ptr /\ dequeue.ctr = deq[c].ctr => dequeue = deq[c]
    BY <1>0, Numbers
  <2> QED
    BY <1>0, <1>9, <2>1, <2>2, ConsumerEffects, Numbers
       DEF Moves, Step, ConsumerInv, HasDequeue, HasEnqueue,
           HasNext, ConsumerSteps
<1>10. CASE SwingEnqueue(c, nxt[c].ptr, "help", "deq_pointer")
  <2>1. UNCHANGED <<dequeue, next, user_data, out>>
    BY <1>10 DEF SwingEnqueue, shared, local
  <2> QED
    BY <1>0, <1>10, <2>1, ConsumerEffects, Numbers
       DEF Moves, Step, ConsumerInv, HasDequeue, HasEnqueue,
           HasNext, ConsumerSteps
<1>11. CASE ReadUserData(c)
  <2>1. UNCHANGED <<enqueue, dequeue, next, user_data>>
    BY <1>11 DEF ReadUserData, shared, local
  <2>2. out'[c] = user_data[nxt[c].ptr]
    BY <1>11 DEF ReadUserData, TypesInv, LocalTypes
  <2> QED
    BY <1>0, <1>11, <2>1, <2>2, ConsumerEffects, Numbers
       DEF Moves, Step, ConsumerInv, HasDequeue, HasEnqueue,
           HasNext, ConsumerSteps
<1>12. CASE AdvanceDequeue(c)
  <2>1. UNCHANGED <<enqueue, next, user_data, out>>
    BY <1>12 DEF AdvanceDequeue, shared, local
  <2> QED
    BY <1>0, <1>12, <2>1, ConsumerEffects, Numbers
       DEF Moves, Step, ConsumerInv, HasDequeue, HasEnqueue,
           HasNext, ConsumerSteps
<1>13. CASE PushElement(c)
  <2>1. UNCHANGED <<enqueue, dequeue, next, user_data, out>>
    BY <1>13 DEF PushElement, shared, local
  <2> QED
    BY <1>0, <1>13, <2>1, ConsumerEffects, Numbers
       DEF Moves, Step, ConsumerInv, HasDequeue, HasEnqueue,
           HasNext, ConsumerSteps
<1>14. CASE DequeueReturn(c)
  <2>1. UNCHANGED <<enqueue, dequeue, next, user_data>>
    BY <1>14 DEF DequeueReturn, shared, local
  <2> QED
    BY <1>0, <1>14, <2>1, ConsumerEffects, Numbers
       DEF Moves, Step, ConsumerInv, HasDequeue, HasEnqueue,
           HasNext, ConsumerSteps
<1> QED
  BY <1>1, <1>2, <1>3, <1>4, <1>5, <1>6, <1>7, <1>8, <1>9, <1>10, <1>11, <1>12,
     <1>13, <1>14 DEF Dequeue

LEMMA ProducerCopies ==
    ASSUME TypesInv, TypesInv', CopiesInv, NEW L \in [Places -> Seq(Elements)],
           PlaceInv(L), ListInv(L), NEW p \in Producers, Enqueue(p)
    PROVE  CopiesInv' /\ Others(p) /\ SharedMove(p)
<1>0. p \in Threads /\ ProducerInv(p)
  BY DEF Threads, CopiesInv
<1>1. Others(p)
  BY ProducerEffects DEF TypesInv, Enqueue, Moves, Step
<1>2. SharedMove(p)
  BY ProducerShared
<1>3. ProducerInv(p)'
  BY <1>0, ProducerOwn
<1>4. \A q \in Producers \ {p} : ProducerInv(q)'
  BY <1>0, <1>1, <1>2, OtherProducer DEF CopiesInv
<1>5. \A c \in Consumers : ConsumerInv(c)'
  BY <1>0, <1>1, <1>2, OtherConsumer, LfdsQueueAssumption DEF CopiesInv
<1> QED
  BY <1>1, <1>2, <1>3, <1>4, <1>5 DEF CopiesInv

LEMMA ConsumerCopies ==
    ASSUME TypesInv, TypesInv', CopiesInv, NEW L \in [Places -> Seq(Elements)],
           PlaceInv(L), ListInv(L), NEW c \in Consumers, Dequeue(c)
    PROVE  CopiesInv' /\ Others(c) /\ SharedMove(c)
<1>0. c \in Threads /\ ConsumerInv(c)
  BY DEF Threads, CopiesInv
<1>1. Others(c)
  BY ConsumerEffects DEF TypesInv, Dequeue, Moves, Step
<1>2. SharedMove(c)
  BY ConsumerShared
<1>3. ConsumerInv(c)'
  BY <1>0, ConsumerOwn
<1>4. \A d \in Consumers \ {c} : ConsumerInv(d)'
  BY <1>0, <1>1, <1>2, OtherConsumer DEF CopiesInv
<1>5. \A p \in Producers : ProducerInv(p)'
  BY <1>0, <1>1, <1>2, OtherProducer, LfdsQueueAssumption DEF CopiesInv
<1> QED
  BY <1>1, <1>2, <1>3, <1>4, <1>5 DEF CopiesInv
-----------------------------------------------------------------------------
(* Steps that leave every element where it is *)

\* The thread neither gets nor gives away an element; a producer that starts to
\* read does so at qs->enqueue.
Calm(t) ==
    /\ freelist' = freelist /\ dequeue'.ptr = dequeue.ptr
    /\ \A e \in Elements : next'[e].ptr = next[e].ptr
    /\ Alone(t)' <=> Alone(t)
    /\ t \in Producers => (pc'[t] \in Unlinked <=> pc[t] \in Unlinked)
    /\ Holding(t) => elem'[t] = elem[t]
    /\ t \in Producers /\ pc'[t] \in Reading =>
          enq'[t].ptr = enqueue.ptr \/ (pc[t] \in Reading /\ enq'[t].ptr = enq[t].ptr)

LEMMA KeepsPlaces ==
    ASSUME TypesInv, NEW L \in [Places -> Seq(Elements)], NEW rank, Inv(L, rank),
           NEW t \in Threads, Others(t), Calm(t),
           \E k \in 1..Len(L[Queue]) : L[Queue][k] = enqueue'.ptr
    PROVE  Inv(L, rank)'
<1>0. PlaceInv(L) /\ ListInv(L) /\ SpareInv(L) /\ RankInv(L, rank)
  BY DEF Inv
<1>1. ASSUME NEW u \in Threads
      PROVE  /\ Holding(u)' <=> Holding(u)
             /\ Alone(u)' <=> Alone(u)
             /\ u \in Producers => (pc'[u] \in Unlinked <=> pc[u] \in Unlinked)
             /\ Holding(u) => elem'[u] = elem[u]
  BY DEF Others, Calm, Holding, Alone
<1>2. ASSUME NEW p \in Producers, pc'[p] \in Reading
      PROVE  enq'[p].ptr = enqueue.ptr \/ (pc[p] \in Reading /\ enq'[p].ptr = enq[p].ptr)
  <2>1. CASE p = t
    BY <1>2, <2>1 DEF Calm
  <2>2. CASE p # t
    BY <1>2, <2>2 DEF Others, Threads
  <2> QED
    BY <2>1, <2>2
<1>3. PICK q \in 1..Len(L[Queue]) : L[Queue][q] = enqueue.ptr
  BY <1>0 DEF ListInv
<1>4. PlaceInv(L)'
  <2>1. \A u \in Threads : HeldInv(L, u)'
    BY <1>0, <1>1 DEF PlaceInv, HeldInv
  <2> QED
    BY <1>0, <2>1 DEF PlaceInv, OnePlace, Everywhere, Calm
<1>5. ListInv(L)'
  <2>1. ASSUME NEW a \in Places, Linked(L[a], next)
        PROVE  Linked(L[a], next')
    <3>1. \A k \in 1..Len(L[a]) : L[a][k] \in Elements
      BY ElementOfSeq
    <3> QED
      BY <2>1, <3>1 DEF Linked, Calm
  <2>2. \A p \in Producers : pc'[p] \in Unlinked => Linked(L[At(p)], next')
    BY <1>0, <1>1, <2>1, PlacesDiffer DEF ListInv, Threads
  <2>3. Linked(L[Queue], next')
    BY <1>0, <2>1, PlacesDiffer DEF ListInv
  <2> QED
    BY <1>0, <2>2, <2>3 DEF ListInv, Calm
<1>6. ASSUME NEW a \in Places, NEW k \in 1..Len(L[a]), a # Queue
      PROVE  L[a][k] # enqueue.ptr
  BY <1>0, <1>3, <1>6, PlacesDiffer DEF PlaceInv, OnePlace
<1>7. SpareInv(L)'
  <2>1. ASSUME NEW a \in Places, NEW k \in 1..Len(L[a]), a # Queue, Spare(L[a][k])
        PROVE  Spare(L[a][k])'
    <3>1. L[a][k] \in Elements /\ L[a][k] # enqueue.ptr
      BY <1>6, <2>1, ElementOfSeq
    <3> QED
      BY <1>2, <2>1, <3>1 DEF Spare, Calm
  <2>2. \A k \in 1..Len(L[Free]) : Spare(L[Free][k])'
    BY <1>0, <2>1, PlacesDiffer DEF SpareInv
  <2>3. ASSUME NEW u \in Threads, Alone(u)'
        PROVE  Spare(elem[u])'
    <3>1. Alone(u) /\ Holding(u) /\ elem'[u] = elem[u]
      BY <1>1, <2>3 DEF Holding
    <3>2. L[At(u)][1] = elem[u] /\ Len(L[At(u)]) = 1 /\ At(u) \in Places /\ At(u) # Queue
      BY <1>0, <3>1, PlacesDiffer DEF PlaceInv, HeldInv
    <3>3. Spare(L[At(u)][1])'
      <4>1. 1 \in 1..Len(L[At(u)]) /\ Spare(L[At(u)][1])
        BY <1>0, <3>1, <3>2 DEF SpareInv
      <4> QED
        BY <2>1, <3>2, <4>1
    <3> QED
      BY <3>1, <3>2, <3>3 DEF Spare
  <2> QED
    BY <2>2, <2>3 DEF SpareInv
<1>8. RankInv(L, rank)'
  <2>1. ASSUME NEW p \in Producers, pc'[p] \in Unlinked
        PROVE  pc[p] \in Unlinked /\ elem'[p] = elem[p]
    BY <1>1, <2>1 DEF Holding, Threads
  <2>2. ASSUME NEW p \in Producers, NEW u \in Producers, pc'[p] \in Reading,
               pc'[u] \in Unlinked, NEW k \in 1..Len(L[At(u)]), enq'[p].ptr = L[At(u)][k]
        PROVE  rank[elem'[p]] < rank[enq'[p].ptr]
    <3>1. pc[u] \in Unlinked /\ pc'[p] \in Unlinked /\ elem'[p] = elem[p]
      BY <2>1, <2>2 DEF Reading, Unlinked
    <3>2. At(u) \in Places /\ At(u) # Queue
      BY PlacesDiffer DEF Threads
    <3>3. pc[p] \in Reading /\ enq'[p].ptr = enq[p].ptr
      BY <1>2, <1>6, <2>2, <3>2
    <3> QED
      BY <1>0, <2>2, <3>1, <3>3 DEF RankInv
  <2>3. \A u \in Producers : pc'[u] \in Unlinked =>
           \A k \in 1..Len(L[At(u)]) : rank[L[At(u)][k]] <= rank[elem'[u]]
    BY <1>0, <2>1 DEF RankInv
  <2> QED
    BY <2>2, <2>3 DEF RankInv
<1> QED
  BY <1>4, <1>5, <1>7, <1>8 DEF Inv

LEMMA ProducerCalm ==
    ASSUME TypesInv, TypesInv', CopiesInv, NEW L \in [Places -> Seq(Elements)],
           PlaceInv(L), ListInv(L), NEW p \in Producers, Enqueue(p),
           ~PopElement(p), ~InitPointer(p),
           ~(LinkElement(p) /\ next[enq[p].ptr] = nxt[p])
    PROVE  Calm(p) /\ \E k \in 1..Len(L[Queue]) : L[Queue][k] = enqueue'.ptr
<1>0. p \in Threads /\ ProducerInv(p) /\ LocalTypes
  BY DEF Threads, CopiesInv, TypesInv
<1>1. freelist' = freelist /\ dequeue' = dequeue
  BY ProducerFrames
<1>2. \A e \in Elements : next'[e].ptr = next[e].ptr
  <2>1. CASE InitCounter(p)
    <3>1. \A e \in Elements : next'[e].ptr =
             IF e = elem[p] THEN [next[e] EXCEPT !.ctr = aba_counter'].ptr ELSE next[e].ptr
      BY <2>1 DEF InitCounter, TypesInv, SharedTypes
    <3>2. \A e \in Elements : [next[e] EXCEPT !.ctr = aba_counter'].ptr = next[e].ptr
      BY DEF TypesInv, SharedTypes, Pairs
    <3> QED
      BY <3>1, <3>2
  <2>2. CASE LinkElement(p)
    BY <2>2 DEF LinkElement, Dcas, TypesInv, SharedTypes
  <2> QED
    BY <2>1, <2>2, ProducerFrames
<1>3. /\ Alone(p)' <=> Alone(p)
      /\ pc'[p] \in Unlinked <=> pc[p] \in Unlinked
      /\ Holding(p) => elem'[p] = elem[p]
  BY <1>0, ProducerEffects DEF Enqueue, Moves, Step, Alone, Holding, Unlinked
<1>4. pc'[p] \in Reading =>
         enq'[p].ptr = enqueue.ptr \/ (pc[p] \in Reading /\ enq'[p].ptr = enq[p].ptr)
  BY <1>0, ProducerEffects, Numbers DEF Enqueue, Moves, Step, Reading
<1>5. Calm(p)
  BY <1>1, <1>2, <1>3, <1>4 DEF Calm
<1>6. \E k \in 1..Len(L[Queue]) : L[Queue][k] = enqueue'.ptr
  <2>1. CASE SwingEnqueue(p, nxt[p].ptr, "help", "enq_pointer")
    <3>1. nxt[p].ptr # NULL /\ (enqueue = enq[p] => next[enqueue.ptr].ptr = nxt[p].ptr)
      BY <1>0, <2>1 DEF ProducerInv, HasNext, SwingEnqueue, Goto
    <3> QED
      BY <1>0, <2>1, <3>1, SwingMoves
  <2>2. CASE SwingEnqueue(p, elem[p], "swing", "return_1")
    <3>1. elem[p] # NULL /\ (enqueue = enq[p] => next[enqueue.ptr].ptr = elem[p])
      BY <1>0, <2>2 DEF ProducerInv, SwingEnqueue, Goto
    <3> QED
      BY <1>0, <2>2, <3>1, SwingMoves
  <2>3. CASE UNCHANGED enqueue
    BY <2>3 DEF ListInv
  <2> QED
    BY <2>1, <2>2, <2>3, ProducerFrames
<1> QED
  BY <1>5, <1>6

LEMMA ConsumerCalm ==
    ASSUME TypesInv, TypesInv', CopiesInv, NEW L \in [Places -> Seq(Elements)],
           PlaceInv(L), ListInv(L), NEW c \in Consumers, Dequeue(c),
           ~(AdvanceDequeue(c) /\ dequeue = deq[c]), ~PushElement(c)
    PROVE  Calm(c) /\ \E k \in 1..Len(L[Queue]) : L[Queue][k] = enqueue'.ptr
<1>0. c \in Threads /\ ConsumerInv(c) /\ LocalTypes /\ c \notin Producers
  BY LfdsQueueAssumption DEF Threads, CopiesInv, TypesInv
<1>1. freelist' = freelist /\ next' = next
  BY ConsumerFrames
<1>2. dequeue'.ptr = dequeue.ptr
  <2>1. CASE AdvanceDequeue(c)
    BY <2>1 DEF AdvanceDequeue, Dcas
  <2> QED
    BY <2>1, ConsumerFrames
<1>3. /\ Alone(c)' <=> Alone(c)
      /\ Holding(c) => elem'[c] = elem[c]
  BY <1>0, ConsumerEffects DEF Dequeue, Moves, Step, Alone, Holding
<1>4. Calm(c)
  BY <1>0, <1>1, <1>2, <1>3 DEF Calm
<1>5. \E k \in 1..Len(L[Queue]) : L[Queue][k] = enqueue'.ptr
  <2>1. CASE SwingEnqueue(c, nxt[c].ptr, "help", "deq_pointer")
    <3>1. nxt[c].ptr # NULL /\ (enqueue = enq[c] => next[enqueue.ptr].ptr = nxt[c].ptr)
      BY <1>0, <2>1 DEF ConsumerInv, HasNext, SwingEnqueue, Goto
    <3> QED
      BY <1>0, <2>1, <3>1, SwingMoves
  <2>2. CASE UNCHANGED enqueue
    BY <2>2 DEF ListInv
  <2> QED
    BY <2>1, <2>2, ConsumerFrames
<1> QED
  BY <1>4, <1>5
-----------------------------------------------------------------------------
(* Steps that move elements *)

\* The other threads, when t gets or gives away an element
LEMMA OtherHolders ==
    ASSUME NEW t \in Threads, Others(t), NEW u \in Threads \ {t}
    PROVE  /\ Holding(u)' <=> Holding(u)
           /\ Alone(u)' <=> Alone(u)
           /\ elem'[u] = elem[u] /\ pc'[u] = pc[u] /\ enq'[u] = enq[u]
  BY DEF Others, Holding, Alone

\* freelist_pop takes the first free element.
LEMMA PopMoves ==
    ASSUME TypesInv, NEW L \in [Places -> Seq(Elements)], NEW rank, Inv(L, rank),
           NEW p \in Producers, PopElement(p)
    PROVE  LET M == MoveHead(L, Free, At(p))
           IN  M \in [Places -> Seq(Elements)] /\ Inv(M, rank)'
<1> DEFINE M == MoveHead(L, Free, At(p))
<1>0. /\ PlaceInv(L) /\ ListInv(L) /\ SpareInv(L) /\ RankInv(L, rank)
      /\ p \in Threads /\ LocalTypes
  BY DEF Inv, Threads, TypesInv
<1>1. /\ pc[p] = "pop" /\ pc'[p] = "init_pointer" /\ elem'[p] = Head(freelist)
      /\ Others(p)
  BY <1>0, ProducerEffects DEF Step
<1>2. /\ UNCHANGED <<next, enqueue, dequeue>>
      /\ freelist # <<>> /\ freelist' = Tail(freelist)
  BY DEF PopElement
<1>3. /\ At(p) \in Places /\ Free \in Places /\ Queue \in Places
      /\ At(p) # Free /\ At(p) # Queue /\ Free # Queue
      /\ \A u \in Threads \ {p} : At(u) \in Places /\ At(u) # Free /\ At(u) # At(p)
  BY <1>0, PlacesDiffer
<1>4. /\ ~Holding(p) /\ Alone(p)' /\ Holding(p)'
      /\ pc'[p] \notin Unlinked /\ pc'[p] \notin Reading
  BY <1>1 DEF Holding, Alone, Unlinked, Reading
<1>5. L[Free] = freelist /\ L[At(p)] = <<>> /\ Len(L[Free]) >= 1 /\ Len(L[Free]) \in Nat
  <2>1. L[Free] = freelist /\ L[At(p)] = <<>>
    BY <1>0, <1>4 DEF PlaceInv, HeldInv
  <2>2. L[Free] \in Seq(Elements) /\ L[Free] # <<>>
    BY <1>2, <1>3, <2>1
  <2> QED
    BY <2>1, <2>2, EmptySeq
<1>6. /\ M \in [Places -> Seq(Elements)] /\ OnePlace(M) /\ Everywhere(M)
      /\ \A x \in Places : x # Free /\ x # At(p) => M[x] = L[x]
      /\ Len(M[Free]) = Len(L[Free]) - 1
      /\ \A k \in 1..Len(M[Free]) : M[Free][k] = L[Free][k + 1]
      /\ Len(M[At(p)]) = 1 /\ M[At(p)][1] = L[Free][1]
  BY <1>0, <1>3, <1>5, MoveHeadKeeps DEF PlaceInv
<1>7. M[Free] = freelist'
  BY <1>2, <1>3, <1>5 DEF MoveHead
<1>8. elem'[p] = L[Free][1] /\ 1 \in 1..Len(L[Free])
  BY <1>1, <1>3, <1>5, HeadTailProperties
<1> HIDE DEF M
<1>9. PlaceInv(M)'
  <2>1. HeldInv(M, p)'
    BY <1>4, <1>6, <1>8 DEF HeldInv
  <2>2. ASSUME NEW u \in Threads \ {p}
        PROVE  HeldInv(M, u)'
    <3>1. M[At(u)] = L[At(u)] /\ HeldInv(L, u)
      BY <1>0, <1>3, <1>6 DEF PlaceInv
    <3> QED
      BY <1>0, <1>1, <3>1, OtherHolders DEF HeldInv
  <2> QED
    BY <1>6, <1>7, <2>1, <2>2 DEF PlaceInv, OnePlace, Everywhere
<1>10. ASSUME NEW q \in Producers, pc'[q] \in Unlinked
       PROVE  q # p /\ pc[q] \in Unlinked /\ M[At(q)] = L[At(q)] /\ elem'[q] = elem[q]
              /\ enq'[q] = enq[q] /\ pc'[q] = pc[q]
  <2>1. q # p /\ q \in Threads \ {p}
    BY <1>4, <1>10 DEF Threads
  <2> QED
    BY <1>0, <1>1, <1>3, <1>6, <1>10, <2>1, OtherHolders
<1>11. Reading \subseteq Unlinked
  BY DEF Reading, Unlinked
<1>12. ListInv(M)'
  <2>1. M[Queue] = L[Queue]
    BY <1>3, <1>6
  <2> QED
    BY <1>0, <1>2, <1>10, <2>1 DEF ListInv
<1>13. SpareInv(M)'
  <2>1. \A e : Spare(e) => Spare(e)'
    BY <1>2, <1>10, <1>11 DEF Spare
  <2>2. \A k \in 1..Len(M[Free]) : Spare(M[Free][k])'
    <3> SUFFICES ASSUME NEW k \in 1..Len(M[Free]) PROVE Spare(M[Free][k])'
      OBVIOUS
    <3>1. k + 1 \in 1..Len(L[Free]) /\ M[Free][k] = L[Free][k + 1]
      BY <1>5, <1>6
    <3>2. Spare(M[Free][k])
      BY <1>0, <3>1 DEF SpareInv
    <3> QED
      BY <2>1, <3>2
  <2>3. ASSUME NEW u \in Threads, Alone(u)' PROVE Spare(elem[u])'
    <3>1. Spare(elem'[u])
      <4>1. CASE u = p
        BY <1>0, <1>8, <4>1 DEF SpareInv
      <4>2. CASE u # p
        BY <1>0, <1>1, <2>3, <4>2, OtherHolders DEF SpareInv
      <4> QED
        BY <4>1, <4>2
    <3> QED
      BY <1>2, <1>10, <1>11, <3>1 DEF Spare
  <2> QED
    BY <2>2, <2>3 DEF SpareInv
<1>14. RankInv(M, rank)'
  BY <1>0, <1>10, <1>11 DEF RankInv
<1> QED
  BY <1>6, <1>9, <1>12, <1>13, <1>14 DEF Inv, M

\* An element is initialised after all that were initialised before.
LEMMA InitMoves ==
    ASSUME TypesInv, NEW L \in [Places -> Seq(Elements)], NEW N \in Nat,
           NEW rank \in [Elements -> 0..N], Inv(L, rank),
           NEW p \in Producers, InitPointer(p),
           NEW r, r = [rank EXCEPT ![elem[p]] = N + 1]
    PROVE  r \in [Elements -> 0..(N + 1)] /\ Inv(L, r)'
<1>0. /\ PlaceInv(L) /\ ListInv(L) /\ SpareInv(L) /\ RankInv(L, rank)
      /\ p \in Threads /\ LocalTypes /\ next \in [Elements -> Pairs]
  BY DEF Inv, Threads, TypesInv, SharedTypes
<1>1. /\ pc[p] = "init_pointer" /\ pc'[p] = "init_counter" /\ elem'[p] = elem[p]
      /\ Others(p)
  BY <1>0, ProducerEffects DEF Moves, Step
<1>2. /\ UNCHANGED <<freelist, enqueue, dequeue>>
      /\ next' = [next EXCEPT ![elem[p]].ptr = NULL]
  BY DEF InitPointer
<1>3. /\ Alone(p) /\ Holding(p) /\ Holding(p)' /\ ~Alone(p)'
      /\ pc'[p] \in Unlinked /\ pc'[p] \notin Reading
  BY <1>1 DEF Holding, Alone, Unlinked, Reading
<1>4. /\ At(p) \in Places /\ Len(L[At(p)]) = 1 /\ L[At(p)][1] = elem[p]
      /\ elem[p] \in Elements
  <2>1. At(p) \in Places /\ L[At(p)] \in Seq(Elements)
    BY <1>0, PlacesDiffer
  <2>2. Len(L[At(p)]) = 1 /\ L[At(p)][1] = elem[p]
    BY <1>0, <1>3 DEF PlaceInv, HeldInv
  <2>3. 1 \in 1..Len(L[At(p)])
    BY <2>2
  <2> QED
    BY <2>1, <2>2, <2>3, ElementOfSeq
<1>5. ASSUME NEW a \in Places, a # At(p), NEW k \in 1..Len(L[a])
      PROVE  L[a][k] \in Elements /\ L[a][k] # elem[p]
  <2>1. L[a][k] \in Elements
    BY ElementOfSeq
  <2>2. 1 \in 1..Len(L[At(p)])
    BY <1>4
  <2>3. OnePlace(L)
    BY <1>0 DEF PlaceInv
  <2>4. L[a][k] # L[At(p)][1]
    BY <1>4, <1>5, <2>2, <2>3 DEF OnePlace
  <2> QED
    BY <1>4, <2>1, <2>4
<1>6. \A e \in Elements : next'[e].ptr = IF e = elem[p] THEN NULL ELSE next[e].ptr
  <2>1. \A e \in Elements : next'[e] = IF e = elem[p] THEN [next[e] EXCEPT !.ptr = NULL]
                                       ELSE next[e]
    BY <1>0, <1>2
  <2>2. \A e \in Elements : [next[e] EXCEPT !.ptr = NULL].ptr = NULL
    BY <1>0 DEF Pairs
  <2> QED
    BY <2>1, <2>2
<1>7. /\ r \in [Elements -> 0..(N + 1)]
      /\ r[elem[p]] = N + 1
      /\ \A e \in Elements : e # elem[p] => r[e] = rank[e]
  BY <1>4
<1>8. \A u \in Threads \ {p} : At(u) \in Places /\ At(u) # At(p)
  BY PlacesDiffer
<1>9. PlaceInv(L)'
  <2>1. HeldInv(L, p)'
    BY <1>1, <1>3, <1>4 DEF HeldInv
  <2>2. \A u \in Threads \ {p} : HeldInv(L, u)'
    BY <1>0, <1>1, OtherHolders DEF HeldInv, PlaceInv
  <2> QED
    BY <1>0, <1>2, <2>1, <2>2 DEF PlaceInv, OnePlace, Everywhere
<1>10. ASSUME NEW q \in Producers, q # p
       PROVE  /\ q \in Threads \ {p} /\ pc'[q] = pc[q] /\ elem'[q] = elem[q]
              /\ enq'[q] = enq[q]
  BY <1>0, <1>1, <1>10, OtherHolders DEF Threads
<1>11. ListInv(L)'
  <2>1. ASSUME NEW a \in Places, a # At(p), Linked(L[a], next)
        PROVE  Linked(L[a], next')
    BY <1>5, <1>6, <2>1 DEF Linked
  <2>2. Linked(L[At(p)], next')
    BY <1>4, <1>6 DEF Linked
  <2>3. \A q \in Producers : pc'[q] \in Unlinked => Linked(L[At(q)], next')
    BY <1>0, <1>8, <1>10, <2>1, <2>2 DEF ListInv
  <2>4. Linked(L[Queue], next')
    BY <1>0, <2>1, PlacesDiffer DEF ListInv
  <2> QED
    BY <1>0, <1>2, <2>3, <2>4 DEF ListInv
<1>12. SpareInv(L)'
  <2>1. ASSUME NEW e \in Elements, e # elem[p], Spare(e)
        PROVE  Spare(e)'
    BY <1>3, <1>6, <1>10, <2>1 DEF Spare
  <2>2. \A k \in 1..Len(L[Free]) : Spare(L[Free][k])'
    <3>1. Free \in Places /\ Free # At(p)
      BY <1>0, PlacesDiffer
    <3> QED
      BY <1>0, <1>5, <2>1, <3>1 DEF SpareInv
  <2>3. ASSUME NEW u \in Threads, Alone(u)' PROVE Spare(elem[u])'
    <3>1. u \in Threads \ {p} /\ Alone(u) /\ Holding(u) /\ elem'[u] = elem[u]
      BY <1>0, <1>1, <1>3, <2>3, OtherHolders DEF Holding
    <3>2. L[At(u)][1] = elem[u] /\ 1 \in 1..Len(L[At(u)])
      BY <1>0, <3>1 DEF PlaceInv, HeldInv
    <3>3. elem[u] \in Elements /\ elem[u] # elem[p]
      BY <1>5, <1>8, <3>1, <3>2
    <3>4. Spare(elem[u])
      BY <1>0, <3>1 DEF SpareInv
    <3>5. next'[elem[u]].ptr = next[elem[u]].ptr
      BY <1>6, <3>3
    <3> QED
      BY <1>3, <1>10, <3>1, <3>4, <3>5 DEF Spare
  <2> QED
    BY <2>2, <2>3 DEF SpareInv
<1>13. ASSUME NEW q \in Producers, q # p, pc[q] \in Unlinked
       PROVE  /\ elem[q] \in Elements /\ elem[q] # elem[p]
              /\ \A k \in 1..Len(L[At(q)]) : L[At(q)][k] \in Elements /\ L[At(q)][k] # elem[p]
  <2>1. \A k \in 1..Len(L[At(q)]) : L[At(q)][k] \in Elements /\ L[At(q)][k] # elem[p]
    BY <1>5, <1>8, <1>10, <1>13
  <2>2. Holding(q) /\ q \in Threads
    BY <1>13 DEF Holding, Threads
  <2>3. L[At(q)][1] = elem[q] /\ Len(L[At(q)]) >= 1 /\ Len(L[At(q)]) \in Nat
    BY <1>0, <2>2, PlacesDiffer DEF PlaceInv, HeldInv
  <2>4. 1 \in 1..Len(L[At(q)])
    BY <2>3
  <2> QED
    BY <2>1, <2>3, <2>4
<1>14. RankInv(L, r)'
  <2>1. ASSUME NEW q \in Producers, pc'[q] \in Unlinked, NEW k \in 1..Len(L[At(q)])
        PROVE  r[L[At(q)][k]] <= r[elem'[q]]
    <3>1. CASE q = p
      <4>1. L[At(q)][k] = elem'[q]
        <5>1. Len(L[At(q)]) = 1 /\ L[At(q)][1] = elem'[q]
          BY <1>1, <1>4, <3>1
        <5>2. k = 1
          BY <5>1
        <5> QED
          BY <5>1, <5>2
      <4>2. r[elem'[q]] \in Nat
        BY <1>1, <1>7, <3>1
      <4> QED
        BY <4>1, <4>2
    <3>2. CASE q # p
      <4>1. pc[q] \in Unlinked /\ elem'[q] = elem[q]
        BY <1>10, <2>1, <3>2
      <4>2. r[L[At(q)][k]] = rank[L[At(q)][k]] /\ r[elem[q]] = rank[elem[q]]
        BY <1>7, <1>13, <2>1, <3>2, <4>1
      <4>3. rank[L[At(q)][k]] <= rank[elem[q]]
        BY <1>0, <2>1, <4>1 DEF RankInv
      <4> QED
        BY <4>1, <4>2, <4>3
    <3> QED
      BY <3>1, <3>2
  <2>2. ASSUME NEW s \in Producers, NEW q \in Producers, pc'[s] \in Reading,
               pc'[q] \in Unlinked, NEW k \in 1..Len(L[At(q)]), enq'[s].ptr = L[At(q)][k]
        PROVE  r[elem'[s]] < r[enq'[s].ptr]
    <3>1. s # p /\ pc[s] \in Reading /\ pc[s] \in Unlinked /\ elem'[s] = elem[s]
          /\ enq'[s] = enq[s]
      BY <1>3, <1>10, <2>2 DEF Reading, Unlinked
    <3>2. r[elem[s]] = rank[elem[s]] /\ rank[elem[s]] \in 0..N
      BY <1>7, <1>13, <3>1
    <3>3. CASE q = p
      <4>1. enq'[s].ptr = elem[p]
        <5>1. Len(L[At(q)]) = 1 /\ L[At(q)][1] = elem[p]
          BY <1>4, <3>3
        <5>2. k = 1
          BY <5>1
        <5> QED
          BY <2>2, <5>1, <5>2
      <4> QED
        BY <1>7, <3>1, <3>2, <4>1
    <3>4. CASE q # p
      <4>1. pc[q] \in Unlinked
        BY <1>10, <2>2, <3>4
      <4>2. enq[s].ptr \in Elements /\ enq[s].ptr # elem[p]
        BY <1>13, <2>2, <3>1, <3>4, <4>1
      <4>3. rank[elem[s]] < rank[enq[s].ptr]
        BY <1>0, <2>2, <3>1, <4>1 DEF RankInv
      <4> QED
        BY <1>7, <3>1, <3>2, <4>2, <4>3
    <3> QED
      BY <3>3, <3>4
  <2> QED
    BY <2>1, <2>2 DEF RankInv
<1> QED
  BY <1>7, <1>9, <1>11, <1>12, <1>14 DEF Inv

\* freelist_push puts the old dummy before the free elements.
LEMMA PushMoves ==
    ASSUME TypesInv, NEW L \in [Places -> Seq(Elements)], NEW rank, Inv(L, rank),
           NEW c \in Consumers, PushElement(c)
    PROVE  LET M == MoveBefore(L, Free, At(c))
           IN  M \in [Places -> Seq(Elements)] /\ Inv(M, rank)'
<1> DEFINE M == MoveBefore(L, Free, At(c))
<1>0. /\ PlaceInv(L) /\ ListInv(L) /\ SpareInv(L) /\ RankInv(L, rank)
      /\ c \in Threads /\ c \notin Producers /\ LocalTypes
  BY LfdsQueueAssumption DEF Inv, Threads, TypesInv
<1>1. pc[c] = "push" /\ pc'[c] = "return_1" /\ Others(c)
  BY <1>0, ConsumerEffects DEF Step
<1>2. UNCHANGED <<next, enqueue, dequeue>> /\ freelist' = <<elem[c]>> \o freelist
  BY DEF PushElement
<1>3. /\ At(c) \in Places /\ Free \in Places /\ Queue \in Places
      /\ At(c) # Free /\ At(c) # Queue /\ Free # Queue
      /\ \A u \in Threads \ {c} : At(u) \in Places /\ At(u) # Free /\ At(u) # At(c)
  BY <1>0, PlacesDiffer
<1>4. Alone(c) /\ Holding(c) /\ ~Holding(c)' /\ ~Alone(c)'
  BY <1>0, <1>1 DEF Holding, Alone
<1>5. /\ L[Free] = freelist /\ L[At(c)] = <<elem[c]>> /\ Len(L[At(c)]) = 1
      /\ L[At(c)][1] = elem[c] /\ Len(L[Free]) \in Nat
  <2>1. L[Free] = freelist /\ Len(L[At(c)]) = 1 /\ L[At(c)][1] = elem[c]
    BY <1>0, <1>4 DEF PlaceInv, HeldInv
  <2>2. L[At(c)] \in Seq(Elements) /\ L[Free] \in Seq(Elements)
    BY <1>3
  <2>3. L[At(c)] = <<elem[c]>>
    BY <2>1, <2>2
  <2> QED
    BY <2>1, <2>2, <2>3
<1>6. /\ M \in [Places -> Seq(Elements)] /\ OnePlace(M) /\ Everywhere(M)
      /\ \A x \in Places : x # Free /\ x # At(c) => M[x] = L[x]
      /\ Len(M[Free]) = 1 + Len(L[Free]) /\ M[Free] = L[At(c)] \o L[Free]
      /\ \A k \in 1..Len(M[Free]) : M[Free][k] = IF k <= 1 THEN L[At(c)][k]
                                                 ELSE L[Free][k - 1]
      /\ M[At(c)] = <<>>
  <2>1. OnePlace(L) /\ Everywhere(L)
    BY <1>0 DEF PlaceInv
  <2>2. /\ M \in [Places -> Seq(Elements)] /\ OnePlace(M) /\ Everywhere(M)
        /\ \A x \in Places : x # Free /\ x # At(c) => M[x] = L[x]
        /\ Len(M[Free]) = Len(L[At(c)]) + Len(L[Free]) /\ M[Free] = L[At(c)] \o L[Free]
        /\ \A k \in 1..Len(M[Free]) :
              M[Free][k] = IF k <= Len(L[At(c)]) THEN L[At(c)][k]
                           ELSE L[Free][k - Len(L[At(c)])]
        /\ M[At(c)] = <<>>
    BY <1>3, <2>1, MoveBeforeKeeps, ZenonT(60)
  <2> HIDE DEF M
  <2> QED
    BY <1>5, <2>2
<1>7. M[Free] = freelist'
  BY <1>2, <1>5, <1>6
<1> HIDE DEF M
<1>8. ASSUME NEW u \in Threads \ {c}
      PROVE  /\ M[At(u)] = L[At(u)]
             /\ Holding(u)' <=> Holding(u)
             /\ Alone(u)' <=> Alone(u)
             /\ elem'[u] = elem[u] /\ pc'[u] = pc[u] /\ enq'[u] = enq[u]
  BY <1>0, <1>1, <1>3, <1>6, OtherHolders
<1>9. PlaceInv(M)'
  <2>1. HeldInv(M, c)'
    BY <1>4, <1>6 DEF HeldInv
  <2>2. \A u \in Threads \ {c} : HeldInv(M, u)'
    BY <1>0, <1>8 DEF HeldInv, PlaceInv
  <2> QED
    BY <1>6, <1>7, <2>1, <2>2 DEF PlaceInv, OnePlace, Everywhere
<1>10. \A p \in Producers : p \in Threads \ {c}
  BY <1>0 DEF Threads
<1>11. ListInv(M)'
  <2>1. M[Queue] = L[Queue]
    BY <1>3, <1>6
  <2>2. \A p \in Producers : pc'[p] \in Unlinked => Linked(M[At(p)], next')
    BY <1>0, <1>2, <1>8, <1>10 DEF ListInv
  <2> QED
    BY <1>0, <1>2, <2>1, <2>2 DEF ListInv
<1>12. SpareInv(M)'
  <2>1. ASSUME NEW e, Spare(e) PROVE Spare(e)'
    BY <1>2, <1>8, <1>10, <2>1 DEF Spare
  <2>2. ASSUME NEW k \in 1..Len(M[Free]) PROVE Spare(M[Free][k])'
    <3>1. CASE k = 1
      <4>1. M[Free][k] = elem[c]
        BY <1>5, <1>6, <3>1
      <4>2. Spare(M[Free][k])
        BY <1>0, <1>4, <4>1 DEF SpareInv
      <4> QED
        BY <2>1, <4>2
    <3>2. CASE k # 1
      <4>1. k - 1 \in 1..Len(L[Free]) /\ M[Free][k] = L[Free][k - 1]
        BY <1>5, <1>6, <3>2
      <4>2. Spare(M[Free][k])
        BY <1>0, <4>1 DEF SpareInv
      <4> QED
        BY <2>1, <4>2
    <3> QED
      BY <3>1, <3>2
  <2>3. ASSUME NEW u \in Threads, Alone(u)' PROVE Spare(elem[u])'
    <3>1. u \in Threads \ {c} /\ Alone(u)
      BY <1>4, <1>8, <2>3
    <3>2. Spare(elem'[u])
      BY <1>0, <1>8, <3>1 DEF SpareInv
    <3> QED
      BY <1>2, <1>8, <1>10, <3>2 DEF Spare
  <2> QED
    BY <2>2, <2>3 DEF SpareInv
<1>13. RankInv(M, rank)'
  BY <1>0, <1>8, <1>10 DEF RankInv
<1> QED
  BY <1>6, <1>9, <1>11, <1>12, <1>13 DEF Inv, M

\* The first element of the queue leaves it, and the second is the new dummy.
LEMMA AdvanceMoves ==
    ASSUME TypesInv, NEW L \in [Places -> Seq(Elements)], NEW rank, Inv(L, rank),
           NEW c \in Consumers, ConsumerInv(c), AdvanceDequeue(c), dequeue = deq[c]
    PROVE  LET M == MoveHead(L, Queue, At(c))
           IN  /\ M \in [Places -> Seq(Elements)] /\ Inv(M, rank)'
               /\ Len(L[Queue]) >= 2 /\ L[Queue][2] = nxt[c].ptr
<1> DEFINE M == MoveHead(L, Queue, At(c))
<1>0. /\ PlaceInv(L) /\ ListInv(L) /\ SpareInv(L) /\ RankInv(L, rank)
      /\ c \in Threads /\ c \notin Producers /\ LocalTypes
  BY LfdsQueueAssumption DEF Inv, Threads, TypesInv
<1>1. pc[c] = "advance" /\ pc'[c] = "push" /\ elem'[c] = deq[c].ptr /\ Others(c)
  BY <1>0, ConsumerEffects DEF Step
<1>2. /\ UNCHANGED <<next, enqueue, freelist>>
      /\ dequeue' = Pair(nxt[c].ptr, deq[c].ctr + PtrStep)
  BY DEF AdvanceDequeue, Dcas
<1>3. /\ At(c) \in Places /\ Free \in Places /\ Queue \in Places
      /\ At(c) # Free /\ At(c) # Queue /\ Free # Queue
      /\ \A u \in Threads \ {c} : At(u) \in Places /\ At(u) # Queue /\ At(u) # At(c)
  BY <1>0, PlacesDiffer
<1>4. ~Holding(c) /\ Holding(c)' /\ Alone(c)'
  BY <1>0, <1>1 DEF Holding, Alone
<1>5. nxt[c].ptr # NULL /\ enqueue.ptr # dequeue.ptr /\ next[dequeue.ptr].ptr = nxt[c].ptr
  BY <1>1 DEF ConsumerInv, HasDequeue, ConsumerSteps
<1>6. /\ Len(L[Queue]) \in Nat /\ Len(L[Queue]) >= 2 /\ L[At(c)] = <<>>
      /\ L[Queue][1] = dequeue.ptr /\ L[Queue][2] = nxt[c].ptr
  <2>1. L[At(c)] = <<>>
    BY <1>0, <1>4 DEF PlaceInv, HeldInv
  <2>2. Len(L[Queue]) \in Nat /\ Len(L[Queue]) >= 1 /\ L[Queue][1] = dequeue.ptr
    BY <1>0, <1>3 DEF ListInv
  <2>3. 1 \in 1..Len(L[Queue])
    BY <2>2
  <2>4. next[L[Queue][1]].ptr = IF 1 < Len(L[Queue]) THEN L[Queue][1 + 1] ELSE NULL
    BY <1>0, <2>3 DEF ListInv, Linked
  <2> QED
    BY <1>5, <2>1, <2>2, <2>4
<1>7. /\ M \in [Places -> Seq(Elements)] /\ OnePlace(M) /\ Everywhere(M)
      /\ \A x \in Places : x # Queue /\ x # At(c) => M[x] = L[x]
      /\ Len(M[Queue]) = Len(L[Queue]) - 1
      /\ \A k \in 1..Len(M[Queue]) : M[Queue][k] = L[Queue][k + 1]
      /\ Len(M[At(c)]) = 1 /\ M[At(c)][1] = L[Queue][1]
  <2>1. OnePlace(L) /\ Everywhere(L)
    BY <1>0 DEF PlaceInv
  <2> QED
    BY <1>3, <1>6, <2>1, MoveHeadKeeps
<1> HIDE DEF M
<1>8. ASSUME NEW u \in Threads \ {c}
      PROVE  /\ M[At(u)] = L[At(u)]
             /\ Holding(u)' <=> Holding(u)
             /\ Alone(u)' <=> Alone(u)
             /\ elem'[u] = elem[u] /\ pc'[u] = pc[u] /\ enq'[u] = enq[u]
  BY <1>0, <1>1, <1>3, <1>7, OtherHolders
<1>9. PlaceInv(M)'
  <2>1. HeldInv(M, c)'
    BY <1>1, <1>4, <1>6, <1>7 DEF HeldInv
  <2>2. \A u \in Threads \ {c} : HeldInv(M, u)'
    BY <1>0, <1>8 DEF HeldInv, PlaceInv
  <2>3. M[Free] = freelist'
    BY <1>0, <1>2, <1>3, <1>7 DEF PlaceInv
  <2> QED
    BY <1>7, <2>1, <2>2, <2>3 DEF PlaceInv, OnePlace, Everywhere
<1>10. \A p \in Producers : p \in Threads \ {c}
  BY <1>0 DEF Threads
<1>11. ListInv(M)'
  <2>1. Linked(M[Queue], next')
    <3> SUFFICES ASSUME NEW k \in 1..Len(M[Queue])
                 PROVE  next'[M[Queue][k]].ptr =
                           IF k < Len(M[Queue]) THEN M[Queue][k + 1] ELSE NULL
      BY DEF Linked
    <3>1. k \in Nat /\ k + 1 \in 1..Len(L[Queue]) /\ Len(M[Queue]) = Len(L[Queue]) - 1
      BY <1>6, <1>7
    <3>2. next[L[Queue][k + 1]].ptr =
             IF k + 1 < Len(L[Queue]) THEN L[Queue][(k + 1) + 1] ELSE NULL
      BY <1>0, <3>1 DEF ListInv, Linked
    <3>3. M[Queue][k] = L[Queue][k + 1]
      BY <1>7
    <3>4. k < Len(M[Queue]) => M[Queue][k + 1] = L[Queue][(k + 1) + 1]
      BY <1>6, <1>7, <3>1
    <3> QED
      BY <1>2, <1>6, <3>1, <3>2, <3>3, <3>4
  <2>2. \A p \in Producers : pc'[p] \in Unlinked => Linked(M[At(p)], next')
    BY <1>0, <1>2, <1>8, <1>10 DEF ListInv
  <2>3. Len(M[Queue]) >= 1 /\ M[Queue][1] = dequeue'.ptr
    <3>1. Len(M[Queue]) >= 1 /\ 1 \in 1..Len(M[Queue]) /\ 1 + 1 = 2
      BY <1>6, <1>7
    <3>2. M[Queue][1] = L[Queue][2]
      BY <1>7, <3>1
    <3>3. dequeue'.ptr = nxt[c].ptr
      BY <1>2, Numbers
    <3> QED
      BY <1>6, <3>1, <3>2, <3>3
  <2>4. \E k \in 1..Len(M[Queue]) : M[Queue][k] = enqueue'.ptr
    <3>1. PICK k \in 1..Len(L[Queue]) : L[Queue][k] = enqueue.ptr
      BY <1>0 DEF ListInv
    <3>2. k # 1 /\ k - 1 \in 1..Len(M[Queue]) /\ (k - 1) + 1 = k
      BY <1>5, <1>6, <1>7, <3>1
    <3>3. M[Queue][k - 1] = enqueue'.ptr
      BY <1>2, <1>7, <3>1, <3>2
    <3> QED
      BY <3>2, <3>3
  <2> QED
    BY <2>1, <2>2, <2>3, <2>4 DEF ListInv
<1>12. SpareInv(M)'
  <2>1. ASSUME NEW e, Spare(e) PROVE Spare(e)'
    BY <1>2, <1>8, <1>10, <2>1 DEF Spare
  <2>2. \A k \in 1..Len(M[Free]) : Spare(M[Free][k])'
    <3>1. M[Free] = L[Free]
      BY <1>3, <1>7
    <3>2. \A k \in 1..Len(M[Free]) : Spare(M[Free][k])
      BY <1>0, <3>1 DEF SpareInv
    <3> QED
      BY <2>1, <3>2
  <2>3. ASSUME NEW u \in Threads, Alone(u)' PROVE Spare(elem[u])'
    <3>1. CASE u = c
      BY <1>1, <1>2, <1>5, <3>1 DEF Spare
    <3>2. CASE u # c
      <4>1. u \in Threads \ {c} /\ Alone(u)
        BY <1>8, <2>3, <3>2
      <4>2. Spare(elem'[u])
        BY <1>0, <1>8, <4>1 DEF SpareInv
      <4> QED
        BY <1>2, <1>8, <1>10, <4>2 DEF Spare
    <3> QED
      BY <3>1, <3>2
  <2> QED
    BY <2>2, <2>3 DEF SpareInv
<1>13. RankInv(M, rank)'
  BY <1>0, <1>8, <1>10 DEF RankInv
<1> QED
  BY <1>6, <1>7, <1>9, <1>11, <1>12, <1>13 DEF Inv, M

\* A place where an element can be linked behind the last one: the queue, or a
\* producer other than p that has not linked its element
Target(a, p) == \/ a = Queue
                \/ \E q \in Producers \ {p} : a = At(q) /\ pc[q] \in Unlinked

\* The element that a producer links to is the last one of its list.
LEMMA LinkTarget ==
    ASSUME TypesInv, NEW L \in [Places -> Seq(Elements)], NEW N \in Nat,
           NEW rank \in [Elements -> 0..N], Inv(L, rank),
           NEW p \in Producers, ProducerInv(p), LinkElement(p), next[enq[p].ptr] = nxt[p]
    PROVE  \E a \in Places : /\ Target(a, p) /\ Linked(L[a], next) /\ Len(L[a]) >= 1
                             /\ L[a][Len(L[a])] = enq[p].ptr
<1>0. /\ PlaceInv(L) /\ ListInv(L) /\ SpareInv(L) /\ RankInv(L, rank)
      /\ p \in Threads
  BY DEF Inv, Threads
<1>1. pc[p] = "link" /\ pc[p] \in Reading /\ pc[p] \in Unlinked
  BY DEF LinkElement, Reading, Unlinked
<1> DEFINE x == enq[p].ptr
<1>2. x \in Elements /\ next[x].ptr = NULL
  BY <1>0, <1>1, Numbers DEF ProducerInv, TypesInv, LocalTypes
<1> HIDE DEF x
<1>3. PICK a \in Places : \E k \in 1..Len(L[a]) : L[a][k] = x
  BY <1>0, <1>2 DEF PlaceInv, Everywhere
<1>4. PICK k \in 1..Len(L[a]) : L[a][k] = x
  BY <1>3
<1>5. L[a] \in Seq(Elements) /\ Len(L[a]) \in Nat /\ Len(L[a]) >= 1
  BY <1>4
<1>6. ~Spare(x)
  BY <1>1, <1>2 DEF Spare, x
<1>7. a # Free
  BY <1>0, <1>4, <1>6 DEF SpareInv
<1>8. Target(a, p) /\ Linked(L[a], next)
  <2>1. CASE a = Queue
    BY <1>0, <2>1 DEF Target, ListInv
  <2>2. CASE a # Queue
    <3>1. PICK u \in Threads : a = At(u)
      BY <1>7, <2>2, PlacesDiffer
    <3>2. HeldInv(L, u)
      BY <1>0 DEF PlaceInv
    <3>3. Holding(u)
      <4>1. L[a] # <<>>
        BY <1>5
      <4> QED
        BY <3>1, <3>2, <4>1 DEF HeldInv
    <3>4. ~Alone(u)
      <4> SUFFICES ASSUME Alone(u) PROVE FALSE
        OBVIOUS
      <4>1. Len(L[a]) = 1 /\ L[a][1] = elem[u]
        BY <3>1, <3>2, <3>3 DEF HeldInv
      <4>2. k = 1
        BY <4>1
      <4> QED
        BY <1>0, <1>4, <1>6, <4>1, <4>2 DEF SpareInv
    <3>5. u \in Producers /\ pc[u] \in Unlinked
      BY <3>3, <3>4 DEF Holding
    <3>6. u # p
      <4> SUFFICES ASSUME u = p PROVE FALSE
        OBVIOUS
      <4>1. rank[x] <= rank[elem[p]]
        BY <1>0, <1>4, <3>1, <3>5 DEF RankInv
      <4>2. rank[elem[p]] < rank[x]
        BY <1>0, <1>1, <1>4, <3>1 DEF RankInv, x
      <4>3. elem[p] \in Elements
        BY <1>0, <3>3, Numbers DEF ProducerInv, TypesInv, LocalTypes
      <4> QED
        BY <1>2, <4>1, <4>2, <4>3
    <3> QED
      BY <1>0, <3>1, <3>5, <3>6 DEF Target, ListInv
  <2> QED
    BY <2>1, <2>2
<1>9. k = Len(L[a])
  <2>1. next[x].ptr = IF k < Len(L[a]) THEN L[a][k + 1] ELSE NULL
    BY <1>4, <1>8 DEF Linked
  <2>2. k < Len(L[a]) => L[a][k + 1] \in Elements
    BY <1>5, ElementOfSeq
  <2> QED
    BY <1>2, <1>5, <2>1, <2>2, Numbers
<1> QED
  BY <1>4, <1>5, <1>8, <1>9 DEF x

\* The first n elements of S keep their links.
KeepLinks(S, n, before, after) == \A k \in 1..n : after[S[k]].ptr = before[S[k]].ptr

\* Two lists, the last element of the first linked to the first of the second
LEMMA LinkedJoin ==
    ASSUME NEW S \in Seq(Elements), NEW T \in Seq(Elements), Len(S) >= 1, Len(T) >= 1,
           NEW before, NEW after, Linked(S, before), Linked(T, before),
           KeepLinks(S, Len(S) - 1, before, after), KeepLinks(T, Len(T), before, after),
           after[S[Len(S)]].ptr = T[1]
    PROVE  Linked(S \o T, after)
<1> USE DEF KeepLinks
<1> DEFINE J == S \o T
<1>1. /\ Len(J) = Len(S) + Len(T) /\ Len(S) \in Nat /\ Len(T) \in Nat
      /\ \A k \in 1..(Len(S) + Len(T)) : J[k] = IF k <= Len(S) THEN S[k] ELSE T[k - Len(S)]
  BY ConcatProperties
<1> HIDE DEF J
<1> SUFFICES ASSUME NEW k \in 1..Len(J)
             PROVE  after[J[k]].ptr = IF k < Len(J) THEN J[k + 1] ELSE NULL
  BY DEF Linked, J
<1>2. k \in Nat /\ k >= 1 /\ k <= Len(S) + Len(T)
  BY <1>1
<1>3. CASE k < Len(S)
  <2>1. J[k] = S[k] /\ J[k + 1] = S[k + 1] /\ k < Len(J) /\ k \in 1..Len(S)
        /\ k \in 1..(Len(S) - 1)
    BY <1>1, <1>2, <1>3
  <2>2. before[S[k]].ptr = S[k + 1]
    BY <1>3, <2>1 DEF Linked
  <2> QED
    BY <2>1, <2>2
<1>4. CASE k = Len(S)
  <2>1. k + 1 \in 1..(Len(S) + Len(T)) /\ ~(k + 1 <= Len(S)) /\ (k + 1) - Len(S) = 1
    BY <1>1, <1>2, <1>4
  <2>2. J[k] = S[k] /\ J[k + 1] = T[1] /\ k < Len(J)
    BY <1>1, <1>2, <1>4, <2>1
  <2> QED
    BY <1>4, <2>2
<1>5. CASE k > Len(S)
  <2> DEFINE j == k - Len(S)
  <2>1. j \in 1..Len(T) /\ J[k] = T[j] /\ (k < Len(J) <=> j < Len(T))
    BY <1>1, <1>2, <1>5
  <2>2. k < Len(J) => J[k + 1] = T[j + 1]
    <3>1. ~(k + 1 <= Len(S)) /\ (k + 1) - Len(S) = j + 1
      BY <1>1, <1>2, <1>5
    <3>2. k < Len(J) => k + 1 \in 1..(Len(S) + Len(T))
      BY <1>1, <1>2
    <3> HIDE DEF j
    <3> QED
      BY <1>1, <3>1, <3>2
  <2> HIDE DEF j
  <2>3. before[T[j]].ptr = IF j < Len(T) THEN T[j + 1] ELSE NULL
    BY <2>1 DEF Linked
  <2> QED
    BY <2>1, <2>2, <2>3
<1> QED
  BY <1>1, <1>2, <1>3, <1>4, <1>5

\* What a producer holds goes to the end of that list.
LEMMA LinkMoves ==
    ASSUME TypesInv, NEW L \in [Places -> Seq(Elements)], NEW N \in Nat,
           NEW rank \in [Elements -> 0..N], Inv(L, rank),
           NEW p \in Producers, ProducerInv(p), LinkElement(p), next[enq[p].ptr] = nxt[p],
           NEW a \in Places, Target(a, p), Linked(L[a], next), Len(L[a]) >= 1,
           L[a][Len(L[a])] = enq[p].ptr
    PROVE  LET M == MoveBehind(L, a, At(p))
           IN  M \in [Places -> Seq(Elements)] /\ Inv(M, rank)'
<1> DEFINE M == MoveBehind(L, a, At(p))
           x == enq[p].ptr
<1>0. /\ PlaceInv(L) /\ ListInv(L) /\ SpareInv(L) /\ RankInv(L, rank)
      /\ p \in Threads /\ LocalTypes /\ next \in [Elements -> Pairs]
      /\ OnePlace(L) /\ Everywhere(L)
  BY DEF Inv, Threads, TypesInv, SharedTypes, PlaceInv
<1>1. /\ pc[p] = "link" /\ pc'[p] = "swing" /\ elem'[p] = elem[p] /\ enq'[p] = enq[p]
      /\ Others(p)
  BY <1>0, ProducerEffects DEF Moves, Step
<1>2. /\ UNCHANGED <<freelist, enqueue, dequeue>>
      /\ next' = [next EXCEPT ![enq[p].ptr] =
                     Dcas(@, Pair(elem[p], nxt[p].ctr + PtrStep), nxt[p])]
  BY DEF LinkElement
<1>3. /\ pc[p] \in Unlinked /\ pc[p] \in Reading /\ pc'[p] \notin Unlinked
      /\ pc'[p] \notin Reading /\ Holding(p) /\ ~Holding(p)' /\ ~Alone(p)'
  BY <1>1 DEF Unlinked, Reading, Holding, Alone
<1>4. /\ At(p) \in Places /\ Free \in Places /\ Queue \in Places
      /\ At(p) # Free /\ At(p) # Queue /\ Free # Queue /\ a # At(p) /\ a # Free
      /\ \A u \in Threads \ {p} : At(u) \in Places /\ At(u) # Queue /\ At(u) # At(p)
      /\ \A t, u : At(t) = At(u) => t = u
  BY <1>0, PlacesDiffer DEF Target, Threads
<1>5. /\ Len(L[a]) \in Nat /\ Len(L[At(p)]) \in Nat /\ Len(L[At(p)]) >= 1
      /\ L[At(p)][1] = elem[p] /\ elem[p] \in Elements /\ x \in Elements
      /\ \A b \in Places : \A k \in 1..Len(L[b]) : L[b][k] \in Elements
  <2>1. \A b \in Places : \A k \in 1..Len(L[b]) : L[b][k] \in Elements
    BY ElementOfSeq
  <2>2. Len(L[a]) \in Nat /\ Len(L[At(p)]) \in Nat
    BY <1>4
  <2>3. Len(L[At(p)]) >= 1 /\ L[At(p)][1] = elem[p]
    BY <1>0, <1>3 DEF PlaceInv, HeldInv
  <2>4. 1 \in 1..Len(L[At(p)]) /\ Len(L[a]) \in 1..Len(L[a])
    BY <2>2, <2>3
  <2> QED
    BY <1>4, <2>1, <2>2, <2>3, <2>4
<1>6. \A e \in Elements : next'[e].ptr = IF e = x THEN elem[p] ELSE next[e].ptr
  <2>1. next'[x] = Pair(elem[p], nxt[p].ctr + PtrStep)
    BY <1>0, <1>2, <1>5 DEF Dcas
  <2>2. \A e \in Elements : e # x => next'[e] = next[e]
    BY <1>0, <1>2
  <2>3. Pair(elem[p], nxt[p].ctr + PtrStep).ptr = elem[p]
    BY DEF Pair
  <2> HIDE DEF x
  <2> QED
    BY <2>1, <2>2, <2>3
<1>7. /\ M \in [Places -> Seq(Elements)] /\ OnePlace(M) /\ Everywhere(M)
      /\ \A b \in Places : b # a /\ b # At(p) => M[b] = L[b]
      /\ Len(M[a]) = Len(L[a]) + Len(L[At(p)])
      /\ \A k \in 1..Len(M[a]) : M[a][k] = IF k <= Len(L[a]) THEN L[a][k]
                                           ELSE L[At(p)][k - Len(L[a])]
      /\ M[At(p)] = <<>>
  BY <1>0, <1>4, MoveBehindKeeps, ZenonT(60)
<1>17. M[a] = L[a] \o L[At(p)]
  BY <1>0, <1>4, MoveBehindKeeps
<1> HIDE DEF M, x
<1>8. ASSUME NEW u \in Threads \ {p}
      PROVE  /\ Holding(u)' <=> Holding(u)
             /\ Alone(u)' <=> Alone(u)
             /\ elem'[u] = elem[u] /\ pc'[u] = pc[u] /\ enq'[u] = enq[u]
  BY <1>0, <1>1, OtherHolders
<1>9. Len(M[a]) >= 1 /\ M[a][1] = L[a][1] /\ Len(M[a]) \in Nat
  <2>1. Len(M[a]) >= 1 /\ Len(M[a]) \in Nat /\ 1 \in 1..Len(M[a]) /\ 1 <= Len(L[a])
    BY <1>5, <1>7
  <2> QED
    BY <1>7, <2>1
<1>10. PlaceInv(M)'
  <2>1. HeldInv(M, p)'
    BY <1>3, <1>7 DEF HeldInv
  <2>2. ASSUME NEW u \in Threads \ {p} PROVE HeldInv(M, u)'
    <3>0. HeldInv(L, u)
      BY <1>0 DEF PlaceInv
    <3>1. CASE At(u) = a
      <4>1. Holding(u) /\ ~Alone(u)
        <5>1. u \in Producers /\ pc[u] \in Unlinked
          BY <1>4, <3>1 DEF Target
        <5> QED
          BY <5>1 DEF Holding, Alone, Unlinked
      <4> QED
        BY <1>8, <1>9, <3>0, <3>1, <4>1 DEF HeldInv
    <3>2. CASE At(u) # a
      <4>1. M[At(u)] = L[At(u)]
        BY <1>4, <1>7, <3>2
      <4> QED
        BY <1>8, <3>0, <4>1 DEF HeldInv
    <3> QED
      BY <3>1, <3>2
  <2>3. M[Free] = freelist'
    BY <1>0, <1>2, <1>4, <1>7 DEF PlaceInv
  <2>4. OnePlace(M)' /\ Everywhere(M)'
    BY <1>7 DEF OnePlace, Everywhere
  <2> QED
    BY <2>1, <2>2, <2>3, <2>4 DEF PlaceInv
<1>11. ASSUME NEW b \in Places, NEW k \in 1..Len(L[b]), L[b][k] = x
       PROVE  b = a /\ k = Len(L[a])
  <2>1. Len(L[a]) \in 1..Len(L[a]) /\ L[a][Len(L[a])] = x
    BY <1>5 DEF x
  <2>2. \A i \in 1..Len(L[b]), j \in 1..Len(L[a]) : L[b][i] = L[a][j] => b = a /\ i = j
    BY <1>0 DEF OnePlace
  <2> QED
    BY <1>11, <2>1, <2>2
<1>12. ListInv(M)'
  <2>1. ASSUME NEW b \in Places, b # a, Linked(L[b], next)
        PROVE  Linked(L[b], next')
    BY <1>5, <1>6, <1>11, <2>1 DEF Linked
  <2> DEFINE after == next'
  <2>2. Linked(M[a], next')
    <3>1. Linked(L[At(p)], next)
      BY <1>0, <1>3 DEF ListInv
    <3>2. after[L[a][Len(L[a])]].ptr = L[At(p)][1]
      BY <1>5, <1>6 DEF x
    <3>3. \A k \in 1..(Len(L[a]) - 1) : after[L[a][k]].ptr = next[L[a][k]].ptr
      <4> SUFFICES ASSUME NEW k \in 1..(Len(L[a]) - 1)
                   PROVE  after[L[a][k]].ptr = next[L[a][k]].ptr
        OBVIOUS
      <4>1. k \in 1..Len(L[a]) /\ k # Len(L[a])
        BY <1>5
      <4>2. L[a][k] # x /\ L[a][k] \in Elements
        BY <1>5, <1>11, <4>1
      <4> QED
        BY <1>6, <4>2
    <3>4. \A k \in 1..Len(L[At(p)]) : after[L[At(p)][k]].ptr = next[L[At(p)][k]].ptr
      BY <1>4, <1>5, <1>6, <1>11
    <3>5. L[a] \in Seq(Elements) /\ L[At(p)] \in Seq(Elements)
      BY <1>4
    <3> HIDE DEF after
    <3>6. Linked(L[a] \o L[At(p)], after)
      <4>1. Len(L[a]) >= 1 /\ Len(L[At(p)]) >= 1
        BY <1>5
      <4> QED
        <5>1. PICK S \in Seq(Elements), T \in Seq(Elements) : S = L[a] /\ T = L[At(p)]
          BY <3>5
        <5>2. Len(S) >= 1 /\ Len(T) >= 1 /\ Linked(S, next) /\ Linked(T, next)
          BY <3>1, <4>1, <5>1
        <5>3. /\ after[S[Len(S)]].ptr = T[1]
              /\ KeepLinks(S, Len(S) - 1, next, after) /\ KeepLinks(T, Len(T), next, after)
          BY <3>2, <3>3, <3>4, <5>1 DEF KeepLinks
        <5>4. Linked(S \o T, after)
          BY <5>2, <5>3, LinkedJoin
        <5> QED
          BY <5>1, <5>4
    <3> QED
      BY <1>17, <3>6 DEF after
  <2>3. ASSUME NEW b \in Places, b # At(p), Linked(L[b], next)
        PROVE  Linked(M[b], next')
    BY <1>7, <2>1, <2>2, <2>3
  <2>4. Linked(M[Queue], next')
    BY <1>0, <1>4, <2>3 DEF ListInv
  <2>5. \A q \in Producers : pc'[q] \in Unlinked => Linked(M[At(q)], next')
    <3> SUFFICES ASSUME NEW q \in Producers, pc'[q] \in Unlinked
                 PROVE  Linked(M[At(q)], next')
      OBVIOUS
    <3>1. q # p /\ q \in Threads \ {p}
      BY <1>3 DEF Threads
    <3>2. Linked(L[At(q)], next)
      BY <1>0, <1>8, <3>1 DEF ListInv
    <3> QED
      BY <1>4, <2>3, <3>1, <3>2
  <2>6. Len(M[Queue]) >= 1 /\ M[Queue][1] = dequeue'.ptr
    <3>1. Len(L[Queue]) >= 1 /\ L[Queue][1] = dequeue.ptr
      BY <1>0 DEF ListInv
    <3> QED
      BY <1>2, <1>4, <1>7, <1>9, <3>1
  <2>7. \E k \in 1..Len(M[Queue]) : M[Queue][k] = enqueue'.ptr
    <3>1. PICK k \in 1..Len(L[Queue]) : L[Queue][k] = enqueue.ptr
      BY <1>0 DEF ListInv
    <3>2. k \in 1..Len(M[Queue]) /\ M[Queue][k] = L[Queue][k]
      <4>1. CASE a = Queue
        <5>1. k \in 1..Len(L[a]) /\ k \in 1..Len(M[a]) /\ k <= Len(L[a])
          BY <1>5, <1>7, <4>1
        <5> QED
          BY <1>7, <4>1, <5>1
      <4>2. CASE a # Queue
        BY <1>4, <1>7, <4>2
      <4> QED
        BY <4>1, <4>2
    <3> QED
      BY <1>2, <3>1, <3>2
  <2> QED
    BY <2>4, <2>5, <2>6, <2>7 DEF ListInv
<1>13. ASSUME NEW q \in Producers, pc'[q] \in Unlinked
       PROVE  /\ q \in Threads \ {p} /\ pc[q] \in Unlinked /\ pc'[q] = pc[q]
              /\ elem'[q] = elem[q] /\ enq'[q] = enq[q]
  <2>1. q \in Threads \ {p}
    BY <1>3, <1>13 DEF Threads
  <2> QED
    BY <1>8, <1>13, <2>1
<1>14. Reading \subseteq Unlinked
  BY DEF Reading, Unlinked
<1>15. SpareInv(M)'
  <2>1. ASSUME NEW e \in Elements, e # x, Spare(e)
        PROVE  Spare(e)'
    BY <1>6, <1>13, <1>14, <2>1 DEF Spare
  <2>2. \A k \in 1..Len(M[Free]) : Spare(M[Free][k])'
    <3> SUFFICES ASSUME NEW k \in 1..Len(M[Free]) PROVE Spare(M[Free][k])'
      OBVIOUS
    <3>1. M[Free] = L[Free]
      BY <1>4, <1>7
    <3>2. L[Free][k] \in Elements /\ L[Free][k] # x /\ Spare(L[Free][k])
      BY <1>0, <1>4, <1>5, <1>11, <3>1 DEF SpareInv
    <3> QED
      BY <2>1, <3>1, <3>2
  <2>3. ASSUME NEW u \in Threads, Alone(u)' PROVE Spare(elem[u])'
    <3>1. u \in Threads \ {p} /\ Alone(u) /\ elem'[u] = elem[u]
      BY <1>3, <1>8, <2>3
    <3>2. Holding(u) /\ Spare(elem[u])
      BY <1>0, <3>1 DEF Holding, SpareInv
    <3>3. L[At(u)][1] = elem[u] /\ 1 \in 1..Len(L[At(u)]) /\ At(u) \in Places
      BY <1>0, <1>4, <3>1, <3>2 DEF PlaceInv, HeldInv
    <3>4. At(u) # a
      BY <1>4, <3>1 DEF Target, Alone, Unlinked
    <3>5. elem[u] \in Elements /\ elem[u] # x
      BY <1>5, <1>11, <3>3, <3>4
    <3>6. next'[elem[u]].ptr = next[elem[u]].ptr
      BY <1>6, <3>5
    <3> QED
      BY <1>13, <1>14, <3>1, <3>2, <3>6 DEF Spare
  <2> QED
    BY <2>2, <2>3 DEF SpareInv
<1>16. RankInv(M, rank)'
  <2>1. ASSUME NEW q \in Producers, pc'[q] \in Unlinked, NEW k \in 1..Len(M[At(q)])
        PROVE  \E b \in {At(q), At(p)}, j \in Nat :
                  /\ j \in 1..Len(L[b]) /\ M[At(q)][k] = L[b][j]
                  /\ b = At(p) => a = At(q)
    <3>0. At(q) \in Places /\ At(q) # At(p)
      BY <1>4, <1>13, <2>1
    <3>1. CASE At(q) # a
      <4>1. M[At(q)] = L[At(q)]
        BY <1>7, <3>0, <3>1
      <4>2. k \in Nat /\ k \in 1..Len(L[At(q)])
        BY <2>1, <4>1
      <4> QED
        BY <3>0, <4>1, <4>2
    <3>2. CASE At(q) = a
      <4>1. k \in Nat /\ k >= 1 /\ k <= Len(L[a]) + Len(L[At(p)])
        BY <1>5, <1>7, <2>1, <3>2
      <4>2. CASE k <= Len(L[a])
        BY <1>5, <1>7, <2>1, <3>2, <4>1, <4>2
      <4>3. CASE k > Len(L[a])
        <5>1. k - Len(L[a]) \in 1..Len(L[At(p)])
          BY <1>5, <4>1, <4>3
        <5>2. M[a][k] = L[At(p)][k - Len(L[a])]
          BY <1>5, <1>7, <2>1, <3>2, <4>1, <4>3
        <5> QED
          BY <3>2, <5>1, <5>2
      <4> QED
        BY <1>5, <4>1, <4>2, <4>3
    <3> QED
      BY <3>1, <3>2
  <2>2. ASSUME NEW q \in Producers, pc'[q] \in Unlinked, NEW k \in 1..Len(M[At(q)])
        PROVE  rank[M[At(q)][k]] <= rank[elem'[q]]
    <3>1. PICK b \in {At(q), At(p)}, j \in Nat :
                  /\ j \in 1..Len(L[b]) /\ M[At(q)][k] = L[b][j]
                  /\ b = At(p) => a = At(q)
      BY <2>1, <2>2
    <3>2. pc[q] \in Unlinked /\ elem'[q] = elem[q] /\ q \in Threads \ {p}
      BY <1>13, <2>2
    <3>3. CASE b = At(q)
      BY <1>0, <3>1, <3>2, <3>3 DEF RankInv
    <3>4. CASE b = At(p)
      <4>1. rank[L[At(p)][j]] <= rank[elem[p]]
        BY <1>0, <1>3, <3>1, <3>4 DEF RankInv
      <4>2. Len(L[a]) \in 1..Len(L[a]) /\ L[a][Len(L[a])] = x /\ a = At(q)
        BY <1>5, <3>1, <3>4 DEF x
      <4>3. rank[x] <= rank[elem[q]]
        BY <1>0, <3>2, <4>2 DEF RankInv
      <4>4. rank[elem[p]] < rank[x]
        BY <1>0, <1>3, <3>2, <4>2 DEF RankInv, x
      <4>5. elem[q] \in Elements
        <5>1. Holding(q)
          BY <3>2 DEF Holding
        <5>2. L[a][1] = elem[q]
          BY <1>0, <3>2, <4>2, <5>1 DEF PlaceInv, HeldInv
        <5>3. 1 \in 1..Len(L[a])
          BY <1>5
        <5> QED
          BY <1>5, <5>2, <5>3
      <4>6. L[At(p)][j] \in Elements
        BY <1>4, <1>5, <3>1, <3>4
      <4>7. /\ rank[L[At(p)][j]] \in Int /\ rank[elem[p]] \in Int /\ rank[x] \in Int
            /\ rank[elem[q]] \in Int
        BY <1>5, <4>5, <4>6, SMTT(30)
      <4> QED
        BY <3>1, <3>2, <3>4, <4>1, <4>3, <4>4, <4>7, SMTT(30)
    <3> QED
      BY <3>1, <3>3, <3>4
  <2>3. ASSUME NEW s \in Producers, NEW q \in Producers, pc'[s] \in Reading,
               pc'[q] \in Unlinked, NEW k \in 1..Len(M[At(q)]), enq'[s].ptr = M[At(q)][k]
        PROVE  rank[elem'[s]] < rank[enq'[s].ptr]
    <3>1. PICK b \in {At(q), At(p)}, j \in Nat :
                  /\ j \in 1..Len(L[b]) /\ M[At(q)][k] = L[b][j]
                  /\ b = At(p) => a = At(q)
      BY <2>1, <2>3
    <3>2. /\ pc[q] \in Unlinked /\ pc[s] \in Reading /\ elem'[s] = elem[s]
          /\ enq'[s] = enq[s]
      BY <1>13, <1>14, <2>3
    <3>3. CASE b = At(q)
      BY <1>0, <2>3, <3>1, <3>2, <3>3 DEF RankInv
    <3>4. CASE b = At(p)
      BY <1>0, <1>3, <2>3, <3>1, <3>2, <3>4 DEF RankInv
    <3> QED
      BY <3>1, <3>3, <3>4
  <2> QED
    BY <2>2, <2>3 DEF RankInv
<1> QED
  BY <1>7, <1>10, <1>12, <1>15, <1>16 DEF Inv, M
-----------------------------------------------------------------------------
(* The invariant holds *)

LEMMA InitInv == Init => IInv
<1> SUFFICES ASSUME Init PROVE IInv
  OBVIOUS
<1>1. /\ Dummy \in Elements /\ Capacity \in Nat /\ Capacity >= 1
      /\ Elements = 1..(Capacity + 1) /\ NULL \notin Elements
  BY LfdsQueueAssumption, Numbers DEF Dummy
<1>2. PICK g \in Int, h \in Int, i \in Int :
         /\ enqueue = Pair(Dummy, g) /\ dequeue = Pair(Dummy, h)
         /\ next = [e \in Elements |-> Pair(NULL, i)]
  BY LfdsQueueAssumption DEF Init
<1>3. /\ freelist = [k \in 1..Capacity |-> k + 1] /\ aba_counter = 0 /\ load \in Loads
      /\ sent = [p \in Producers |-> 0] /\ elem = [t \in Threads |-> NULL]
      /\ enq = [t \in Threads |-> NoPair] /\ deq = [t \in Threads |-> NoPair]
      /\ nxt = [t \in Threads |-> NoPair] /\ out = [c \in Consumers |-> NoItem]
      /\ pc = [t \in Threads |-> "idle"] /\ user_data = [e \in Elements |-> NoItem]
  BY DEF Init
<1>4. \A t \in Threads : pc[t] = "idle" /\ elem[t] = NULL
  BY <1>3
<1>5. /\ freelist \in Seq(Elements) /\ Len(freelist) = Capacity
      /\ \A k \in 1..Capacity : freelist[k] = k + 1
  <2>1. \A k \in 1..Capacity : k + 1 \in Elements
    BY <1>1
  <2>2. freelist \in [1..Capacity -> Elements]
    BY <1>3, <2>1
  <2>3. freelist \in Seq(Elements)
    BY <1>1, <2>2, SeqDef
  <2>4. DOMAIN freelist = 1..Capacity /\ DOMAIN freelist = 1..Len(freelist)
    BY <2>2, <2>3
  <2>5. Len(freelist) = Capacity
    BY <1>1, <2>3, <2>4
  <2> QED
    BY <1>3, <2>3, <2>5
<1>6. TypesInv
  <2>1. SharedTypes
    <3>1. enqueue \in Stamped /\ dequeue \in Stamped /\ Pair(NULL, i) \in Pairs
      BY <1>1, <1>2, Numbers
    <3>2. next \in [Elements -> Pairs]
      BY <1>2, <3>1
    <3> QED
      BY <1>3, <1>5, <3>1, <3>2 DEF SharedTypes
  <2>2. pc \in [Threads -> ProducerSteps \cup ConsumerSteps]
    BY <1>3 DEF ProducerSteps
  <2>3. /\ \A p \in Producers : pc[p] \in ProducerSteps
        /\ \A c \in Consumers : pc[c] \in ConsumerSteps
    BY <1>4 DEF ProducerSteps, ConsumerSteps, Threads
  <2>4. LocalTypes
    BY <1>3, <2>2, <2>3, Numbers DEF LocalTypes
  <2> QED
    BY <2>1, <2>4 DEF TypesInv
<1>7. CopiesInv
  <2>1. ASSUME NEW p \in Producers PROVE ProducerInv(p)
    <3>1. pc[p] = "idle" /\ elem[p] = NULL /\ sent[p] = 0 /\ load[p] \in Nat
      BY <1>3, <1>4, LfdsQueueAssumption DEF Threads
    <3> QED
      BY <3>1 DEF ProducerInv, Holding, Alone, Unlinked, Reading, HasEnqueue, HasNext
  <2>2. ASSUME NEW c \in Consumers PROVE ConsumerInv(c)
    <3>1. pc[c] = "idle" /\ elem[c] = NULL
      BY <1>4 DEF Threads
    <3> QED
      BY <3>1 DEF ConsumerInv, HasDequeue, ConsumerSteps, HasEnqueue, HasNext
  <2> QED
    BY <2>1, <2>2 DEF CopiesInv
<1>8. \A t \in Threads : ~Holding(t) /\ ~Alone(t)
  BY <1>4 DEF Holding, Alone, Unlinked
<1>9. PICK L \in [Places -> Seq(Elements)] :
         /\ L[Queue] = <<Dummy>> /\ L[Free] = freelist
         /\ \A t \in Threads : L[At(t)] = <<>>
  <2> DEFINE K == [a \in Places |-> IF a = Queue THEN <<Dummy>>
                                    ELSE IF a = Free THEN freelist ELSE <<>>]
  <2>1. <<Dummy>> \in Seq(Elements) /\ <<>> \in Seq(Elements)
    BY <1>1
  <2>2. K \in [Places -> Seq(Elements)]
    BY <1>5, <2>1
  <2>3. K[Queue] = <<Dummy>> /\ K[Free] = freelist /\ \A t \in Threads : K[At(t)] = <<>>
    BY PlacesDiffer
  <2> HIDE DEF K
  <2> QED
    BY <2>2, <2>3
<1>10. Len(L[Queue]) = 1 /\ L[Queue][1] = Dummy /\ \A t \in Threads : Len(L[At(t)]) = 0
  BY <1>9
<1>11. PlaceInv(L)
  <2>1. OnePlace(L)
    <3> SUFFICES ASSUME NEW a \in Places, NEW b \in Places, NEW j \in 1..Len(L[a]),
                        NEW k \in 1..Len(L[b]), L[a][j] = L[b][k]
                 PROVE  a = b /\ j = k
      BY DEF OnePlace
    <3>1. a \in {Queue, Free} /\ b \in {Queue, Free}
      BY <1>10, PlacesDiffer
    <3>2. /\ a = Queue => j = 1 /\ L[a][j] = 1
          /\ a = Free => j \in 1..Capacity /\ L[a][j] = j + 1
      BY <1>5, <1>9, <1>10 DEF Dummy
    <3>3. /\ b = Queue => k = 1 /\ L[b][k] = 1
          /\ b = Free => k \in 1..Capacity /\ L[b][k] = k + 1
      BY <1>5, <1>9, <1>10 DEF Dummy
    <3> QED
      BY <1>1, <3>1, <3>2, <3>3
  <2>2. Everywhere(L)
    <3> SUFFICES ASSUME NEW e \in Elements
                 PROVE  \E a \in Places : \E k \in 1..Len(L[a]) : L[a][k] = e
      BY DEF Everywhere
    <3>1. CASE e = 1
      BY <1>10, <3>1, PlacesDiffer DEF Dummy
    <3>2. CASE e # 1
      <4>1. e - 1 \in 1..Len(L[Free]) /\ (e - 1) + 1 = e
        BY <1>1, <1>5, <1>9, <3>2
      <4>2. L[Free][e - 1] = e
        BY <1>5, <1>9, <4>1
      <4> QED
        BY <4>1, <4>2, PlacesDiffer
    <3> QED
      BY <3>1, <3>2
  <2>3. \A t \in Threads : HeldInv(L, t)
    BY <1>8, <1>9 DEF HeldInv
  <2> QED
    BY <1>9, <2>1, <2>2, <2>3 DEF PlaceInv
<1>12. \A p \in Producers : pc[p] \notin Unlinked /\ pc[p] \notin Reading
  BY <1>4 DEF Unlinked, Reading, Threads
<1>13. ListInv(L)
  <2>1. enqueue.ptr = Dummy /\ dequeue.ptr = Dummy /\ next[Dummy].ptr = NULL
    BY <1>1, <1>2, Numbers
  <2>2. Linked(L[Queue], next)
    BY <1>10, <2>1 DEF Linked
  <2> QED
    BY <1>10, <1>12, <2>1, <2>2 DEF ListInv
<1>14. SpareInv(L)
  BY <1>8, <1>12 DEF SpareInv, Spare
<1>15. PICK rank \in [Elements -> 0..0] : TRUE
  <2>1. [e \in Elements |-> 0] \in [Elements -> 0..0]
    OBVIOUS
  <2> QED
    BY <2>1
<1>16. RankInv(L, rank)
  BY <1>12 DEF RankInv
<1>17. Inv(L, rank) /\ 0 \in Nat
  BY <1>11, <1>13, <1>14, <1>16 DEF Inv
<1> QED
  BY <1>6, <1>7, <1>17 DEF IInv

LEMMA ProducerInvariant ==
    ASSUME TypesInv, CopiesInv, NEW L \in [Places -> Seq(Elements)], NEW N \in Nat,
           NEW rank \in [Elements -> 0..N], Inv(L, rank), NEW p \in Producers, Enqueue(p)
    PROVE  IInv'
<1>0. p \in Threads /\ ProducerInv(p) /\ PlaceInv(L) /\ ListInv(L)
  BY DEF Threads, CopiesInv, Inv
<1>1. TypesInv'
  BY ProducerTypes
<1>2. CopiesInv' /\ Others(p)
  BY <1>0, <1>1, ProducerCopies
<1> SUFFICES \E M \in [Places -> Seq(Elements)], K \in Nat :
                \E r \in [Elements -> 0..K] : Inv(M, r)'
  BY <1>1, <1>2 DEF IInv
<1>3. CASE PopElement(p)
  <2>1. PICK M \in [Places -> Seq(Elements)] : Inv(M, rank)'
    BY <1>3, PopMoves
  <2> QED
    BY <2>1
<1>4. CASE InitPointer(p)
  <2>1. PICK r : r = [rank EXCEPT ![elem[p]] = N + 1]
    OBVIOUS
  <2>2. r \in [Elements -> 0..(N + 1)] /\ Inv(L, r)'
    BY <1>4, <2>1, InitMoves
  <2>3. N + 1 \in Nat
    OBVIOUS
  <2> QED
    BY <2>2, <2>3
<1>5. CASE LinkElement(p) /\ next[enq[p].ptr] = nxt[p]
  <2>1. PICK a \in Places : /\ Target(a, p) /\ Linked(L[a], next) /\ Len(L[a]) >= 1
                            /\ L[a][Len(L[a])] = enq[p].ptr
    BY <1>0, <1>5, LinkTarget
  <2>2. PICK M \in [Places -> Seq(Elements)] : Inv(M, rank)'
    BY <1>0, <1>5, <2>1, LinkMoves
  <2> QED
    BY <2>2
<1>6. CASE /\ ~PopElement(p) /\ ~InitPointer(p)
           /\ ~(LinkElement(p) /\ next[enq[p].ptr] = nxt[p])
  <2>1. Calm(p) /\ \E k \in 1..Len(L[Queue]) : L[Queue][k] = enqueue'.ptr
    BY <1>0, <1>1, <1>6, ProducerCalm
  <2>2. Inv(L, rank)'
    BY <1>0, <1>2, <2>1, KeepsPlaces
  <2> QED
    BY <2>2
<1> QED
  BY <1>3, <1>4, <1>5, <1>6

LEMMA ConsumerInvariant ==
    ASSUME TypesInv, CopiesInv, NEW L \in [Places -> Seq(Elements)], NEW N \in Nat,
           NEW rank \in [Elements -> 0..N], Inv(L, rank), NEW c \in Consumers, Dequeue(c)
    PROVE  IInv'
<1>0. c \in Threads /\ ConsumerInv(c) /\ PlaceInv(L) /\ ListInv(L)
  BY DEF Threads, CopiesInv, Inv
<1>1. TypesInv'
  BY ConsumerTypes
<1>2. CopiesInv' /\ Others(c)
  BY <1>0, <1>1, ConsumerCopies
<1> SUFFICES \E M \in [Places -> Seq(Elements)] : Inv(M, rank)'
  BY <1>1, <1>2 DEF IInv
<1>3. CASE AdvanceDequeue(c) /\ dequeue = deq[c]
  BY <1>0, <1>3, AdvanceMoves
<1>4. CASE PushElement(c)
  BY <1>4, PushMoves
<1>5. CASE ~(AdvanceDequeue(c) /\ dequeue = deq[c]) /\ ~PushElement(c)
  <2>1. Calm(c) /\ \E k \in 1..Len(L[Queue]) : L[Queue][k] = enqueue'.ptr
    BY <1>0, <1>1, <1>5, ConsumerCalm
  <2> QED
    BY <1>0, <1>2, <2>1, KeepsPlaces
<1> QED
  BY <1>3, <1>4, <1>5

\* IInv is an invariant: each element is in one place, and the copies threads
\* made of shared words tell what they need to.
THEOREM QueueInvariant == Spec => []IInv
<1>1. Init => IInv
  BY InitInv
<1>2. IInv /\ [Next]_vars => IInv'
  <2> SUFFICES ASSUME IInv, [Next]_vars PROVE IInv'
    OBVIOUS
  <2>1. PICK L \in [Places -> Seq(Elements)], N \in Nat :
           \E rank \in [Elements -> 0..N] : Inv(L, rank)
    BY DEF IInv
  <2>2. PICK rank \in [Elements -> 0..N] : Inv(L, rank)
    BY <2>1
  <2>3. TypesInv /\ CopiesInv
    BY DEF IInv
  <2>4. CASE \E p \in Producers : Enqueue(p)
    BY <2>2, <2>3, <2>4, ProducerInvariant
  <2>5. CASE \E c \in Consumers : Dequeue(c)
    BY <2>2, <2>3, <2>5, ConsumerInvariant
  <2>6. CASE UNCHANGED vars
    <3>1. TypesInv'
      BY <2>3, <2>6 DEF vars, shared, local, TypesInv, SharedTypes, LocalTypes
    <3>2. CopiesInv'
      BY <2>3, <2>6 DEF vars, shared, local, CopiesInv, ProducerInv, ConsumerInv, Holding,
                        Alone
    <3>3. Inv(L, rank)'
      <4>1. /\ UNCHANGED <<freelist, next, enqueue, dequeue, pc, elem, enq>>
            /\ PlaceInv(L) /\ ListInv(L) /\ SpareInv(L) /\ RankInv(L, rank)
        BY <2>2, <2>6 DEF vars, shared, local, Inv
      <4>2. PlaceInv(L)'
        BY <4>1 DEF PlaceInv, HeldInv, Holding, Alone, OnePlace, Everywhere
      <4>3. ListInv(L)'
        BY <4>1 DEF ListInv, Linked
      <4>4. SpareInv(L)'
        BY <4>1 DEF SpareInv, Spare, Alone
      <4>5. RankInv(L, rank)'
        BY <4>1 DEF RankInv
      <4> QED
        BY <4>2, <4>3, <4>4, <4>5 DEF Inv
    <3> QED
      BY <3>1, <3>2, <3>3 DEF IInv
  <2> QED
    BY <2>4, <2>5, <2>6 DEF Next
<1> QED
  BY <1>1, <1>2, PTL DEF Spec
-----------------------------------------------------------------------------
(* Chain finds the list that is there *)

\* The least-number principle for a set of numbers
LEMMA LeastNumber ==
    ASSUME NEW T, T \subseteq Nat, T # {}
    PROVE  \E x \in T : \A y \in T : ~(y < x)
<1> DEFINE R == {ss \in Nat \X Nat : ss[1] < ss[2]}
<1>1. IsWellFoundedOn(R, Nat)
  BY NatLessThanWellFounded DEF OpToRel
<1> HIDE DEF R
<1>2. \E x \in T : \A y \in T : ~(<<y, x>> \in R)
  BY <1>1, WFMin
<1> QED
  BY <1>2 DEF R

Distinct(S) == \A j \in 1..Len(S), k \in 1..Len(S) : S[j] = S[k] => j = k

\* How many elements a list has
LEMMA Counted ==
    ASSUME NEW S \in Seq(Elements), Distinct(S)
    PROVE  Len(S) = Cardinality(Members(S)) /\ Len(S) \in Nat /\ Len(S) <= Capacity + 1
<1>1. Len(S) \in Nat /\ DOMAIN S = 1..Len(S) /\ \A k \in 1..Len(S) : S[k] \in Elements
  BY ElementOfSeq
<1>2. S = [k \in 1..Len(S) |-> S[k]]
  BY <1>1
<1>3. Members(S) = {S[k] : k \in 1..Len(S)}
  BY <1>1 DEF Members
<1>4. S \in Bijection(1..Len(S), Members(S))
  BY <1>1, <1>2, <1>3 DEF Distinct, Bijection, Injection, Surjection, IsInjective
<1>5. IsFiniteSet(1..Len(S)) /\ Cardinality(1..Len(S)) = Len(S)
  <2>1. \A n \in Nat : IsFiniteSet(1..n) /\ Cardinality(1..n) = IF 1 > n THEN 0 ELSE n - 1 + 1
    BY FS_Interval
  <2> QED
    BY <1>1, <2>1
<1>6. Cardinality(Members(S)) = Len(S)
  BY <1>4, <1>5, FS_Bijection DEF ExistsBijection
<1>7. IsFiniteSet(Elements) /\ Cardinality(Elements) = Capacity + 1
  BY FS_Interval, Numbers
<1>8. Cardinality(Members(S)) <= Cardinality(Elements)
  <2>1. Members(S) \in SUBSET Elements
    BY <1>1, <1>3
  <2> QED
    BY <1>7, <2>1, FS_Subset
<1> QED
  BY <1>1, <1>6, <1>7, <1>8

\* What the n-th turn of ChainFrom makes of the turns before it
Turn(f, n, e, links) ==
    IF n = 0 THEN <<e>>
    ELSE LET before == f[n - 1]
             succ == links[before[Len(before)]].ptr
         IN  IF succ = NULL THEN before ELSE Append(before, succ)

\* The first n + 1 elements of a list
Prefix(S, n) == [k \in 1..(IF n < Len(S) THEN n + 1 ELSE Len(S)) |-> S[k]]

LEMMA PrefixTurn ==
    ASSUME NEW S \in Seq(Elements), Len(S) >= 1, NEW links, Linked(S, links),
           NEW n \in Nat, NEW f, n = 0 \/ f[n - 1] = Prefix(S, n - 1)
    PROVE  Turn(f, n, S[1], links) = Prefix(S, n)
<1>0. Len(S) \in Nat /\ \A k \in 1..Len(S) : S[k] \in Elements /\ S[k] # NULL
  BY ElementOfSeq, Numbers
<1>1. CASE n = 0
  <2>1. Prefix(S, 0) = <<S[1]>>
    BY <1>0 DEF Prefix
  <2> QED
    BY <1>1, <2>1 DEF Turn
<1>2. CASE n > 0 /\ n < Len(S)
  <2>1. Prefix(S, n - 1) = [k \in 1..n |-> S[k]]
    BY <1>0, <1>2 DEF Prefix
  <2>2. Prefix(S, n) = [k \in 1..n + 1 |-> S[k]]
    BY <1>0, <1>2 DEF Prefix
  <2>3. Prefix(S, n - 1) \in Seq(Elements) /\ Len(Prefix(S, n - 1)) = n
    BY <1>0, <1>2, <2>1
  <2>4. Append(Prefix(S, n - 1), S[n + 1]) = Prefix(S, n)
    BY <1>0, <1>2, <2>1, <2>2, <2>3
  <2>5. Prefix(S, n - 1)[n] = S[n]
    BY <1>2, <2>1
  <2>6. n \in 1..Len(S) /\ n + 1 \in 1..Len(S)
    BY <1>0, <1>2
  <2>7. links[S[n]].ptr = S[n + 1] /\ S[n + 1] # NULL
    BY <1>0, <1>2, <2>6 DEF Linked
  <2>8. f[n - 1] = Prefix(S, n - 1) /\ n # 0
    BY <1>2
  <2> QED
    BY <2>3, <2>4, <2>5, <2>7, <2>8 DEF Turn
<1>3. CASE n > 0 /\ n >= Len(S)
  <2>1. Prefix(S, n - 1) = S /\ Prefix(S, n) = S
    <3>1. S = [k \in 1..Len(S) |-> S[k]]
      OBVIOUS
    <3>2. (IF n - 1 < Len(S) THEN n - 1 + 1 ELSE Len(S)) = Len(S)
      BY <1>0, <1>3
    <3>3. (IF n < Len(S) THEN n + 1 ELSE Len(S)) = Len(S)
      BY <1>0, <1>3
    <3> QED
      BY <3>1, <3>2, <3>3 DEF Prefix
  <2>2. Len(S) \in 1..Len(S)
    BY <1>0
  <2>3. links[S[Len(S)]].ptr = NULL
    BY <1>0, <2>2 DEF Linked
  <2>4. f[n - 1] = S /\ n # 0
    BY <1>3, <2>1
  <2> QED
    BY <2>1, <2>3, <2>4 DEF Turn
<1> QED
  BY <1>0, <1>1, <1>2, <1>3

\* ChainFrom returns the list that the links make.
LEMMA ChainIsList ==
    ASSUME NEW S \in Seq(Elements), Len(S) >= 1, Distinct(S), NEW links, Linked(S, links)
    PROVE  ChainFrom(S[1], links) = S
<1> DEFINE N == Capacity + 1
           P(f) == f = [n \in 0..N |-> Turn(f, n, S[1], links)]
           g == [n \in 0..N |-> Prefix(S, n)]
           c == CHOOSE f : P(f)
<1>0. N \in Nat /\ Len(S) \in Nat /\ Len(S) <= N
  BY Counted, Numbers
<1>1. ChainFrom(S[1], links) = c[N]
  BY DEF ChainFrom, Turn
<1>2. \A n \in 0..N : Turn(g, n, S[1], links) = Prefix(S, n)
  <2> TAKE n \in 0..N
  <2>0. n \in Nat /\ (n = 0 \/ n - 1 \in 0..N)
    BY <1>0
  <2>1. n = 0 \/ g[n - 1] = Prefix(S, n - 1)
    BY <2>0
  <2>2. \A f : (n = 0 \/ f[n - 1] = Prefix(S, n - 1)) =>
                 Turn(f, n, S[1], links) = Prefix(S, n)
    BY <2>0, PrefixTurn
  <2> QED
    BY <2>1, <2>2
<1>3. P(g)
  BY <1>2
<1> HIDE DEF P
<1>4. P(c)
  BY <1>3, Zenon
<1> HIDE DEF c
<1>5. \A n \in 0..N : c[n] = Turn(c, n, S[1], links)
  BY <1>4 DEF P
<1> HIDE DEF N
<1>6. \A n \in 0..N : c[n] = Prefix(S, n)
  <2> DEFINE T == {n \in 0..N : c[n] # Prefix(S, n)}
  <2>1. SUFFICES ASSUME T # {} PROVE FALSE
    OBVIOUS
  <2>2. T \subseteq Nat
    BY <1>0
  <2>. HIDE DEF T
  <2>3. PICK x \in T : \A y \in T : ~(y < x)
    BY <2>1, <2>2, LeastNumber
  <2>4. x \in Nat /\ x \in 0..N /\ (x = 0 \/ x - 1 \in 0..N)
    BY <1>0 DEF T
  <2>5. x = 0 \/ c[x - 1] = Prefix(S, x - 1)
    <3>1. x # 0 => x - 1 \notin T
      <4>1. x # 0 => x - 1 < x
        BY <2>4
      <4> QED
        BY <2>4, <2>3, <4>1
    <3> QED
      BY <2>4, <3>1 DEF T
  <2>6. Turn(c, x, S[1], links) = Prefix(S, x)
    BY <2>4, <2>5, PrefixTurn
  <2> QED
    BY <1>5, <2>4, <2>6 DEF T
<1>7. Prefix(S, N) = S
  <2>1. ~(N < Len(S))
    BY <1>0
  <2>2. S = [k \in 1..Len(S) |-> S[k]]
    OBVIOUS
  <2> QED
    BY <2>1, <2>2 DEF Prefix
<1>8. N \in 0..N
  BY <1>0
<1> QED
  BY <1>1, <1>6, <1>7, <1>8

LEMMA ChainIs ==
    ASSUME NEW L \in [Places -> Seq(Elements)], PlaceInv(L), ListInv(L)
    PROVE  Chain = L[Queue]
<1>1. L[Queue] \in Seq(Elements) /\ Len(L[Queue]) >= 1 /\ Linked(L[Queue], next)
      /\ L[Queue][1] = dequeue.ptr
  BY PlacesDiffer DEF ListInv
<1>2. Distinct(L[Queue])
  BY PlacesDiffer DEF Distinct, PlaceInv, OnePlace
<1>3. ChainFrom(L[Queue][1], next) = L[Queue]
  BY <1>1, <1>2, ChainIsList
<1> QED
  BY <1>1, <1>3 DEF Chain

-----------------------------------------------------------------------------
(* The invariants of LfdsQueue *)

(***************************************************************************)
(* qs->enqueue, qs->dequeue, the links, the freelist and user_data hold    *)
(* what they are meant to, whatever memory queue_new found.                *)
(***************************************************************************)
THEOREM QueueTypes == Spec => []TypeOK
<1>1. IInv => TypeOK
  BY Numbers DEF IInv, TypesInv, SharedTypes, TypeOK
<1> QED
  BY <1>1, QueueInvariant, PTL

(***************************************************************************)
(* For any number of threads and elements, with reads of two words that    *)
(* are not atomic and recycled elements: no element is in the list and in  *)
(* the freelist, twice in one of them, or in one while queue_enqueue or    *)
(* queue_dequeue has it.                                                   *)
(***************************************************************************)
THEOREM QueueElementsDisjoint == Spec => []ElementsDisjoint
<1>1. IInv => ElementsDisjoint
  <2> SUFFICES ASSUME IInv PROVE ElementsDisjoint
    OBVIOUS
  <2>1. PICK L \in [Places -> Seq(Elements)] : PlaceInv(L) /\ ListInv(L)
    BY DEF IInv, Inv
  <2>2. CopiesInv /\ TypesInv
    BY DEF IInv
  <2>3. Chain = L[Queue] /\ L[Free] = freelist
    BY <2>1, ChainIs DEF PlaceInv
  <2>4. /\ Queue \in Places /\ Free \in Places /\ Queue # Free
        /\ \A t \in Threads : At(t) \in Places /\ At(t) # Queue /\ At(t) # Free
    BY PlacesDiffer
  <2>5. OnePlace(L)
    BY <2>1 DEF PlaceInv
  <2>6. Len(freelist) = Cardinality(Members(freelist)) /\ Len(Chain) = Cardinality(Members(Chain))
    <3>1. Distinct(L[Queue]) /\ Distinct(L[Free])
      BY <2>4, <2>5 DEF Distinct, OnePlace
    <3>2. L[Queue] \in Seq(Elements) /\ L[Free] \in Seq(Elements)
      BY <2>4
    <3>3. Len(L[Queue]) = Cardinality(Members(L[Queue]))
      BY <3>1, <3>2, Counted
    <3>4. Len(L[Free]) = Cardinality(Members(L[Free]))
      BY <3>1, <3>2, Counted
    <3> QED
      BY <2>3, <3>3, <3>4
  <2>7. ASSUME NEW a \in Places, NEW b \in Places, a # b, NEW e \in Members(L[a])
        PROVE  e \notin Members(L[b])
    <3>1. Members(L[a]) = {L[a][k] : k \in 1..Len(L[a])}
          /\ Members(L[b]) = {L[b][k] : k \in 1..Len(L[b])}
      BY DEF Members
    <3> QED
      BY <2>5, <2>7, <3>1 DEF OnePlace
  <2>8. Members(freelist) \cap Members(Chain) = {}
    BY <2>3, <2>4, <2>7
  <2>9. ASSUME NEW t \in Threads, elem[t] # NULL, pc[t] \notin {"swing", "return_1"}
        PROVE  elem[t] \notin Members(freelist) \cup Members(Chain)
    <3>1. Holding(t)
      <4>1. CASE t \in Producers
        <5>1. ProducerInv(t) /\ pc[t] \in ProducerSteps
          BY <2>2, <4>1 DEF CopiesInv, TypesInv, LocalTypes
        <5> QED
          BY <2>9, <4>1, <5>1 DEF ProducerInv, ProducerSteps, Holding, Alone
      <4>2. CASE t \in Consumers
        <5>1. ConsumerInv(t) /\ t \notin Producers
          BY <2>2, <4>2, LfdsQueueAssumption DEF CopiesInv
        <5> QED
          BY <2>9, <5>1 DEF ConsumerInv, Holding, Alone
      <4> QED
        BY <4>1, <4>2 DEF Threads
    <3>2. Len(L[At(t)]) >= 1 /\ L[At(t)][1] = elem[t] /\ L[At(t)] \in Seq(Elements)
      BY <2>1, <2>4, <3>1 DEF PlaceInv, HeldInv
    <3>3. 1 \in DOMAIN L[At(t)]
      BY <3>2
    <3>4. elem[t] \in Members(L[At(t)])
      BY <3>2, <3>3 DEF Members
    <3> QED
      BY <2>3, <2>4, <2>7, <3>4
  <2> QED
    BY <2>6, <2>8, <2>9 DEF ElementsDisjoint
<1> QED
  BY <1>1, QueueInvariant, PTL

(***************************************************************************)
(* queue_dequeue follows next[QUEUE_POINTER] to user_data only when it is  *)
(* not NULL: a copy of qs->enqueue that differs from that of qs->dequeue   *)
(* means that the first element has a successor, however old the copies    *)
(* are, for any number of threads.                                         *)
(***************************************************************************)
THEOREM QueueNoNullDereference == Spec => []NoNullDereference
<1>1. IInv => NoNullDereference
  BY DEF IInv, CopiesInv, ConsumerInv, NoNullDereference
<1> QED
  BY <1>1, QueueInvariant, PTL

-----------------------------------------------------------------------------
(* The abstract queue, as the lists tell *)

\* ItemsAfterFirst, of any user_data
Data(S, data) == [k \in 1..(Len(S) - 1) |-> data[S[k + 1]]]
HeldData(L, data) == [p \in Producers |-> Data(L[At(p)], data)]

LEMMA DataSeq ==
    ASSUME NEW R, NEW data \in [Elements -> R]
    PROVE  \A S \in Seq(Elements) : Len(S) >= 1 =>
             /\ Data(S, data) \in Seq(R) /\ Len(Data(S, data)) = Len(S) - 1
             /\ \A k \in 1..(Len(S) - 1) : Data(S, data)[k] = data[S[k + 1]]
<1> SUFFICES ASSUME NEW S \in Seq(Elements), Len(S) >= 1
             PROVE  /\ Data(S, data) \in Seq(R) /\ Len(Data(S, data)) = Len(S) - 1
                    /\ \A k \in 1..(Len(S) - 1) : Data(S, data)[k] = data[S[k + 1]]
  OBVIOUS
<1>1. Len(S) \in Nat /\ (\A k \in 1..Len(S) : S[k] \in Elements) /\ Len(S) - 1 \in Nat
  BY ElementOfSeq
<1>2. \A k \in 1..(Len(S) - 1) : k + 1 \in 1..Len(S)
  BY <1>1
<1>3. Data(S, data) \in [1..(Len(S) - 1) -> R]
  BY <1>1, <1>2 DEF Data
<1>4. \A k \in 1..(Len(S) - 1) : Data(S, data)[k] = data[S[k + 1]]
  BY DEF Data
<1> HIDE DEF Data
<1>5. Data(S, data) \in Seq(R) /\ Len(Data(S, data)) = Len(S) - 1
  BY <1>1, <1>3, SeqDef
<1> QED
  BY <1>4, <1>5

LEMMA DataEmpty ==
    ASSUME NEW S \in Seq(Elements), Len(S) <= 1, NEW data
    PROVE  Data(S, data) = <<>>
<1>1. Data(S, data) \in [1..0 -> Elements]
  <2>1. 1..(Len(S) - 1) = {} /\ 1..0 = {}
    OBVIOUS
  <2> QED
    BY <2>1 DEF Data
<1> HIDE DEF Data
<1>2. Data(S, data) \in Seq(Elements) /\ Len(Data(S, data)) = 0
  BY <1>1, SeqDef
<1> QED
  BY <1>2, EmptySeq

\* What is behind a list that is linked to another one
LEMMA DataJoin ==
    ASSUME NEW S \in Seq(Elements), NEW T \in Seq(Elements), Len(S) >= 1, Len(T) >= 1,
           NEW R, NEW data \in [Elements -> R]
    PROVE  Data(S \o T, data) = Data(S, data) \o <<data[T[1]]>> \o Data(T, data)
<1> DEFINE J == S \o T
           A == Data(S, data)
           B == <<data[T[1]]>>
           C == Data(T, data)
           AB == A \o B
           ABC == AB \o C
           n == Len(S) + Len(T) - 1
<1>1. /\ Len(J) = Len(S) + Len(T) /\ Len(S) \in Nat /\ Len(T) \in Nat
      /\ \A k \in 1..(Len(S) + Len(T)) : J[k] = IF k <= Len(S) THEN S[k] ELSE T[k - Len(S)]
      /\ J \in Seq(Elements)
  BY ConcatProperties
<1>a. \A K \in Seq(Elements) : Len(K) >= 1 =>
         /\ Data(K, data) \in Seq(R) /\ Len(Data(K, data)) = Len(K) - 1
         /\ \A k \in 1..(Len(K) - 1) : Data(K, data)[k] = data[K[k + 1]]
  BY DataSeq
<1>2. /\ A \in Seq(R) /\ Len(A) = Len(S) - 1
      /\ \A k \in 1..(Len(S) - 1) : A[k] = data[S[k + 1]]
  BY <1>a, Zenon
<1>3. /\ C \in Seq(R) /\ Len(C) = Len(T) - 1
      /\ \A k \in 1..(Len(T) - 1) : C[k] = data[T[k + 1]]
  BY <1>a, Zenon
<1>4. B \in Seq(R) /\ Len(B) = 1 /\ B[1] = data[T[1]]
  <2>1. 1 \in 1..Len(T)
    BY <1>1
  <2>2. T[1] \in Elements
    BY <2>1, ElementOfSeq
  <2> QED
    BY <2>2
<1>5. Len(J) >= 1 /\ Len(Data(J, data)) = n /\ Data(J, data) \in Seq(R)
      /\ \A k \in 1..(Len(J) - 1) : Data(J, data)[k] = data[J[k + 1]]
  <2>1. Len(J) >= 1 /\ Len(J) - 1 = n
    BY <1>1
  <2> HIDE DEF J, n
  <2>2. /\ Data(J, data) \in Seq(R) /\ Len(Data(J, data)) = Len(J) - 1
        /\ \A k \in 1..(Len(J) - 1) : Data(J, data)[k] = data[J[k + 1]]
    <3>1. J \in Seq(Elements) /\ Len(J) >= 1
      BY <1>1, <2>1
    <3> QED
      BY <3>1, <1>a, Zenon
  <2> QED
    BY <2>1, <2>2
<1> HIDE DEF A, B, C, J
<1>6. /\ AB \in Seq(R) /\ Len(AB) = Len(S)
      /\ \A k \in 1..Len(S) : AB[k] = IF k <= Len(S) - 1 THEN data[S[k + 1]] ELSE data[T[1]]
  <2>1. /\ AB \in Seq(R) /\ Len(AB) = Len(A) + Len(B)
        /\ \A k \in 1..(Len(A) + Len(B)) : AB[k] = IF k <= Len(A) THEN A[k] ELSE B[k - Len(A)]
    BY <1>2, <1>4, ConcatProperties, ZenonT(60)
  <2> HIDE DEF AB
  <2>2. Len(A) + Len(B) = Len(S) /\ Len(AB) = Len(S)
    BY <1>1, <1>2, <1>4, <2>1
  <2>3. ASSUME NEW k \in 1..Len(S)
        PROVE  AB[k] = IF k <= Len(S) - 1 THEN data[S[k + 1]] ELSE data[T[1]]
    <3>1. CASE k <= Len(S) - 1
      <4>1. k <= Len(A) /\ k \in 1..(Len(A) + Len(B)) /\ k \in 1..(Len(S) - 1)
        BY <1>1, <1>2, <2>2, <3>1
      <4>2. AB[k] = A[k] /\ A[k] = data[S[k + 1]]
        BY <1>2, <2>1, <4>1
      <4> QED
        BY <3>1, <4>2
    <3>2. CASE k = Len(S)
      <4>1. k - Len(A) = 1 /\ ~(k <= Len(A)) /\ k \in 1..(Len(A) + Len(B))
        BY <1>1, <1>2, <2>2, <3>2
      <4> QED
        BY <1>1, <1>4, <2>1, <3>2, <4>1
    <3> QED
      BY <1>1, <3>1, <3>2
  <2> QED
    BY <2>1, <2>2, <2>3
<1> HIDE DEF AB
<1>7. /\ ABC \in Seq(R) /\ Len(ABC) = n
      /\ \A k \in 1..n : ABC[k] = IF k <= Len(S) THEN AB[k] ELSE C[k - Len(S)]
  <2>1. /\ ABC \in Seq(R) /\ Len(ABC) = Len(AB) + Len(C)
        /\ \A k \in 1..(Len(AB) + Len(C)) : ABC[k] = IF k <= Len(AB) THEN AB[k] ELSE C[k - Len(AB)]
    <3>1. AB \in Seq(R) /\ C \in Seq(R)
      BY <1>3, <1>6
    <3> HIDE DEF n
    <3> QED
      BY <3>1, ConcatProperties
  <2>2. Len(AB) = Len(S) /\ Len(AB) + Len(C) = n
    BY <1>1, <1>3, <1>6
  <2> HIDE DEF ABC, n
  <2> QED
    BY <2>1, <2>2
<1> HIDE DEF ABC
<1>8. ASSUME NEW k \in 1..n PROVE Data(J, data)[k] = ABC[k]
  <2>0. k \in Nat /\ k >= 1 /\ k + 1 \in 1..(Len(S) + Len(T)) /\ k \in 1..(Len(J) - 1)
    BY <1>1
  <2>1. Data(J, data)[k] = data[J[k + 1]]
    BY <1>5, <2>0
  <2>2. CASE k <= Len(S) - 1
    <3>1. J[k + 1] = S[k + 1]
      BY <1>1, <2>0, <2>2
    <3>2. ABC[k] = AB[k] /\ AB[k] = data[S[k + 1]]
      BY <1>1, <1>6, <1>7, <2>0, <2>2
    <3> QED
      BY <2>1, <3>1, <3>2
  <2>3. CASE k = Len(S)
    <3>1. ~(k + 1 <= Len(S)) /\ (k + 1) - Len(S) = 1 /\ k \in 1..Len(S) /\ ~(k <= Len(S) - 1)
      BY <1>1, <2>0, <2>3
    <3>2. J[k + 1] = T[1]
      BY <1>1, <2>0, <3>1
    <3>3. ABC[k] = AB[k]
      BY <1>7, <2>3
    <3>4. AB[k] = data[T[1]]
      BY <1>6, <3>1
    <3> QED
      BY <2>1, <3>2, <3>3, <3>4
  <2>4. CASE k > Len(S)
    <3>1. ~(k + 1 <= Len(S)) /\ ~(k <= Len(S)) /\ k - Len(S) \in 1..(Len(T) - 1)
          /\ (k + 1) - Len(S) = (k - Len(S)) + 1
      BY <1>1, <2>0, <2>4
    <3>2. J[k + 1] = T[(k - Len(S)) + 1]
      BY <1>1, <2>0, <3>1
    <3>3. ABC[k] = C[k - Len(S)]
      BY <1>7, <3>1
    <3>4. C[k - Len(S)] = data[T[(k - Len(S)) + 1]]
      BY <1>3, <3>1
    <3> QED
      BY <2>1, <3>2, <3>3, <3>4
  <2> QED
    BY <1>1, <2>0, <2>2, <2>3, <2>4
<1>9. Data(J, data) = ABC
  <2>1. Len(Data(J, data)) = Len(ABC) /\ \A k \in 1..Len(ABC) : Data(J, data)[k] = ABC[k]
    BY <1>5, <1>7, <1>8
  <2> HIDE DEF n
  <2> QED
    BY <1>5, <1>7, <2>1, SeqEqual
<1> QED
  BY <1>9 DEF J, ABC, AB, A, B, C

\* What is left when the first element has gone
LEMMA DataTail ==
    ASSUME NEW S \in Seq(Elements), Len(S) >= 2, NEW R, NEW data \in [Elements -> R]
    PROVE  /\ Data(S, data) # <<>> /\ Head(Data(S, data)) = data[S[2]]
           /\ Data(Tail(S), data) = Tail(Data(S, data))
<1> DEFINE T == Tail(S)
           A == Data(S, data)
           B == Data(T, data)
<1>b. /\ T \in Seq(Elements) /\ Len(T) = Len(S) - 1
      /\ \A k \in 1..Len(T) : T[k] = S[k + 1]
  <2>1. S # <<>>
    BY EmptySeq
  <2> QED
    BY <2>1, HeadTailProperties
<1> HIDE DEF T
<1>0. Len(S) \in Nat /\ Len(T) \in Nat /\ Len(S) >= 1 /\ Len(T) >= 1
  BY <1>b
<1>a. \A K \in Seq(Elements) : Len(K) >= 1 =>
         /\ Data(K, data) \in Seq(R) /\ Len(Data(K, data)) = Len(K) - 1
         /\ \A k \in 1..(Len(K) - 1) : Data(K, data)[k] = data[K[k + 1]]
  BY DataSeq
<1>1. /\ A \in Seq(R) /\ Len(A) = Len(S) - 1
      /\ \A k \in 1..(Len(S) - 1) : A[k] = data[S[k + 1]]
  BY <1>0, <1>a, Zenon
<1>2. /\ B \in Seq(R) /\ Len(B) = Len(T) - 1
      /\ \A k \in 1..(Len(T) - 1) : B[k] = data[T[k + 1]]
  BY <1>0, <1>a, <1>b, Zenon
<1> HIDE DEF A, B
<1>3. A # <<>> /\ 1 \in 1..(Len(S) - 1)
  BY <1>0, <1>1, EmptySeq
<1>4. /\ Head(A) = A[1] /\ Tail(A) \in Seq(R) /\ Len(Tail(A)) = Len(A) - 1
      /\ \A k \in 1..(Len(A) - 1) : Tail(A)[k] = A[k + 1]
  <2>1. A \in Seq(R) /\ A # <<>>
    BY <1>1, <1>3
  <2> QED
    BY <2>1, HeadTailProperties
<1>5. Head(A) = data[S[2]]
  <2>1. A[1] = data[S[1 + 1]]
    BY <1>1, <1>3
  <2> QED
    BY <1>4, <2>1
<1>6. ASSUME NEW k \in 1..Len(B) PROVE B[k] = Tail(A)[k]
  <2>1. k \in 1..(Len(T) - 1) /\ k + 1 \in 1..Len(T) /\ k \in 1..(Len(A) - 1)
        /\ k + 1 \in 1..(Len(S) - 1)
    BY <1>0, <1>b, <1>1, <1>2
  <2>2. B[k] = data[T[k + 1]] /\ T[k + 1] = S[(k + 1) + 1]
    BY <1>2, <1>b, <2>1
  <2>3. Tail(A)[k] = A[k + 1] /\ A[k + 1] = data[S[(k + 1) + 1]]
    BY <1>1, <1>4, <2>1
  <2> QED
    BY <2>2, <2>3
<1>7. B = Tail(A)
  <2>1. Len(B) = Len(Tail(A))
    BY <1>0, <1>b, <1>1, <1>2, <1>4
  <2> QED
    BY <1>2, <1>4, <1>6, <2>1, SeqEqual
<1> QED
  BY <1>3, <1>5, <1>7 DEF A, B, T

\* user_data may change for elements that are not behind the first one.
LEMMA DataSame ==
    ASSUME NEW S \in Seq(Elements), NEW before, NEW after,
           \A k \in 1..(Len(S) - 1) : after[S[k + 1]] = before[S[k + 1]]
    PROVE  Data(S, after) = Data(S, before)
  BY DEF Data

LEMMA Views ==
    ASSUME NEW L \in [Places -> Seq(Elements)], PlaceInv(L), ListInv(L)
    PROVE  Contents = Data(L[Queue], user_data) /\ Behind = HeldData(L, user_data)
<1>1. Contents = Data(L[Queue], user_data)
  <2>1. Chain = L[Queue] /\ L[Queue] \in Seq(Elements)
    BY ChainIs, PlacesDiffer
  <2> QED
    BY <2>1 DEF Contents, ItemsAfterFirst, Data
<1>2. ASSUME NEW p \in Producers
      PROVE  (IF pc[p] \in Unlinked THEN ItemsAfterFirst(ChainFrom(elem[p], next)) ELSE <<>>)
                = Data(L[At(p)], user_data)
  <2>0. p \in Threads /\ At(p) \in Places /\ L[At(p)] \in Seq(Elements) /\ HeldInv(L, p)
    BY PlacesDiffer DEF Threads, PlaceInv
  <2>1. CASE pc[p] \in Unlinked
    <3>1. Len(L[At(p)]) >= 1 /\ L[At(p)][1] = elem[p]
      BY <2>0, <2>1 DEF HeldInv, Holding
    <3>2. Distinct(L[At(p)]) /\ Linked(L[At(p)], next)
      BY <2>0, <2>1 DEF Distinct, PlaceInv, OnePlace, ListInv
    <3>3. ChainFrom(elem[p], next) = L[At(p)]
      BY <2>0, <3>1, <3>2, ChainIsList
    <3> QED
      BY <2>1, <3>3 DEF ItemsAfterFirst, Data
  <2>2. CASE pc[p] \notin Unlinked
    <3>1. Len(L[At(p)]) <= 1
      <4>1. CASE Alone(p)
        <5>1. Len(L[At(p)]) = 1
          BY <2>0, <4>1 DEF HeldInv
        <5> QED
          BY <5>1
      <4>2. CASE ~Alone(p)
        <5>1. L[At(p)] = <<>>
          BY <2>0, <2>2, <4>2 DEF HeldInv, Holding
        <5>2. Len(L[At(p)]) = 0
          BY <5>1
        <5> QED
          BY <5>2
      <4> QED
        BY <4>1, <4>2
    <3> QED
      BY <2>0, <2>2, <3>1, DataEmpty
  <2> QED
    BY <2>1, <2>2
<1> QED
  BY <1>1, <1>2 DEF Behind, HeldData

LEMMA ViewsNow ==
    \A L \in [Places -> Seq(Elements)] : PlaceInv(L) /\ ListInv(L) =>
       Contents = Data(L[Queue], user_data) /\ Behind = HeldData(L, user_data)
  BY Views

\* The same after a step
LEMMA ViewsNext ==
    (\A L \in [Places -> Seq(Elements)] : PlaceInv(L) /\ ListInv(L) =>
       Contents = Data(L[Queue], user_data) /\ Behind = HeldData(L, user_data))'
  BY ViewsNow, PTL

-----------------------------------------------------------------------------
(* Counting the elements *)

LEMMA SameSize ==
    ASSUME NEW U, IsFiniteSet(U), NEW H, NEW C \in SUBSET U, NEW f \in Bijection(H, C)
    PROVE  IsFiniteSet(H) /\ IsFiniteSet(C) /\ Cardinality(C) = Cardinality(H)
<1>1. IsFiniteSet(C)
  BY FS_Subset
<1>2. ExistsBijection(C, H)
  BY Fun_ExistsBijSymmetric DEF ExistsBijection
<1> QED
  BY <1>1, <1>2, FS_Bijection

LEMMA TwoParts ==
    ASSUME NEW A, NEW B, IsFiniteSet(A), IsFiniteSet(B), A \cap B = {}
    PROVE  IsFiniteSet(A \cup B) /\ Cardinality(A \cup B) = Cardinality(A) + Cardinality(B)
<1>1. /\ IsFiniteSet(A \cup B)
      /\ Cardinality(A \cup B) = Cardinality(A) + Cardinality(B) - Cardinality(A \cap B)
  BY FS_Union
<1>2. Cardinality(A \cap B) = 0
  BY FS_EmptySet
<1>3. Cardinality(A) \in Nat /\ Cardinality(B) \in Nat
  BY FS_CardinalityType
<1> QED
  BY <1>1, <1>2, <1>3

\* The elements of the queue, the free ones, one for each thread that holds some, and
\* those behind it
LEMMA Census ==
    ASSUME NEW L \in [Places -> Seq(Elements)], OnePlace(L), Everywhere(L),
           NEW H, H = {t \in Threads : Len(L[At(t)]) >= 1},
           NEW W, W = UNION {{p} \X (1..(Len(L[At(p)]) - 1)) : p \in Producers},
           \A t \in Threads : t \in Producers \/ Len(L[At(t)]) <= 1
    PROVE  /\ IsFiniteSet(H) /\ Cardinality(H) \in Nat /\ Cardinality(W) \in Nat
           /\ Len(L[Queue]) + Len(L[Free]) + Cardinality(H) + Cardinality(W) = Capacity + 1
<1> DEFINE A == Members(L[Queue])
           B == Members(L[Free])
           f == [t \in H |-> L[At(t)][1]]
           C == {f[t] : t \in H}
           g == [w \in W |-> L[At(w[1])][w[2] + 1]]
           D == {g[w] : w \in W}
<1>1. IsFiniteSet(Elements) /\ Cardinality(Elements) = Capacity + 1 /\ Capacity \in Nat
  BY FS_Interval, Numbers
<1>2. /\ Queue \in Places /\ Free \in Places /\ Queue # Free
      /\ \A t \in Threads : At(t) \in Places /\ At(t) # Queue /\ At(t) # Free
      /\ \A t, u : At(t) = At(u) => t = u
      /\ \A a \in Places : a = Queue \/ a = Free \/ \E t \in Threads : a = At(t)
  BY PlacesDiffer
<1>3. ASSUME NEW a \in Places
      PROVE  /\ Len(L[a]) \in Nat /\ Members(L[a]) = {L[a][k] : k \in 1..Len(L[a])}
             /\ \A k \in 1..Len(L[a]) : L[a][k] \in Elements
             /\ Len(L[a]) = Cardinality(Members(L[a]))
  <2>1. L[a] \in Seq(Elements) /\ Distinct(L[a])
    BY DEF OnePlace, Distinct
  <2>2. Len(L[a]) \in Nat /\ DOMAIN L[a] = 1..Len(L[a])
    BY <2>1
  <2> QED
    BY <2>1, <2>2, ElementOfSeq, Counted DEF Members
<1>4. ASSUME NEW t \in H
      PROVE  t \in Threads /\ 1 \in 1..Len(L[At(t)]) /\ At(t) \in Places
  BY <1>2, <1>3
<1>5. ASSUME NEW w \in W
      PROVE  /\ w[1] \in Producers /\ w[1] \in Threads /\ At(w[1]) \in Places
             /\ w[2] \in Nat /\ w[2] >= 1 /\ w[2] + 1 \in 1..Len(L[At(w[1])])
             /\ w = <<w[1], w[2]>>
  <2>1. PICK p \in Producers : w \in {p} \X (1..(Len(L[At(p)]) - 1))
    OBVIOUS
  <2>2. p \in Threads /\ At(p) \in Places /\ Len(L[At(p)]) \in Nat
    BY <1>2, <1>3 DEF Threads
  <2>3. w[1] = p /\ w[2] \in 1..(Len(L[At(p)]) - 1) /\ w = <<w[1], w[2]>>
    BY <2>1
  <2>4. w[2] \in Nat /\ w[2] >= 1 /\ w[2] + 1 \in 1..Len(L[At(p)])
    BY <2>2, <2>3
  <2> QED
    BY <2>2, <2>3, <2>4
<1>6. f \in Bijection(H, C) /\ C \in SUBSET Elements
  <2>1. \A t \in H : f[t] = L[At(t)][1] /\ f[t] \in Elements
    BY <1>3, <1>4
  <2>2. ASSUME NEW t \in H, NEW u \in H, f[t] = f[u] PROVE t = u
    <3>1. At(t) = At(u)
      BY <1>4, <2>1, <2>2 DEF OnePlace
    <3> QED
      BY <1>2, <3>1
  <2>3. C \in SUBSET Elements /\ f \in [H -> C] /\ \A e \in C : \E t \in H : f[t] = e
    BY <2>1
  <2> HIDE DEF f, C
  <2> QED
    BY <2>2, <2>3, Fun_IsBij
<1>7. g \in Bijection(W, D) /\ D \in SUBSET Elements
  <2>1. \A w \in W : g[w] = L[At(w[1])][w[2] + 1] /\ g[w] \in Elements
    BY <1>3, <1>5
  <2>2. ASSUME NEW v \in W, NEW w \in W, g[v] = g[w] PROVE v = w
    <3>1. At(v[1]) = At(w[1]) /\ v[2] + 1 = w[2] + 1
      <4>1. /\ At(v[1]) \in Places /\ v[2] + 1 \in 1..Len(L[At(v[1])])
            /\ At(w[1]) \in Places /\ w[2] + 1 \in 1..Len(L[At(w[1])])
        BY <1>5
      <4>2. L[At(v[1])][v[2] + 1] = L[At(w[1])][w[2] + 1]
        BY <2>1, <2>2
      <4> HIDE DEF g
      <4> QED
        BY <4>1, <4>2 DEF OnePlace
    <3>2. v[1] = w[1] /\ v[2] = w[2]
      BY <1>2, <1>5, <3>1
    <3> QED
      BY <1>5, <3>2
  <2>3. D \in SUBSET Elements /\ g \in [W -> D] /\ \A e \in D : \E w \in W : g[w] = e
    BY <2>1
  <2> HIDE DEF g, D
  <2> QED
    BY <2>2, <2>3, Fun_IsBij
<1>8. IsFiniteSet(H) /\ IsFiniteSet(C) /\ Cardinality(C) = Cardinality(H)
  <2> HIDE DEF f, C
  <2> QED
    BY <1>1, <1>6, SameSize
<1>9. IsFiniteSet(W) /\ IsFiniteSet(D) /\ Cardinality(D) = Cardinality(W)
  <2> HIDE DEF g, D
  <2> QED
    BY <1>1, <1>7, SameSize
<1>10. A \subseteq Elements /\ B \subseteq Elements /\ Cardinality(A) = Len(L[Queue])
       /\ Cardinality(B) = Len(L[Free])
  BY <1>2, <1>3
<1>11. IsFiniteSet(A) /\ IsFiniteSet(B)
  BY <1>1, <1>10, FS_Subset
<1>12. /\ \A e \in A : \E k \in 1..Len(L[Queue]) : e = L[Queue][k]
       /\ \A e \in B : \E k \in 1..Len(L[Free]) : e = L[Free][k]
       /\ \A e \in C : \E t \in H : e = L[At(t)][1]
       /\ \A e \in D : \E w \in W : e = L[At(w[1])][w[2] + 1]
  <2>1. /\ \A e \in A : \E k \in 1..Len(L[Queue]) : e = L[Queue][k]
        /\ \A e \in B : \E k \in 1..Len(L[Free]) : e = L[Free][k]
    BY <1>2, <1>3
  <2>2. \A e \in C : \E t \in H : e = L[At(t)][1]
    OBVIOUS
  <2>3. \A e \in D : \E w \in W : e = L[At(w[1])][w[2] + 1]
    OBVIOUS
  <2> QED
    BY <2>1, <2>2, <2>3
<1>13. A \cap B = {}
  BY <1>2, <1>12 DEF OnePlace
<1>14. (A \cup B) \cap C = {}
  <2> SUFFICES ASSUME NEW e \in C, e \in A \/ e \in B PROVE FALSE
    OBVIOUS
  <2>1. PICK t \in H : e = L[At(t)][1]
    BY <1>12
  <2>2. PICK a \in Places : (a = Queue \/ a = Free) /\ \E k \in 1..Len(L[a]) : e = L[a][k]
    BY <1>2, <1>12
  <2>3. At(t) = a
    BY <1>4, <2>1, <2>2 DEF OnePlace
  <2> QED
    BY <1>2, <1>4, <2>2, <2>3
<1>15. (A \cup B \cup C) \cap D = {}
  <2> SUFFICES ASSUME NEW e \in D, e \in A \/ e \in B \/ e \in C PROVE FALSE
    OBVIOUS
  <2>1. PICK w \in W : e = L[At(w[1])][w[2] + 1]
    BY <1>12
  <2>2. PICK a \in Places : \E k \in 1..Len(L[a]) : e = L[a][k] /\ (a = Queue \/ a = Free \/ k = 1)
    <3>1. CASE e \in A \/ e \in B
      BY <1>2, <1>12, <3>1
    <3>2. CASE e \in C
      BY <1>4, <1>12, <3>2
    <3> QED
      BY <3>1, <3>2
  <2>3. PICK k \in 1..Len(L[a]) : e = L[a][k] /\ (a = Queue \/ a = Free \/ k = 1)
    BY <2>2
  <2>4. At(w[1]) = a /\ w[2] + 1 = k
    <3>1. At(w[1]) \in Places /\ w[2] + 1 \in 1..Len(L[At(w[1])])
      BY <1>5
    <3>2. L[At(w[1])][w[2] + 1] = L[a][k]
      BY <2>1, <2>3
    <3> HIDE DEF A, B, C, D, f, g
    <3> QED
      BY <3>1, <3>2 DEF OnePlace
  <2> QED
    BY <1>2, <1>5, <2>3, <2>4
<1>16. A \cup B \cup C \cup D = Elements
  <2>1. A \cup B \cup C \cup D \subseteq Elements
    BY <1>6, <1>7, <1>10
  <2>2. ASSUME NEW e \in Elements PROVE e \in A \cup B \cup C \cup D
    <3>1. PICK a \in Places : \E k \in 1..Len(L[a]) : L[a][k] = e
      BY DEF Everywhere
    <3>2. PICK k \in 1..Len(L[a]) : L[a][k] = e
      BY <3>1
    <3>3. Len(L[a]) \in Nat /\ k \in Nat /\ k >= 1
      BY <1>3
    <3>4. CASE a = Queue \/ a = Free
      BY <1>2, <1>3, <3>2, <3>4
    <3>5. ASSUME NEW t \in Threads, a = At(t) PROVE e \in C \cup D
      <4>0. t \in H
        BY <3>3, <3>5
      <4>1. CASE k = 1
        BY <3>2, <3>5, <4>0, <4>1
      <4>2. CASE k # 1
        <5>1. t \in Producers /\ k - 1 \in 1..(Len(L[At(t)]) - 1)
          BY <3>3, <3>5, <4>2
        <5>2. <<t, k - 1>> \in W
          BY <5>1
        <5>3. g[<<t, k - 1>>] = L[At(t)][(k - 1) + 1] /\ (k - 1) + 1 = k
          BY <3>3, <5>2
        <5> QED
          BY <3>2, <3>5, <5>2, <5>3
      <4> QED
        BY <4>1, <4>2
    <3> QED
      BY <1>2, <3>4, <3>5
  <2> QED
    BY <2>1, <2>2
<1> HIDE DEF A, B, C, D
<1>17. IsFiniteSet(A \cup B) /\ Cardinality(A \cup B) = Cardinality(A) + Cardinality(B)
  BY <1>11, <1>13, TwoParts
<1>18. /\ IsFiniteSet(A \cup B \cup C)
       /\ Cardinality(A \cup B \cup C) = Cardinality(A \cup B) + Cardinality(C)
  BY <1>8, <1>14, <1>17, TwoParts
<1>19. Cardinality(A \cup B \cup C \cup D) = Cardinality(A \cup B \cup C) + Cardinality(D)
  BY <1>9, <1>15, <1>18, TwoParts
<1>20. Cardinality(H) \in Nat /\ Cardinality(W) \in Nat /\ Len(L[Queue]) \in Nat
       /\ Len(L[Free]) \in Nat
  BY <1>2, <1>3, <1>8, <1>9, FS_CardinalityType
<1> QED
  BY <1>1, <1>8, <1>9, <1>10, <1>16, <1>17, <1>18, <1>19, <1>20


\* An instance has its own copy of the definition.
LEMMA SameCardinality == \A S : Abstract!Cardinality(S) = Cardinality(S)
  BY DEF Abstract!Cardinality, Cardinality

\* The items accepted, the free elements and the threads that hold an element make up
\* the capacity.
LEMMA Accounts ==
    ASSUME NEW L \in [Places -> Seq(Elements)], PlaceInv(L), ListInv(L),
           NEW H, H = {t \in Threads : Holding(t)}
    PROVE  /\ IsFiniteSet(H) /\ Cardinality(H) \in Nat /\ Abstract!Accepted \in Nat
           /\ Abstract!Accepted + Len(freelist) + Cardinality(H) = Capacity
<1> DEFINE W == UNION {{p} \X (1..(Len(L[At(p)]) - 1)) : p \in Producers}
<1>1. OnePlace(L) /\ Everywhere(L) /\ L[Free] = freelist /\ Len(L[Queue]) >= 1
      /\ \A t \in Threads : HeldInv(L, t)
  BY DEF PlaceInv, ListInv
<1>2. ASSUME NEW t \in Threads
      PROVE  /\ L[At(t)] \in Seq(Elements)
             /\ Holding(t) <=> Len(L[At(t)]) >= 1
             /\ t \in Producers \/ Len(L[At(t)]) <= 1
  <2>1. L[At(t)] \in Seq(Elements)
    BY PlacesDiffer
  <2>2. Holding(t) => Len(L[At(t)]) >= 1
    BY <1>1 DEF HeldInv
  <2>3. ~Holding(t) => Len(L[At(t)]) = 0
    <3>1. ~Holding(t) => L[At(t)] = <<>>
      BY <1>1 DEF HeldInv
    <3> QED
      BY <3>1
  <2>4. Holding(t) /\ t \notin Producers => Len(L[At(t)]) = 1
    BY <1>1 DEF HeldInv, Holding
  <2>5. Holding(t) <=> Len(L[At(t)]) >= 1
    <3>1. CASE Holding(t)
      BY <2>2, <3>1
    <3>2. CASE ~Holding(t)
      <4>1. Len(L[At(t)]) = 0
        BY <2>3, <3>2
      <4> QED
        BY <3>2, <4>1
    <3> QED
      BY <3>1, <3>2
  <2>6. t \in Producers \/ Len(L[At(t)]) <= 1
    <3>1. CASE Len(L[At(t)]) = 0
      BY <3>1
    <3>2. CASE Len(L[At(t)]) = 1
      BY <3>2
    <3> QED
      BY <2>3, <2>4, <3>1, <3>2
  <2> QED
    BY <2>1, <2>5, <2>6
<1>3. H = {t \in Threads : Len(L[At(t)]) >= 1}
  BY <1>2
<1>4. \A t \in Threads : t \in Producers \/ Len(L[At(t)]) <= 1
  BY <1>2
<1>5. /\ IsFiniteSet(H) /\ Cardinality(H) \in Nat /\ Cardinality(W) \in Nat
      /\ Len(L[Queue]) + Len(L[Free]) + Cardinality(H) + Cardinality(W) = Capacity + 1
  <2> HIDE DEF W
  <2>1. W = UNION {{p} \X (1..(Len(L[At(p)]) - 1)) : p \in Producers}
    BY DEF W
  <2> QED
    BY <1>1, <1>3, <1>4, <2>1, Census
<1>6. Contents = Data(L[Queue], user_data) /\ Behind = HeldData(L, user_data)
  BY Views
<1>7. Abstract!Waiting = W
  <2>1. \A p \in Producers : DOMAIN Behind[p] = 1..(Len(L[At(p)]) - 1)
    BY <1>6 DEF HeldData, Data
  <2> QED
    BY <2>1 DEF Abstract!Waiting
<1>8. Len(Contents) = Len(L[Queue]) - 1 /\ Len(L[Queue]) \in Nat /\ Len(L[Free]) \in Nat
  <2>1. L[Queue] \in Seq(Elements) /\ L[Free] \in Seq(Elements) /\ Len(L[Queue]) \in Nat
    BY PlacesDiffer
  <2>2. DOMAIN Contents = 1..(Len(L[Queue]) - 1) /\ Len(L[Queue]) - 1 \in Nat
    BY <1>1, <1>6, <2>1 DEF Data
  <2>3. Contents = [k \in 1..(Len(L[Queue]) - 1) |-> user_data[L[Queue][k + 1]]]
    BY <1>6 DEF Data
  <2>4. Len(Contents) = Len(L[Queue]) - 1
    BY <2>2, <2>3
  <2> QED
    BY <2>1, <2>4
<1> HIDE DEF W
<1>9. Abstract!Accepted = (Len(L[Queue]) - 1) + Cardinality(W)
  BY <1>7, <1>8, SameCardinality DEF Abstract!Accepted
<1>10. Capacity \in Nat /\ L[Free] = freelist
  BY <1>1, Numbers
<1>11. Abstract!Accepted \in Nat
  BY <1>1, <1>5, <1>8, <1>9
<1>12. Abstract!Accepted + Len(freelist) + Cardinality(H) = Capacity
  <2>1. PICK q, f, h, w : /\ q = Len(L[Queue]) /\ f = Len(freelist)
                          /\ h = Cardinality(H) /\ w = Cardinality(W)
    OBVIOUS
  <2>2. q \in Nat /\ f \in Nat /\ h \in Nat /\ w \in Nat
    BY <1>5, <1>8, <1>10, <2>1
  <2>3. q + f + h + w = Capacity + 1
    BY <1>5, <1>10, <2>1
  <2>4. ((q - 1) + w) + f + h = Capacity
    BY <1>10, <2>2, <2>3
  <2> QED
    BY <1>9, <2>1, <2>4
<1> QED
  BY <1>5, <1>11, <1>12
-----------------------------------------------------------------------------
(* What steps do to the abstract queue *)

LEMMA SameViews ==
    ASSUME NEW L \in [Places -> Seq(Elements)], PlaceInv(L), ListInv(L),
           NEW M \in [Places -> Seq(Elements)], PlaceInv(M)', ListInv(M)',
           Data(M[Queue], user_data') = Data(L[Queue], user_data),
           \A q \in Producers : Data(M[At(q)], user_data') = Data(L[At(q)], user_data)
    PROVE  UNCHANGED <<Contents, Behind>>
<1>1. Contents = Data(L[Queue], user_data) /\ Behind = HeldData(L, user_data)
  BY Views
<1>2. Contents' = Data(M[Queue], user_data') /\ Behind' = HeldData(M, user_data')
  BY ViewsNext
<1>3. HeldData(M, user_data') = HeldData(L, user_data)
  BY DEF HeldData
<1> QED
  BY <1>1, <1>2, <1>3

LEMMA ProducerViews ==
    ASSUME TypesInv, TypesInv', CopiesInv, NEW L \in [Places -> Seq(Elements)],
           NEW N \in Nat, NEW rank \in [Elements -> 0..N], Inv(L, rank),
           NEW p \in Producers, Enqueue(p),
           ~(LinkElement(p) /\ next[enq[p].ptr] = nxt[p])
    PROVE  UNCHANGED <<Contents, Behind>>
<1>0. p \in Threads /\ ProducerInv(p) /\ PlaceInv(L) /\ ListInv(L)
  BY DEF Threads, CopiesInv, Inv
<1>1. Others(p)
  BY <1>0, ProducerCopies
<1>2. CASE PopElement(p)
  <2> DEFINE M == MoveHead(L, Free, At(p))
  <2>1. M \in [Places -> Seq(Elements)] /\ Inv(M, rank)'
    BY <1>2, PopMoves
  <2>2. PlaceInv(M)' /\ ListInv(M)'
    BY <2>1 DEF Inv
  <2>3. user_data' = user_data /\ pc[p] = "pop"
    BY <1>2 DEF PopElement, Goto
  <2>4. M[Queue] = L[Queue] /\ \A q \in Producers \ {p} : M[At(q)] = L[At(q)]
    BY <1>0, PlacesDiffer DEF MoveHead, Threads
  <2>5. L[At(p)] = <<>> /\ L[At(p)] \in Seq(Elements)
    <3>1. ~Holding(p)
      BY <2>3 DEF Holding, Alone, Unlinked
    <3> QED
      BY <1>0, <3>1, PlacesDiffer DEF PlaceInv, HeldInv
  <2>6. M[At(p)] = <<Head(L[Free])>> /\ M[At(p)] \in Seq(Elements)
    BY <1>0, <2>1, PlacesDiffer DEF MoveHead
  <2>7. Len(L[At(p)]) <= 1 /\ Len(M[At(p)]) <= 1
    BY <2>5, <2>6
  <2> HIDE DEF M
  <2>8. Data(M[At(p)], user_data') = Data(L[At(p)], user_data)
    BY <2>5, <2>6, <2>7, DataEmpty
  <2>9. \A q \in Producers : Data(M[At(q)], user_data') = Data(L[At(q)], user_data)
    BY <2>3, <2>4, <2>8
  <2> QED
    BY <1>0, <2>1, <2>2, <2>3, <2>4, <2>9, SameViews
<1>3. CASE InitPointer(p)
  <2>1. PICK r : r = [rank EXCEPT ![elem[p]] = N + 1]
    OBVIOUS
  <2>2. Inv(L, r)'
    BY <1>3, <2>1, InitMoves
  <2>3. PlaceInv(L)' /\ ListInv(L)' /\ user_data' = user_data
    BY <1>3, <2>2 DEF Inv, InitPointer
  <2> QED
    BY <1>0, <2>3, SameViews
<1>4. CASE ~PopElement(p) /\ ~InitPointer(p)
  <2>1. Calm(p) /\ \E k \in 1..Len(L[Queue]) : L[Queue][k] = enqueue'.ptr
    BY <1>0, <1>4, ProducerCalm
  <2>2. Inv(L, rank)'
    BY <1>0, <1>1, <2>1, KeepsPlaces
  <2>3. PlaceInv(L)' /\ ListInv(L)'
    BY <2>2 DEF Inv
  <2>4. ASSUME NEW a \in Places PROVE Data(L[a], user_data') = Data(L[a], user_data)
    <3>1. CASE UNCHANGED user_data
      BY <3>1
    <3>2. CASE InitCounter(p)
      <4>1. Len(L[At(p)]) >= 1 /\ L[At(p)][1] = elem[p] /\ At(p) \in Places
            /\ L[At(p)] \in Seq(Elements)
        <5>1. Holding(p)
          BY <3>2 DEF InitCounter, Goto, Holding, Unlinked
        <5> QED
          BY <1>0, <5>1, PlacesDiffer DEF PlaceInv, HeldInv
      <4>2. 1 \in 1..Len(L[At(p)])
        BY <4>1
      <4>3. ASSUME NEW k \in 1..(Len(L[a]) - 1)
            PROVE  user_data'[L[a][k + 1]] = user_data[L[a][k + 1]]
        <5>1. k + 1 \in 1..Len(L[a]) /\ k + 1 # 1 /\ Len(L[a]) \in Nat
          OBVIOUS
        <5>2. L[a][k + 1] # L[At(p)][1]
          BY <1>0, <4>1, <4>2, <5>1 DEF PlaceInv, OnePlace
        <5>3. L[a][k + 1] \in Elements
          BY <5>1, ElementOfSeq
        <5> QED
          BY <3>2, <4>1, <5>2, <5>3 DEF InitCounter, TypesInv, SharedTypes
      <4> QED
        BY <4>3, DataSame
    <3> QED
      BY <3>1, <3>2, ProducerFrames
  <2>5. Data(L[Queue], user_data') = Data(L[Queue], user_data)
    BY <2>4, PlacesDiffer
  <2>6. \A q \in Producers : Data(L[At(q)], user_data') = Data(L[At(q)], user_data)
    BY <2>4, PlacesDiffer DEF Threads
  <2> QED
    BY <1>0, <2>3, <2>5, <2>6, SameViews
<1> QED
  BY <1>2, <1>3, <1>4


\* An item goes to the end of the queue, or behind another producer's, and takes
\* along what is behind it.
LEMMA LinkViews ==
    ASSUME TypesInv, CopiesInv, NEW L \in [Places -> Seq(Elements)],
           NEW N \in Nat, NEW rank \in [Elements -> 0..N], Inv(L, rank),
           NEW p \in Producers, LinkElement(p), next[enq[p].ptr] = nxt[p],
           NEW v, v = Item(p, sent[p])
    PROVE  \/ /\ Contents' = Contents \o <<v>> \o Behind[p]
              /\ Behind' = [Behind EXCEPT ![p] = <<>>]
           \/ \E q \in Producers \ {p} :
                /\ pc[q] \in Unlinked
                /\ Contents' = Contents
                /\ Behind' = [Behind EXCEPT ![q] = @ \o <<v>> \o Behind[p], ![p] = <<>>]
<1>0. p \in Threads /\ ProducerInv(p) /\ PlaceInv(L) /\ ListInv(L)
  BY DEF Threads, CopiesInv, Inv
<1>1. PICK a \in Places : /\ Target(a, p) /\ Linked(L[a], next) /\ Len(L[a]) >= 1
                          /\ L[a][Len(L[a])] = enq[p].ptr
  BY <1>0, LinkTarget
<1> DEFINE M == MoveBehind(L, a, At(p))
<1>2. M \in [Places -> Seq(Elements)] /\ Inv(M, rank)'
  BY <1>0, <1>1, LinkMoves
<1>3. PlaceInv(M)' /\ ListInv(M)'
  BY <1>2 DEF Inv
<1>4. user_data' = user_data /\ pc[p] = "link"
  BY DEF LinkElement
<1>5. /\ At(p) \in Places /\ Queue \in Places /\ a # At(p)
      /\ \A q \in Producers : At(q) \in Places /\ At(q) # Queue
      /\ \A t, u : At(t) = At(u) => t = u
  BY <1>0, <1>1, PlacesDiffer DEF Threads, Target
<1>6. /\ M[a] = L[a] \o L[At(p)] /\ M[At(p)] = <<>>
      /\ \A x \in Places : x # a /\ x # At(p) => M[x] = L[x]
  BY <1>5 DEF MoveBehind
<1> HIDE DEF M
<1>7. Len(L[At(p)]) >= 1 /\ L[At(p)][1] = elem[p]
  <2>1. Holding(p)
    BY <1>4 DEF Holding, Unlinked
  <2> QED
    BY <1>0, <2>1 DEF PlaceInv, HeldInv
<1>8. user_data[elem[p]] = v
  <2>1. pc[p] \in Unlinked \ {"init_counter"}
    BY <1>4 DEF Unlinked
  <2> QED
    BY <1>0, <2>1 DEF ProducerInv
<1>9. Data(M[a], user_data) = Data(L[a], user_data) \o <<v>> \o Data(L[At(p)], user_data)
  <2>1. L[a] \in Seq(Elements) /\ L[At(p)] \in Seq(Elements) /\ Len(L[a]) >= 1
    BY <1>1, <1>5
  <2>2. user_data \in [Elements -> AllItems \cup {NoItem}]
    BY DEF TypesInv, SharedTypes
  <2>3. Data(L[a] \o L[At(p)], user_data) =
           Data(L[a], user_data) \o <<user_data[L[At(p)][1]]>> \o Data(L[At(p)], user_data)
    BY <1>7, <2>1, <2>2, DataJoin, ZenonT(60)
  <2> QED
    BY <1>6, <1>7, <1>8, <2>3
<1>10. Data(M[At(p)], user_data) = <<>>
  <2>1. M[At(p)] \in Seq(Elements) /\ Len(M[At(p)]) <= 1
    BY <1>2, <1>5, <1>6
  <2> QED
    BY <2>1, DataEmpty
<1>11. Contents = Data(L[Queue], user_data) /\ Behind = HeldData(L, user_data)
  BY <1>0, Views
<1>12. Contents' = Data(M[Queue], user_data) /\ Behind' = HeldData(M, user_data)
  BY <1>2, <1>3, <1>4, ViewsNext
<1>13. Behind[p] = Data(L[At(p)], user_data)
  BY <1>11 DEF HeldData
<1>14. CASE a = Queue
  <2>1. Contents' = Contents \o <<v>> \o Behind[p]
    BY <1>9, <1>11, <1>12, <1>13, <1>14
  <2>2. \A q \in Producers : Data(M[At(q)], user_data) =
           IF q = p THEN <<>> ELSE Data(L[At(q)], user_data)
    BY <1>5, <1>6, <1>10, <1>14
  <2>3. Behind' = [Behind EXCEPT ![p] = <<>>]
    <3> HIDE DEF Data
    <3> QED
      BY <1>11, <1>12, <2>2 DEF HeldData
  <2> QED
    BY <2>1, <2>3
<1>15. CASE a # Queue
  <2>1. PICK q \in Producers \ {p} : a = At(q) /\ pc[q] \in Unlinked
    BY <1>1, <1>15 DEF Target
  <2>2. M[Queue] = L[Queue]
    BY <1>5, <1>6, <1>15
  <2>3. Contents' = Contents
    BY <1>11, <1>12, <2>2
  <2>4. Behind[q] = Data(L[At(q)], user_data)
    BY <1>11 DEF HeldData
  <2>5. Data(M[At(q)], user_data) = Behind[q] \o <<v>> \o Behind[p]
    BY <1>9, <1>13, <2>1, <2>4
  <2>6. \A u \in Producers : u # p /\ u # q => M[At(u)] = L[At(u)]
    BY <1>5, <1>6, <2>1
  <2>7. \A u \in Producers : Data(M[At(u)], user_data) =
           IF u = p THEN <<>> ELSE IF u = q THEN Behind[q] \o <<v>> \o Behind[p]
                                   ELSE Data(L[At(u)], user_data)
    BY <1>10, <2>5, <2>6
  <2>8. Behind' = [Behind EXCEPT ![q] = @ \o <<v>> \o Behind[p], ![p] = <<>>]
    <3> DEFINE y == Behind[q] \o <<v>> \o Behind[p]
    <3> HIDE DEF Data
    <3>1. Behind' = [u \in Producers |-> IF u = p THEN <<>> ELSE IF u = q THEN y
                                        ELSE Data(L[At(u)], user_data)]
      BY <1>12, <2>7 DEF HeldData
    <3>2. Behind = [u \in Producers |-> Data(L[At(u)], user_data)]
      BY <1>11 DEF HeldData
    <3> HIDE DEF y
    <3>3. Behind' = [Behind EXCEPT ![q] = y, ![p] = <<>>]
      BY <3>1, <3>2
    <3> QED
      BY <3>3 DEF y
  <2> QED
    BY <2>1, <2>3, <2>8
<1> QED
  BY <1>14, <1>15

LEMMA ConsumerViews ==
    ASSUME TypesInv, TypesInv', CopiesInv, NEW L \in [Places -> Seq(Elements)],
           NEW N \in Nat, NEW rank \in [Elements -> 0..N], Inv(L, rank),
           NEW c \in Consumers, Dequeue(c), ~(AdvanceDequeue(c) /\ dequeue = deq[c])
    PROVE  UNCHANGED <<Contents, Behind>>
<1>0. c \in Threads /\ ConsumerInv(c) /\ PlaceInv(L) /\ ListInv(L) /\ c \notin Producers
  BY LfdsQueueAssumption DEF Threads, CopiesInv, Inv
<1>1. Others(c) /\ user_data' = user_data
  BY <1>0, ConsumerCopies, ConsumerFrames
<1>2. CASE PushElement(c)
  <2> DEFINE M == MoveBefore(L, Free, At(c))
  <2>1. M \in [Places -> Seq(Elements)] /\ Inv(M, rank)'
    BY <1>2, PushMoves
  <2>2. PlaceInv(M)' /\ ListInv(M)'
    BY <2>1 DEF Inv
  <2>3. M[Queue] = L[Queue] /\ \A q \in Producers : M[At(q)] = L[At(q)]
    BY <1>0, PlacesDiffer DEF MoveBefore, Threads
  <2> HIDE DEF M
  <2> QED
    BY <1>0, <1>1, <2>1, <2>2, <2>3, SameViews
<1>3. CASE ~PushElement(c)
  <2>1. Calm(c) /\ \E k \in 1..Len(L[Queue]) : L[Queue][k] = enqueue'.ptr
    BY <1>0, <1>3, ConsumerCalm
  <2>2. Inv(L, rank)'
    BY <1>0, <1>1, <2>1, KeepsPlaces
  <2>3. PlaceInv(L)' /\ ListInv(L)'
    BY <2>2 DEF Inv
  <2> QED
    BY <1>0, <1>1, <2>3, SameViews
<1> QED
  BY <1>2, <1>3

\* The oldest item leaves, and it is the one that was read.
LEMMA AdvanceViews ==
    ASSUME TypesInv, CopiesInv, NEW L \in [Places -> Seq(Elements)],
           NEW N \in Nat, NEW rank \in [Elements -> 0..N], Inv(L, rank),
           NEW c \in Consumers, AdvanceDequeue(c), dequeue = deq[c]
    PROVE  /\ Contents # <<>> /\ Head(Contents) = out[c]
           /\ Contents' = Tail(Contents) /\ Behind' = Behind
<1>0. c \in Threads /\ ConsumerInv(c) /\ PlaceInv(L) /\ ListInv(L) /\ c \notin Producers
  BY LfdsQueueAssumption DEF Threads, CopiesInv, Inv
<1> DEFINE M == MoveHead(L, Queue, At(c))
<1>1. /\ M \in [Places -> Seq(Elements)] /\ Inv(M, rank)'
      /\ Len(L[Queue]) >= 2 /\ L[Queue][2] = nxt[c].ptr
  BY <1>0, AdvanceMoves
<1>2. PlaceInv(M)' /\ ListInv(M)'
  BY <1>1 DEF Inv
<1>3. user_data' = user_data /\ pc[c] = "advance"
  BY DEF AdvanceDequeue, Goto
<1>4. /\ Queue \in Places /\ At(c) \in Places /\ At(c) # Queue
      /\ \A q \in Producers : At(q) \in Places /\ At(q) # Queue /\ At(q) # At(c)
  BY <1>0, PlacesDiffer DEF Threads
<1>5. M[Queue] = Tail(L[Queue]) /\ \A q \in Producers : M[At(q)] = L[At(q)]
  BY <1>4 DEF MoveHead
<1> HIDE DEF M
<1>7. out[c] = user_data[L[Queue][2]]
  BY <1>0, <1>1, <1>3 DEF ConsumerInv, HasDequeue, ConsumerSteps
<1>8. user_data \in [Elements -> AllItems \cup {NoItem}]
  BY DEF TypesInv, SharedTypes
<1>9. /\ Data(L[Queue], user_data) # <<>>
      /\ Head(Data(L[Queue], user_data)) = user_data[L[Queue][2]]
      /\ Data(M[Queue], user_data) = Tail(Data(L[Queue], user_data))
  <2>1. L[Queue] \in Seq(Elements) /\ Len(L[Queue]) >= 2
    BY <1>1, <1>4
  <2> QED
    BY <1>5, <1>8, <2>1, DataTail
<1>10. Contents = Data(L[Queue], user_data) /\ Behind = HeldData(L, user_data)
  BY <1>0, Views
<1>11. Contents' = Data(M[Queue], user_data) /\ Behind' = HeldData(M, user_data)
  BY <1>1, <1>2, <1>3, ViewsNext
<1>12. HeldData(M, user_data) = HeldData(L, user_data)
  BY <1>5 DEF HeldData
<1> QED
  BY <1>7, <1>9, <1>10, <1>11, <1>12

-----------------------------------------------------------------------------
(* A single consumer *)

OneConsumer == \A c \in Consumers, d \in Consumers : c = d

\* Nobody else moves qs->dequeue, so the consumer's copy is always good.
OwnInv == \A c \in Consumers : /\ pc[c] \in HasDequeue => deq[c] = dequeue
                               /\ pc[c] = "deq_counter" => deq[c].ptr = dequeue.ptr

LEMMA OwnNext ==
    ASSUME OneConsumer, TypesInv, OwnInv, [Next]_vars
    PROVE  OwnInv'
<1>0. LocalTypes /\ dequeue \in Stamped
  BY DEF TypesInv, SharedTypes
<1>1. CASE UNCHANGED vars
  BY <1>1 DEF vars, shared, local, OwnInv
<1>2. ASSUME NEW p \in Producers, Enqueue(p) PROVE OwnInv'
  <2>1. Others(p)
    BY <1>0, <1>2, ProducerEffects DEF Enqueue, Moves, Step
  <2>2. dequeue' = dequeue
    BY <1>2, ProducerFrames
  <2>3. \A c \in Consumers : pc'[c] = pc[c] /\ deq'[c] = deq[c]
    BY <2>1, LfdsQueueAssumption DEF Others, Threads
  <2> QED
    BY <2>2, <2>3 DEF OwnInv
<1>3. ASSUME NEW c \in Consumers, Dequeue(c) PROVE OwnInv'
  <2> SUFFICES /\ pc'[c] \in HasDequeue => deq'[c] = dequeue'
               /\ pc'[c] = "deq_counter" => deq'[c].ptr = dequeue'.ptr
    BY DEF OwnInv, OneConsumer
  <2>0. /\ pc[c] \in HasDequeue => deq[c] = dequeue
        /\ pc[c] = "deq_counter" => deq[c].ptr = dequeue.ptr
    BY DEF OwnInv
  <2>1. CASE ReadDequeuePointer(c)
    <3>1. dequeue' = dequeue /\ pc'[c] = "deq_counter" /\ deq'[c] = Pair(dequeue.ptr, 0)
      BY <1>0, <2>1, ConsumerEffects DEF ReadDequeuePointer, shared, Step
    <3> QED
      BY <3>1, Numbers DEF HasDequeue
  <2>2. CASE ReadDequeueCounter(c)
    <3>1. dequeue' = dequeue /\ pc[c] = "deq_counter" /\ pc'[c] = "enq_pointer"
          /\ deq'[c] = Pair(deq[c].ptr, dequeue.ctr)
      BY <1>0, <2>2, ConsumerEffects DEF ReadDequeueCounter, shared, Step
    <3>2. deq'[c] = dequeue
      BY <1>0, <2>0, <3>1, Numbers
    <3> QED
      BY <3>1, <3>2
  <2>3. CASE AdvanceDequeue(c)
    BY <1>0, <2>3, ConsumerEffects DEF Moves, Step, HasDequeue
  <2>4. CASE DequeueReturn(c)
    BY <1>0, <2>4, ConsumerEffects DEF Step, HasDequeue
  <2>5. CASE ~ReadDequeuePointer(c) /\ ~ReadDequeueCounter(c) /\ ~AdvanceDequeue(c)
             /\ ~DequeueReturn(c)
    <3>1. deq' = deq /\ dequeue' = dequeue
      BY <1>3, <2>5, ConsumerFrames
    <3>2. pc'[c] # "deq_counter" /\ (pc'[c] \in HasDequeue => pc[c] \in HasDequeue)
      BY <1>0, <1>3, <2>5, ConsumerEffects
         DEF Dequeue, Moves, Step, HasDequeue, ConsumerSteps
    <3> QED
      BY <2>0, <3>1, <3>2
  <2> QED
    BY <2>1, <2>2, <2>3, <2>4, <2>5
<1> QED
  BY <1>1, <1>2, <1>3 DEF Next

LEMMA OwnInvariant ==
    ASSUME OneConsumer
    PROVE  Spec => []OwnInv
<1>1. Init => OwnInv
  BY DEF Init, OwnInv, HasDequeue, Threads
<1>2. TypesInv /\ OwnInv /\ [Next]_vars => OwnInv'
  BY OwnNext
<1>3. IInv => TypesInv
  BY DEF IInv
<1> QED
  BY <1>1, <1>2, <1>3, QueueInvariant, PTL DEF Spec
-----------------------------------------------------------------------------
(* The abstract call of each thread *)

\* CallOf, from the thread's own words
CallAt(t, at, n, o) ==
    CASE at = "idle" -> [at |-> "idle"]
      [] t \in Producers /\ at = "return_0" -> [at |-> "done", result |-> "refused"]
      [] t \in Producers /\ at \in {"swing", "return_1"}
            -> [at |-> "done", result |-> "put"]
      [] t \in Consumers /\ \/ at = "return_0"
                            \/ /\ at \in {"next_counter", "check", "check_counter"}
                               /\ n.ptr = NULL
            -> [at |-> "done", result |-> "empty"]
      [] t \in Consumers /\ at \in {"push", "return_1"} -> [at |-> "done", result |-> o]
      [] OTHER -> [at |-> "pending"]

Idle == [at |-> "idle"]
Pending == [at |-> "pending"]
Done(result) == [at |-> "done", result |-> result]

LEMMA ProducerCall ==
    ASSUME NEW p \in Producers, NEW at, NEW n, NEW o
    PROVE  /\ at = "idle" => CallAt(p, at, n, o) = Idle
           /\ at = "return_0" => CallAt(p, at, n, o) = Done("refused")
           /\ at \in {"swing", "return_1"} => CallAt(p, at, n, o) = Done("put")
           /\ at \in Unlinked \cup {"pop", "init_pointer"} => CallAt(p, at, n, o) = Pending
<1>1. p \notin Consumers
  BY LfdsQueueAssumption
<1> QED
  BY <1>1 DEF CallAt, Idle, Pending, Done, Unlinked

LEMMA ConsumerCall ==
    ASSUME NEW c \in Consumers, NEW at, NEW n, NEW o
    PROVE  /\ at = "idle" => CallAt(c, at, n, o) = Idle
           /\ at = "return_0" => CallAt(c, at, n, o) = Done("empty")
           /\ at \in {"next_counter", "check", "check_counter"} =>
                CallAt(c, at, n, o) = IF n.ptr = NULL THEN Done("empty") ELSE Pending
           /\ at \in {"push", "return_1"} => CallAt(c, at, n, o) = Done(o)
           /\ at \in {"deq_pointer", "deq_counter", "enq_pointer", "enq_counter",
                      "next_pointer", "help", "user_data", "advance"} =>
                CallAt(c, at, n, o) = Pending
<1>1. c \notin Producers
  BY LfdsQueueAssumption
<1> QED
  BY <1>1 DEF CallAt, Idle, Pending, Done

Calls == [t \in Threads |-> CallOf(t)]
Become(t, before, after) == /\ Calls[t] = before
                            /\ Calls' = [Calls EXCEPT ![t] = after]
                            /\ before = after => Calls' = Calls

\* A step of a thread moves its own abstract call and no other's.
LEMMA CallMoves ==
    ASSUME NEW t \in Threads, NEW from, NEW to, NEW e, NEW q, NEW d, NEW n,
           Step(t, from, to, e, q, d, n), SharedMove(t),
           NEW before, before = CallAt(t, from, nxt[t], out[t]),
           NEW after, after = CallAt(t, to, n, out'[t])
    PROVE  Become(t, before, after)
<1>1. \A u \in Threads : CallOf(u) = CallAt(u, pc[u], nxt[u], out[u])
  BY DEF CallOf, CallAt
<1>2. \A u \in Threads : CallOf(u)' = CallAt(u, pc'[u], nxt'[u], out'[u])
  BY DEF CallOf, CallAt
<1>3. CallOf(t) = before /\ CallOf(t)' = after
  BY <1>1, <1>2 DEF Step
<1>4. ASSUME NEW u \in Threads \ {t} PROVE CallOf(u)' = CallOf(u)
  <2>1. pc'[u] = pc[u] /\ nxt'[u] = nxt[u]
    BY DEF Step, Others
  <2>2. CASE u \in Consumers
    BY <1>1, <1>2, <2>1, <2>2 DEF SharedMove
  <2>3. CASE u \notin Consumers
    BY <1>1, <1>2, <2>1, <2>3 DEF CallAt
  <2> QED
    BY <2>2, <2>3
<1> HIDE DEF CallOf
<1>5. Calls' = [u \in Threads |-> CallOf(u)'] /\ Calls = [u \in Threads |-> CallOf(u)]
  BY DEF Calls
<1>6. Calls' = [Calls EXCEPT ![t] = after] /\ Calls[t] = before
  BY <1>3, <1>4, <1>5
<1>7. before = after => Calls' = Calls
  BY <1>3, <1>4, <1>5
<1> QED
  BY <1>6, <1>7 DEF Become

\* Calls, returns and steps that do not show
LEMMA PlainSteps ==
    ASSUME NEW t \in Threads, NEW before, NEW after, Become(t, before, after),
           UNCHANGED <<Contents, Behind>>
    PROVE  /\ before = after => UNCHANGED Abstract!vars
           /\ before = Idle /\ after = Pending => Abstract!Next
           /\ before.at = "done" /\ after = Idle => Abstract!Next
<1>1. ASSUME before = after PROVE UNCHANGED Abstract!vars
  BY <1>1 DEF Become, Calls, Abstract!vars
<1>2. ASSUME before = Idle, after = Pending PROVE Abstract!Invoke(t)
  BY <1>2 DEF Become, Calls, Idle, Pending, Abstract!Invoke, Abstract!Idle, Abstract!Pending
<1>3. ASSUME before.at = "done", after = Idle PROVE Abstract!Return(t)
  BY <1>3 DEF Become, Calls, Idle, Abstract!Return, Abstract!Idle
<1>4. t \in Abstract!Threads
  BY DEF Abstract!Threads, Threads
<1> QED
  BY <1>1, <1>2, <1>3, <1>4 DEF Abstract!Next

-----------------------------------------------------------------------------
(* The queue implements AbstractQueue *)

\* An enqueue that is refused: every element is in the queue, waits, or is held by
\* another thread whose call is in progress.
LEMMA RefuseStep ==
    ASSUME IInv, NEW p \in Producers, PopFails(p),
           Become(p, Pending, Done("refused")), UNCHANGED <<Contents, Behind>>
    PROVE  Abstract!Next
<1>1. PICK L \in [Places -> Seq(Elements)] : PlaceInv(L) /\ ListInv(L)
  BY DEF IInv, Inv
<1> DEFINE H == {t \in Threads : Holding(t)}
           B == {u \in Threads \ {p} : Calls[u] # Idle}
<1>2. freelist = <<>> /\ pc[p] = "pop" /\ Len(freelist) = 0
  BY DEF PopFails, Goto
<1>3. /\ IsFiniteSet(H) /\ Cardinality(H) \in Nat /\ Abstract!Accepted \in Nat
      /\ Abstract!Accepted + Len(freelist) + Cardinality(H) = Capacity
  BY <1>1, Accounts
<1>4. H \subseteq B
  <2> SUFFICES ASSUME NEW t \in Threads, Holding(t) PROVE t # p /\ Calls[t] # Idle
    OBVIOUS
  <2>1. t # p
    BY <1>2 DEF Holding, Alone, Unlinked
  <2>2. Calls[t] = CallAt(t, pc[t], nxt[t], out[t])
    BY DEF Calls, CallOf, CallAt
  <2>3. CASE t \in Producers
    <3>1. pc[t] \in Unlinked \cup {"init_pointer"}
      BY <2>3 DEF Holding, Alone
    <3>2. Calls[t] = Pending
      BY <2>2, <2>3, <3>1, ProducerCall
    <3> QED
      BY <2>1, <3>2 DEF Pending, Idle
  <2>4. CASE t \in Consumers
    <3>1. pc[t] = "push"
      BY <2>4, LfdsQueueAssumption DEF Holding, Alone
    <3>2. Calls[t] = Done(out[t])
      BY <2>2, <2>4, <3>1, ConsumerCall
    <3> QED
      BY <2>1, <3>2 DEF Done, Idle
  <2> QED
    BY <2>3, <2>4 DEF Threads
<1>5. IsFiniteSet(B) /\ Cardinality(B) \in Nat
  <2>1. IsFiniteSet(Threads)
    BY LfdsQueueAssumption, FS_Union DEF Threads
  <2>2. B \in SUBSET Threads
    OBVIOUS
  <2> HIDE DEF B
  <2> QED
    BY <2>1, <2>2, FS_Subset, FS_CardinalityType
<1>6. Cardinality(H) <= Cardinality(B)
  <2> HIDE DEF H, B
  <2> QED
    BY <1>4, <1>5, FS_Subset
<1>7. Behind[p] = <<>>
  BY <1>2 DEF Behind, Unlinked
<1>8. {u \in Abstract!Threads \ {p} : Calls[u] # Abstract!Idle} = B
  BY DEF Abstract!Threads, Threads, Idle, Abstract!Idle
<1> HIDE DEF H, B
<1>9. Abstract!Accepted + Cardinality(B) >= Capacity
  <2>1. Capacity \in Nat /\ Abstract!Accepted + Cardinality(H) = Capacity
    BY <1>2, <1>3, Numbers
  <2> QED
    BY <1>3, <1>5, <1>6, <2>1
<1>10. Abstract!Accepted +
          Abstract!Cardinality({u \in Abstract!Threads \ {p} : Calls[u] # Abstract!Idle})
             >= Capacity
  BY <1>8, <1>9, SameCardinality
<1>11. Abstract!Refuse(p)
  <2> HIDE DEF Abstract!Accepted
  <2> QED
    BY <1>7, <1>10 DEF Abstract!Refuse, Become, Calls, Pending, Done, Abstract!Pending,
                       Abstract!Done
<1> QED
  BY <1>11 DEF Abstract!Next

\* An enqueue takes effect when it links its element.
LEMMA LinkStep ==
    ASSUME IInv, NEW p \in Producers, LinkElement(p), next[enq[p].ptr] = nxt[p],
           Become(p, Pending, Done("put"))
    PROVE  Abstract!Next
<1>1. PICK L \in [Places -> Seq(Elements)], N \in Nat :
         \E rank \in [Elements -> 0..N] : Inv(L, rank)
  BY DEF IInv
<1>2. PICK rank \in [Elements -> 0..N] : Inv(L, rank)
  BY <1>1
<1>3. TypesInv /\ CopiesInv /\ PlaceInv(L) /\ ListInv(L)
  BY <1>2 DEF IInv, Inv
<1>4. PICK v : v = Item(p, sent[p])
  OBVIOUS
<1>5. \/ /\ Contents' = Contents \o <<v>> \o Behind[p]
         /\ Behind' = [Behind EXCEPT ![p] = <<>>]
      \/ \E q \in Producers \ {p} :
           /\ pc[q] \in Unlinked
           /\ Contents' = Contents
           /\ Behind' = [Behind EXCEPT ![q] = @ \o <<v>> \o Behind[p], ![p] = <<>>]
  BY <1>2, <1>3, <1>4, LinkViews
<1>6. v \in ItemsOf[p] /\ pc[p] = "link"
  <2>1. ProducerInv(p) /\ pc[p] = "link" /\ load \in Loads /\ sent \in [Producers -> Nat]
    BY <1>3 DEF CopiesInv, LinkElement, TypesInv, LocalTypes
  <2>2. sent[p] >= 1 /\ sent[p] <= load[p]
    BY <2>1 DEF ProducerInv
  <2> QED
    BY <1>4, <2>1, <2>2, ItemType
<1>7. Abstract!Accepted < Capacity
  <2> DEFINE H == {t \in Threads : Holding(t)}
  <2>1. /\ IsFiniteSet(H) /\ Cardinality(H) \in Nat /\ Abstract!Accepted \in Nat
        /\ Abstract!Accepted + Len(freelist) + Cardinality(H) = Capacity
    BY <1>3, Accounts
  <2>2. p \in H
    BY <1>6 DEF Holding, Unlinked, Threads
  <2> HIDE DEF H
  <2>3. Cardinality(H) # 0
    BY <2>1, <2>2, FS_EmptySet
  <2>4. Len(freelist) \in Nat /\ Capacity \in Nat
    BY <1>3, Numbers DEF TypesInv, SharedTypes
  <2> HIDE DEF Abstract!Accepted
  <2> QED
    BY <2>1, <2>3, <2>4
<1>8. ASSUME Contents' = Contents \o <<v>> \o Behind[p],
             Behind' = [Behind EXCEPT ![p] = <<>>]
      PROVE  Abstract!Put(p)
  BY <1>6, <1>7, <1>8 DEF Abstract!Put, Become, Calls, Pending, Done, Abstract!Pending,
                          Abstract!Done
<1>9. ASSUME NEW q \in Producers \ {p}, pc[q] \in Unlinked, Contents' = Contents,
             Behind' = [Behind EXCEPT ![q] = @ \o <<v>> \o Behind[p], ![p] = <<>>]
      PROVE  Abstract!PutBehind(p, q)
  <2>1. Calls[q] = Pending
    <3>1. q \in Threads
      BY DEF Threads
    <3>2. Calls[q] = CallAt(q, pc[q], nxt[q], out[q])
      BY <3>1 DEF Calls, CallOf, CallAt
    <3> QED
      BY <1>9, <3>2, ProducerCall
  <2> QED
    BY <1>6, <1>7, <1>9, <2>1 DEF Abstract!PutBehind, Become, Calls, Pending, Done,
                                  Abstract!Pending, Abstract!Done
<1> QED
  BY <1>5, <1>8, <1>9 DEF Abstract!Next

LEMMA ProducerSimulates ==
    ASSUME IInv, IInv', NEW p \in Producers, Enqueue(p)
    PROVE  Abstract!Next \/ UNCHANGED Abstract!vars
<1>1. PICK L \in [Places -> Seq(Elements)], N \in Nat :
         \E rank \in [Elements -> 0..N] : Inv(L, rank)
  BY DEF IInv
<1>2. PICK rank \in [Elements -> 0..N] : Inv(L, rank)
  BY <1>1
<1>3. TypesInv /\ TypesInv' /\ CopiesInv /\ PlaceInv(L) /\ ListInv(L) /\ LocalTypes
      /\ p \in Threads
  BY <1>2 DEF IInv, Inv, TypesInv, Threads
<1>4. SharedMove(p)
  BY <1>3, ProducerCopies
<1>5. \/ LinkElement(p) /\ next[enq[p].ptr] = nxt[p]
      \/ UNCHANGED <<Contents, Behind>>
  BY <1>2, <1>3, ProducerViews
<1> DEFINE before == CallAt(p, pc[p], nxt[p], out[p])
           after == CallAt(p, pc'[p], nxt'[p], out'[p])
           steps == Unlinked \cup {"pop", "init_pointer"}
<1>6. Become(p, before, after)
  <2>1. Others(p)
    BY <1>3, ProducerCopies
  <2>2. Step(p, pc[p], pc'[p], elem'[p], enq'[p], deq'[p], nxt'[p])
    BY <2>1 DEF Step
  <2> QED
    BY <1>3, <1>4, <2>2, CallMoves
<1>7. \/ pc[p] = "idle" /\ pc'[p] = "pop"
      \/ PopFails(p) /\ pc[p] = "pop" /\ pc'[p] = "return_0"
      \/ /\ LinkElement(p) /\ next[enq[p].ptr] = nxt[p]
         /\ pc[p] = "link" /\ pc'[p] = "swing"
      \/ pc[p] = "swing" /\ pc'[p] = "return_1"
      \/ pc[p] \in {"return_1", "return_0"} /\ pc'[p] = "idle"
      \/ /\ pc[p] \in steps /\ pc'[p] \in steps
         /\ ~(LinkElement(p) /\ next[enq[p].ptr] = nxt[p])
  BY <1>3, ProducerEffects DEF Enqueue, Moves, Step, Unlinked
<1>8. /\ LinkElement(p) => pc[p] = "link"
      /\ pc[p] \notin {"idle", "swing", "return_1", "return_0", "pop"} \/ ~LinkElement(p)
  BY DEF LinkElement
<1> HIDE DEF before, after, steps
<1>9. CASE pc[p] = "idle" /\ pc'[p] = "pop"
  <2>1. before = Idle /\ after = Pending
    BY <1>9, ProducerCall DEF before, after
  <2> QED
    BY <1>3, <1>5, <1>6, <1>8, <1>9, <2>1, PlainSteps
<1>10. CASE PopFails(p) /\ pc[p] = "pop" /\ pc'[p] = "return_0"
  <2>1. before = Pending /\ after = Done("refused")
    BY <1>10, ProducerCall DEF before, after
  <2> QED
    BY <1>5, <1>6, <1>8, <1>10, <2>1, RefuseStep
<1>11. CASE /\ LinkElement(p) /\ next[enq[p].ptr] = nxt[p]
            /\ pc[p] = "link" /\ pc'[p] = "swing"
  <2>1. before = Pending /\ after = Done("put")
    BY <1>11, ProducerCall DEF before, after, Unlinked
  <2> QED
    BY <1>6, <1>11, <2>1, LinkStep
<1>12. CASE pc[p] = "swing" /\ pc'[p] = "return_1"
  <2>1. before = after
    BY <1>12, ProducerCall DEF before, after
  <2> QED
    BY <1>3, <1>5, <1>6, <1>8, <1>12, <2>1, PlainSteps
<1>13. CASE pc[p] \in {"return_1", "return_0"} /\ pc'[p] = "idle"
  <2>1. after = Idle /\ (before = Done("put") \/ before = Done("refused"))
    BY <1>13, ProducerCall DEF before, after
  <2>2. before.at = "done"
    BY <2>1 DEF Done
  <2> QED
    BY <1>3, <1>5, <1>6, <1>8, <1>13, <2>1, <2>2, PlainSteps
<1>14. CASE /\ pc[p] \in steps /\ pc'[p] \in steps
            /\ ~(LinkElement(p) /\ next[enq[p].ptr] = nxt[p])
  <2>1. before = after
    BY <1>14, ProducerCall DEF before, after, steps
  <2> QED
    BY <1>3, <1>5, <1>6, <1>14, <2>1, PlainSteps
<1> QED
  BY <1>7, <1>9, <1>10, <1>11, <1>12, <1>13, <1>14


\* A dequeue finds the queue empty when it reads a NULL next pointer.
LEMMA EmptyStep ==
    ASSUME IInv, NEW c \in Consumers, next[dequeue.ptr].ptr = NULL,
           Become(c, Pending, Done("empty")), UNCHANGED <<Contents, Behind>>
    PROVE  Abstract!Next
<1>1. PICK L \in [Places -> Seq(Elements)] : PlaceInv(L) /\ ListInv(L)
  BY DEF IInv, Inv
<1>2. L[Queue] \in Seq(Elements) /\ Len(L[Queue]) >= 1 /\ L[Queue][1] = dequeue.ptr
  BY <1>1, PlacesDiffer DEF ListInv
<1>3. Len(L[Queue]) <= 1
  <2>1. 1 \in 1..Len(L[Queue]) /\ Len(L[Queue]) \in Nat
    BY <1>2
  <2>2. next[L[Queue][1]].ptr = IF 1 < Len(L[Queue]) THEN L[Queue][1 + 1] ELSE NULL
    BY <1>1, <2>1 DEF ListInv, Linked
  <2>3. 1 < Len(L[Queue]) => L[Queue][1 + 1] \in Elements
    <3>1. 1 < Len(L[Queue]) => 1 + 1 \in 1..Len(L[Queue])
      BY <2>1
    <3> QED
      BY <1>2, <3>1, ElementOfSeq
  <2>4. ~(1 < Len(L[Queue]))
    BY <1>2, <2>2, <2>3, Numbers
  <2> QED
    BY <2>1, <2>4
<1>4. Contents = <<>>
  <2>1. Contents = Data(L[Queue], user_data)
    BY <1>1, Views
  <2> QED
    BY <1>2, <1>3, <2>1, DataEmpty
<1>5. Abstract!Empty(c)
  BY <1>4 DEF Abstract!Empty, Become, Calls, Pending, Done, Abstract!Pending, Abstract!Done
<1> QED
  BY <1>5 DEF Abstract!Next

\* A dequeue takes effect when it moves qs->dequeue.
LEMMA AdvanceStep ==
    ASSUME IInv, NEW c \in Consumers, AdvanceDequeue(c), dequeue = deq[c],
           Become(c, Pending, Done(out[c]))
    PROVE  Abstract!Next
<1>1. PICK L \in [Places -> Seq(Elements)], N \in Nat :
         \E rank \in [Elements -> 0..N] : Inv(L, rank)
  BY DEF IInv
<1>2. PICK rank \in [Elements -> 0..N] : Inv(L, rank)
  BY <1>1
<1>3. TypesInv /\ CopiesInv
  BY DEF IInv
<1>4. /\ Contents # <<>> /\ Head(Contents) = out[c]
      /\ Contents' = Tail(Contents) /\ Behind' = Behind
  BY <1>2, <1>3, AdvanceViews
<1>5. Abstract!Get(c)
  BY <1>4 DEF Abstract!Get, Become, Calls, Pending, Done, Abstract!Pending, Abstract!Done
<1> QED
  BY <1>5 DEF Abstract!Next

LEMMA ConsumerSimulates ==
    ASSUME IInv, IInv', OwnInv, NEW c \in Consumers, Dequeue(c)
    PROVE  Abstract!Next \/ UNCHANGED Abstract!vars
<1>1. PICK L \in [Places -> Seq(Elements)], N \in Nat :
         \E rank \in [Elements -> 0..N] : Inv(L, rank)
  BY DEF IInv
<1>2. PICK rank \in [Elements -> 0..N] : Inv(L, rank)
  BY <1>1
<1>3. TypesInv /\ TypesInv' /\ CopiesInv /\ PlaceInv(L) /\ ListInv(L) /\ LocalTypes
      /\ c \in Threads /\ ConsumerInv(c)
  BY <1>2 DEF IInv, Inv, TypesInv, Threads, CopiesInv
<1>4. SharedMove(c)
  BY <1>3, ConsumerCopies
<1>5. \/ AdvanceDequeue(c) /\ dequeue = deq[c]
      \/ UNCHANGED <<Contents, Behind>>
  BY <1>2, <1>3, ConsumerViews
<1> DEFINE before == CallAt(c, pc[c], nxt[c], out[c])
           after == CallAt(c, pc'[c], nxt'[c], out'[c])
           steps == {"deq_pointer", "deq_counter", "enq_pointer", "enq_counter",
                     "next_pointer", "help", "user_data", "advance"}
<1>6. Become(c, before, after)
  <2>1. Others(c)
    BY <1>3, ConsumerCopies
  <2>2. Step(c, pc[c], pc'[c], elem'[c], enq'[c], deq'[c], nxt'[c])
    BY <2>1 DEF Step
  <2> QED
    BY <1>3, <1>4, <2>2, CallMoves
<1>7. /\ pc[c] \in HasDequeue => deq[c] = dequeue
      /\ AdvanceDequeue(c) => pc[c] = "advance"
  BY DEF OwnInv, AdvanceDequeue, Goto
<1>8. /\ pc[c] \in {"next_pointer", "check", "check_counter", "advance"} => deq[c] = dequeue
      /\ pc[c] = "check_counter" /\ enq[c].ptr # deq[c].ptr => nxt[c].ptr # NULL
  BY <1>3, <1>7 DEF HasDequeue, ConsumerSteps, ConsumerInv, HasNext
<1>9. \/ pc[c] = "idle" /\ pc'[c] = "deq_pointer"
      \/ /\ pc[c] = "next_pointer" /\ pc'[c] = "next_counter"
         /\ nxt'[c].ptr = next[deq[c].ptr].ptr
      \/ AdvanceDequeue(c) /\ dequeue = deq[c] /\ pc[c] = "advance" /\ pc'[c] = "push"
      \/ pc[c] = "push" /\ pc'[c] = "return_1"
      \/ pc[c] \in {"return_1", "return_0"} /\ pc'[c] = "idle"
      \/ /\ pc[c] \in {"next_counter", "check"} /\ pc'[c] \in {"check", "check_counter"}
         /\ nxt'[c].ptr = nxt[c].ptr
      \/ /\ pc[c] = "check_counter" /\ nxt[c].ptr = NULL /\ pc'[c] = "return_0"
      \/ /\ pc[c] = "check_counter" /\ nxt[c].ptr # NULL
         /\ pc'[c] \in {"help", "user_data"}
      \/ pc[c] \in steps \ {"advance"} /\ pc'[c] \in steps
  <2>1. CASE CheckDequeuePointer(c)
    BY <1>3, <1>8, <2>1, ConsumerEffects DEF Moves, Step
  <2>2. CASE CheckDequeue(c)
    BY <1>3, <1>8, <2>2, ConsumerEffects DEF Moves, Step
  <2>3. CASE AdvanceDequeue(c)
    BY <1>3, <1>7, <1>8, <2>3, ConsumerEffects DEF Step
  <2>4. CASE ReadNextPointer(c, deq[c].ptr, "next_pointer", "next_counter")
             \/ ReadNextCounter(c, deq[c].ptr, "next_counter", "check")
    BY <1>3, <2>4, ConsumerEffects, Numbers DEF Step
  <2>5. CASE DequeueCall(c) \/ PushElement(c) \/ DequeueReturn(c)
    BY <1>3, <2>5, ConsumerEffects DEF Moves, Step
  <2>6. CASE \/ ReadDequeuePointer(c) \/ ReadDequeueCounter(c)
             \/ ReadEnqueuePointer(c, "enq_pointer", "enq_counter")
             \/ ReadEnqueueCounter(c, "enq_counter", "next_pointer")
             \/ SwingEnqueue(c, nxt[c].ptr, "help", "deq_pointer") \/ ReadUserData(c)
    BY <1>3, <2>6, ConsumerEffects DEF Moves, Step
  <2> QED
    BY <2>1, <2>2, <2>3, <2>4, <2>5, <2>6 DEF Dequeue
<1>10. out' = out \/ pc[c] = "user_data" \/ pc'[c] = "idle"
  BY <1>3, ConsumerFrames, ConsumerEffects DEF Moves, Step
<1> HIDE DEF before, after, steps
<1>11. CASE pc[c] = "idle" /\ pc'[c] = "deq_pointer"
  <2>1. before = Idle /\ after = Pending
    BY <1>11, ConsumerCall DEF before, after
  <2> QED
    BY <1>3, <1>5, <1>6, <1>7, <1>11, <2>1, PlainSteps
<1>12. CASE /\ pc[c] = "next_pointer" /\ pc'[c] = "next_counter"
            /\ nxt'[c].ptr = next[deq[c].ptr].ptr
  <2>1. before = Pending
    BY <1>12, ConsumerCall DEF before
  <2>2. after = IF next[dequeue.ptr].ptr = NULL THEN Done("empty") ELSE Pending
    BY <1>8, <1>12, ConsumerCall DEF after
  <2>3. CASE next[dequeue.ptr].ptr = NULL
    BY <1>5, <1>6, <1>7, <1>12, <2>1, <2>2, <2>3, EmptyStep
  <2>4. CASE next[dequeue.ptr].ptr # NULL
    BY <1>3, <1>5, <1>6, <1>7, <1>12, <2>1, <2>2, <2>4, PlainSteps
  <2> QED
    BY <2>3, <2>4
<1>13. CASE AdvanceDequeue(c) /\ dequeue = deq[c] /\ pc[c] = "advance" /\ pc'[c] = "push"
  <2>1. before = Pending /\ after = Done(out[c])
    BY <1>10, <1>13, ConsumerCall DEF before, after
  <2> QED
    BY <1>6, <1>13, <2>1, AdvanceStep
<1>14. CASE pc[c] = "push" /\ pc'[c] = "return_1"
  <2>1. before = after
    BY <1>10, <1>14, ConsumerCall DEF before, after
  <2> QED
    BY <1>3, <1>5, <1>6, <1>7, <1>14, <2>1, PlainSteps
<1>15. CASE pc[c] \in {"return_1", "return_0"} /\ pc'[c] = "idle"
  <2>1. after = Idle /\ (before = Done(out[c]) \/ before = Done("empty"))
    BY <1>15, ConsumerCall DEF before, after
  <2>2. before.at = "done"
    BY <2>1 DEF Done
  <2> QED
    BY <1>3, <1>5, <1>6, <1>7, <1>15, <2>1, <2>2, PlainSteps
<1>16. CASE /\ pc[c] \in {"next_counter", "check"} /\ pc'[c] \in {"check", "check_counter"}
            /\ nxt'[c].ptr = nxt[c].ptr
  <2>1. before = after
    BY <1>16, ConsumerCall DEF before, after
  <2> QED
    BY <1>3, <1>5, <1>6, <1>7, <1>16, <2>1, PlainSteps
<1>17. CASE pc[c] = "check_counter" /\ nxt[c].ptr = NULL /\ pc'[c] = "return_0"
  <2>1. before = after
    BY <1>17, ConsumerCall DEF before, after
  <2> QED
    BY <1>3, <1>5, <1>6, <1>7, <1>17, <2>1, PlainSteps
<1>18. CASE pc[c] = "check_counter" /\ nxt[c].ptr # NULL /\ pc'[c] \in {"help", "user_data"}
  <2>1. before = after
    BY <1>18, ConsumerCall DEF before, after
  <2> QED
    BY <1>3, <1>5, <1>6, <1>7, <1>18, <2>1, PlainSteps
<1>19. CASE pc[c] \in steps \ {"advance"} /\ pc'[c] \in steps
  <2>1. before = after
    BY <1>19, ConsumerCall DEF before, after, steps
  <2> QED
    BY <1>3, <1>5, <1>6, <1>7, <1>19, <2>1, PlainSteps
<1> QED
  BY <1>9, <1>11, <1>12, <1>13, <1>14, <1>15, <1>16, <1>17, <1>18, <1>19

LEMMA InitSimulates ==
    Init => Abstract!Init
<1> HAVE Init
<1>1. IInv /\ \A t \in Threads : pc[t] = "idle"
  BY InitInv DEF Init
<1>2. PICK S : S = <<Dummy>>
  OBVIOUS
<1>3. Chain = <<Dummy>>
  <2>1. dequeue.ptr = Dummy /\ next[Dummy].ptr = NULL /\ Dummy \in Elements
    BY Numbers, LfdsQueueAssumption DEF Init, Dummy
  <2>2. S \in Seq(Elements) /\ Len(S) = 1 /\ S[1] = Dummy
    BY <1>2, <2>1
  <2>3. Distinct(S)
    BY <2>2 DEF Distinct
  <2>4. Linked(S, next)
    BY <2>1, <2>2 DEF Linked
  <2>5. ChainFrom(S[1], next) = S
    BY <2>2, <2>3, <2>4, ChainIsList
  <2> QED
    BY <1>2, <2>1, <2>2, <2>5 DEF Chain
<1>4. Contents = <<>>
  <2>1. <<Dummy>> \in Seq(Elements) /\ Len(<<Dummy>>) <= 1
    BY Numbers, LfdsQueueAssumption DEF Dummy
  <2>2. Contents = Data(<<Dummy>>, user_data)
    BY <1>3 DEF Contents, ItemsAfterFirst, Data
  <2> QED
    BY <2>1, <2>2, DataEmpty
<1>5. Behind = [p \in Producers |-> <<>>]
  BY <1>1 DEF Behind, Unlinked, Threads
<1>6. Calls = [t \in Threads |-> Idle]
  BY <1>1 DEF Calls, CallOf, Idle
<1> QED
  BY <1>4, <1>5, <1>6 DEF Abstract!Init, Abstract!Threads, Abstract!Idle, Threads, Idle, Calls

(***************************************************************************)
(* For any number of producers and elements and one consumer, as in Jacks, *)
(* where JACK's threads enqueue and the script dequeues: queue_enqueue and *)
(* queue_dequeue implement a bounded first-in first-out queue.  No item is *)
(* lost, invented or delivered twice, a dequeue returns the oldest one or  *)
(* finds the queue empty at some moment of the call, and an enqueue is     *)
(* refused only when items and calls in progress take up the capacity.     *)
(***************************************************************************)
THEOREM QueueImplementsFifo ==
    ASSUME OneConsumer
    PROVE  Spec => ImplementsQueue
<1>1. IInv /\ IInv' /\ OwnInv /\ [Next]_vars => [Abstract!Next]_(Abstract!vars)
  <2> SUFFICES ASSUME IInv, IInv', OwnInv, [Next]_vars
               PROVE  Abstract!Next \/ UNCHANGED Abstract!vars
    OBVIOUS
  <2>1. CASE UNCHANGED vars
    <3>1. UNCHANGED <<dequeue, next, user_data, pc, elem, nxt, out>>
      BY <2>1 DEF vars, shared, local
    <3>2. Contents' = Contents /\ Behind' = Behind
      BY <3>1 DEF Contents, Behind, Chain, ItemsAfterFirst
    <3>3. \A t \in Threads : CallOf(t)' = CallOf(t)
      BY <3>1 DEF CallOf
    <3> QED
      BY <3>2, <3>3 DEF Abstract!vars
  <2>2. CASE \E p \in Producers : Enqueue(p)
    BY <2>2, ProducerSimulates
  <2>3. CASE \E c \in Consumers : Dequeue(c)
    BY <2>3, ConsumerSimulates
  <2> QED
    BY <2>1, <2>2, <2>3 DEF Next
<1>2. Spec => []OwnInv
  BY OwnInvariant
<1> QED
  BY <1>1, <1>2, InitSimulates, QueueInvariant, PTL DEF Spec, ImplementsQueue, Abstract!Spec
=============================================================================
