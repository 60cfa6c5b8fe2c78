------------------------- MODULE LfdsFreelistProofs -------------------------
(***************************************************************************)
(* Proofs about LfdsFreelist, for any number of threads and elements: each *)
(* element is in one place, and the freelist implements a stack.           *)
(***************************************************************************)
EXTENDS LfdsFreelist, FiniteSetTheorems, SequenceTheorems,
        WellFoundedInduction, TLAPS

-----------------------------------------------------------------------------
(* Lemmas about Chain *)

\* The least-number principle for a set of numbers
LEMMA LeastNumber ==
    ASSUME NEW T, T \subseteq Nat, T # {}
    PROVE  \E x \in T : \A y \in T : ~(y < x)
<1> DEFINE R == {ss \in Nat \X Nat : ss[1] < ss[2]}
<1>1. IsWellFoundedOn(R, Nat)
  BY NatLessThanWellFounded DEF OpToRel
<1> HIDE DEF R
<1>2. \E x \in T : \A y \in T : ~(<<y, x>> \in R)
  BY <1>1, WFMin
<1> QED
  BY <1>2 DEF R

\* The elements of a list, without their counters
Pointers(S) == [k \in 1..Len(S) |-> S[k].ptr]

\* What a list is made of
LEMMA ListOf ==
    ASSUME NEW S \in Seq(Stamped)
    PROVE  /\ Len(S) \in Nat
           /\ \A k \in 1..Len(S) : /\ S[k] \in Stamped
                                   /\ S[k] = Pair(S[k].ptr, S[k].ctr)
                                   /\ S[k].ptr \in Elements
                                   /\ S[k].ptr # NULL
                                   /\ S[k].ctr \in Nat
<1>1. Len(S) \in Nat /\ \A k \in 1..Len(S) : S[k] \in Stamped
  OBVIOUS
<1>2. \A p \in Stamped : /\ p = Pair(p.ptr, p.ctr)
                         /\ p.ptr \in Elements
                         /\ p.ptr # NULL
                         /\ p.ctr \in Nat
  BY LfdsFreelistAssumption DEF Stamped, Pair, Elements, NULL
<1> QED
  BY <1>1, <1>2

\* A list without repetitions is no longer than there are elements.
LEMMA ListIsShort ==
    ASSUME NEW S \in Seq(Stamped), NEW head, NEW links, IsList(S, head, links)
    PROVE  Len(S) \in Nat /\ Len(S) <= NumElements
<1>1. Len(S) \in Nat
  BY ListOf
<1>2. \A k \in 1..Len(S) : S[k].ptr \in Elements
  BY ListOf
<1>3. Pointers(S) \in Injection(1..Len(S), Elements)
  BY <1>2 DEF Pointers, Injection, IsInjective, IsList
<1>4. IsFiniteSet(Elements) /\ Cardinality(Elements) = NumElements
  BY FS_Interval, LfdsFreelistAssumption DEF Elements
<1>5. Cardinality(1..Len(S)) = Len(S)
  <2>1. \A n \in Nat : Cardinality(1..n) = IF 1 > n THEN 0 ELSE n - 1 + 1
    BY FS_Interval
  <2>2. \A n \in Nat : Cardinality(1..n) = n
    BY <2>1
  <2> QED
    BY <1>1, <2>2
<1>6. Cardinality(1..Len(S)) <= Cardinality(Elements)
  BY <1>3, <1>4, FS_Injection
<1> QED
  BY <1>1, <1>4, <1>5, <1>6

\* What the n-th turn of Chain makes of the turns before it
Turn(f, n, head, links) ==
    IF n = 0 THEN <<>>
    ELSE LET above == f[n - 1]
             ptr == IF above = <<>> THEN head.ptr
                                    ELSE links[above[Len(above)]].ptr
         IN  IF ptr = NULL THEN above ELSE Append(above, ptr)

\* The first n elements of a list
Prefix(S, n) == [k \in 1..(IF n <= Len(S) THEN n ELSE Len(S)) |-> S[k].ptr]

\* A turn of Chain takes one more element of the list.
LEMMA PrefixTurn ==
    ASSUME NEW S \in Seq(Stamped), NEW head, NEW links,
           IsList(S, head, links),
           NEW n \in Nat, NEW f, n = 0 \/ f[n - 1] = Prefix(S, n - 1)
    PROVE  Turn(f, n, head, links) = Prefix(S, n)
<1>0. Len(S) \in Nat
  BY LenProperties
<1>1. \A k \in 1..Len(S) : S[k].ptr \in Elements /\ S[k].ptr # NULL
  BY ListOf
<1>2. CASE n = 0
  <2>1. Prefix(S, 0) = <<>>
    BY <1>0 DEF Prefix
  <2> QED
    BY <1>2, <2>1 DEF Turn
<1>3. CASE n > 0 /\ n <= Len(S)
  <2>1. Prefix(S, n - 1) = [k \in 1..n - 1 |-> S[k].ptr]
    BY <1>0, <1>3 DEF Prefix
  <2>2. Prefix(S, n) = [k \in 1..n |-> S[k].ptr]
    BY <1>0, <1>3 DEF Prefix
  <2>3. Prefix(S, n - 1) \in Seq(Elements) /\ Len(Prefix(S, n - 1)) = n - 1
    BY <1>0, <1>1, <1>3, <2>1
  <2>4. Append(Prefix(S, n - 1), S[n].ptr) = Prefix(S, n)
    BY <1>0, <1>1, <1>3, <2>1, <2>2, <2>3
  <2>5. CASE n = 1
    <3>1. Prefix(S, n - 1) = <<>>
      BY <2>1, <2>5
    <3>2. head.ptr = S[n].ptr
      BY <1>0, <1>3, <2>5 DEF IsList
    <3> QED
      BY <1>1, <1>3, <2>4, <2>5, <3>1, <3>2 DEF Turn
  <2>6. CASE n # 1
    <3>1. Prefix(S, n - 1) # <<>>
      BY <1>3, <2>3, <2>6
    <3>2. Prefix(S, n - 1)[n - 1] = S[n - 1].ptr
      BY <1>3, <2>1, <2>6
    <3>3. links[S[n - 1].ptr].ptr = S[n].ptr
      BY <1>0, <1>3, <2>6 DEF IsList
    <3> QED
      BY <1>1, <1>3, <2>3, <2>4, <3>1, <3>2, <3>3 DEF Turn
  <2> QED
    BY <2>5, <2>6
<1>4. CASE n > Len(S)
  <2>1. Prefix(S, n - 1) = Pointers(S) /\ Prefix(S, n) = Pointers(S)
    BY <1>0, <1>4 DEF Prefix, Pointers
  <2>2. CASE Len(S) = 0
    <3>1. Pointers(S) = <<>>
      BY <2>2 DEF Pointers
    <3>2. S = <<>>
      BY <2>2, EmptySeq
    <3>3. head.ptr = NULL
      BY <3>2 DEF IsList, NoPair, Pair
    <3> QED
      BY <1>4, <2>2, <2>1, <3>1, <3>3 DEF Turn
  <2>3. CASE Len(S) # 0
    <3>1. Pointers(S) \in Seq(Elements) /\ Len(Pointers(S)) = Len(S)
      BY <1>0, <1>1 DEF Pointers
    <3>2. Pointers(S) # <<>>
      BY <2>3, <3>1
    <3>3. Pointers(S)[Len(S)] = S[Len(S)].ptr
      BY <1>0, <2>3 DEF Pointers
    <3>4. links[S[Len(S)].ptr].ptr = NULL
      BY <1>0, <2>3 DEF IsList, NoPair, Pair
    <3>5. n # 0 /\ f[n - 1] = Pointers(S)
      BY <1>0, <1>4, <2>1
    <3> QED
      BY <2>1, <3>1, <3>2, <3>3, <3>4, <3>5 DEF Turn
  <2> QED
    BY <2>2, <2>3
<1> QED
  BY <1>0, <1>2, <1>3, <1>4

\* Chain finds the list that is there.
LEMMA ChainIsList ==
    ASSUME NEW S \in Seq(Stamped), NEW head, NEW links, IsList(S, head, links)
    PROVE  Chain(head, links) = Pointers(S)
<1> DEFINE N == NumElements + 1
           P(f) == f = [n \in 0..N |-> Turn(f, n, head, links)]
           g == [n \in 0..N |-> Prefix(S, n)]
           c == CHOOSE f : P(f)
<1>0. N \in Nat /\ Len(S) \in Nat /\ Len(S) <= NumElements
  BY ListIsShort, LfdsFreelistAssumption
<1>1. Chain(head, links) = c[N]
  BY DEF Chain, Turn
<1>2. \A n \in 0..N : Turn(g, n, head, links) = Prefix(S, n)
  <2> TAKE n \in 0..N
  <2>0. n \in Nat /\ (n = 0 \/ n - 1 \in 0..N)
    BY <1>0
  <2>1. n = 0 \/ g[n - 1] = Prefix(S, n - 1)
    BY <2>0
  <2>2. \A f : (n = 0 \/ f[n - 1] = Prefix(S, n - 1)) =>
                 Turn(f, n, head, links) = Prefix(S, n)
    BY <2>0, PrefixTurn
  <2> QED
    BY <2>1, <2>2
<1>3. P(g)
  BY <1>2
<1> HIDE DEF P
<1>4. P(c)
  BY <1>3, Zenon
<1> HIDE DEF c
<1>5. \A n \in 0..N : c[n] = Turn(c, n, head, links)
  BY <1>4 DEF P
<1> HIDE DEF N
<1>6. \A n \in 0..N : c[n] = Prefix(S, n)
  <2> DEFINE T == {n \in 0..N : c[n] # Prefix(S, n)}
  <2>1. SUFFICES ASSUME T # {} PROVE FALSE
    OBVIOUS
  <2>2. T \subseteq Nat
    BY <1>0
  <2>. HIDE DEF T
  <2>6. PICK x \in T : \A y \in T : ~(y < x)
    BY <2>1, <2>2, LeastNumber
  <2>3. x \in Nat /\ x \in 0..N /\ (x = 0 \/ x - 1 \in 0..N)
    BY <1>0 DEF T
  <2>4. x = 0 \/ c[x - 1] = Prefix(S, x - 1)
    <3>1. x # 0 => x - 1 \notin T
      <4>1. x # 0 => x - 1 < x
        BY <2>3
      <4> QED
        BY <2>3, <2>6, <4>1
    <3> QED
      BY <2>3, <3>1 DEF T
  <2>5. Turn(c, x, head, links) = Prefix(S, x)
    BY <2>3, <2>4, PrefixTurn
  <2> QED
    BY <1>5, <2>3, <2>5 DEF T
<1>7. Prefix(S, N) = Pointers(S)
  <2>1. (IF N <= Len(S) THEN N ELSE Len(S)) = Len(S)
    BY <1>0, LfdsFreelistAssumption DEF N
  <2> QED
    BY <2>1 DEF Prefix, Pointers
<1>8. N \in 0..N
  BY <1>0
<1> QED
  BY <1>1, <1>6, <1>7, <1>8
-----------------------------------------------------------------------------
(* What each action does, thread by thread *)

Step(t, from, to, loc, exch) ==
    /\ pc[t] = from /\ pc'[t] = to
    /\ local'[t] = loc /\ exchange'[t] = exch
    /\ \A u \in Threads \ {t} : /\ pc'[u] = pc[u]
                                /\ local'[u] = local[u]
                                /\ exchange'[u] = exchange[u]

\* The actions of a thread change its own words and, but for the two DCAS, the
\* pushes' links and the comings and goings of elements, nothing shared.
LEMMA Effects ==
    ASSUME TypesInv, NEW t \in Threads
    PROVE  /\ PopCall(t) => Step(t, "idle", "pop_counter", local[t], exchange[t])
           /\ PopReadCounter(t) =>
                Step(t, "pop_counter", "pop_pointer",
                     Pair(local[t].ptr, top.ctr), exchange[t])
           /\ PopReadPointer(t) =>
                Step(t, "pop_pointer", "pop_test",
                     Pair(top.ptr, local[t].ctr), exchange[t])
           /\ PopEmpty(t) => Step(t, "pop_test", "popped", local[t], exchange[t])
           /\ PopReadNextPointer(t) =>
                Step(t, "pop_test", "pop_next_counter", local[t],
                     Pair(next[local[t].ptr].ptr, exchange[t].ctr))
           /\ PopReadNextCounter(t) =>
                Step(t, "pop_next_counter", "pop_dcas", local[t],
                     Pair(exchange[t].ptr, next[local[t].ptr].ctr))
           /\ PopDcas(t) =>
                Step(t, "pop_dcas", IF top = local[t] THEN "popped" ELSE "pop_test",
                     top, exchange[t])
           /\ PopReturn(t) => Step(t, "popped", "idle", NoPair, NoPair)
           /\ PushCall(t) =>
                \E e \in taken :
                   /\ Step(t, "idle", "push_pointer", local[t],
                           Pair(e, aba_counter + 1))
                   /\ taken' = taken \ {e}
           /\ PushReadPointer(t) =>
                Step(t, "push_pointer", "push_counter",
                     Pair(top.ptr, local[t].ctr), exchange[t])
           /\ PushReadCounter(t) =>
                Step(t, "push_counter", "push_next_pointer",
                     Pair(local[t].ptr, top.ctr), exchange[t])
           /\ PushNextPointer(t) =>
                Step(t, "push_next_pointer", "push_next_counter",
                     local[t], exchange[t])
           /\ PushNextCounter(t) =>
                Step(t, "push_next_counter", "push_dcas", local[t], exchange[t])
           /\ PushDcas(t) =>
                Step(t, "push_dcas", IF top = local[t] THEN "pushed"
                                     ELSE "push_next_pointer",
                     top, exchange[t])
           /\ PushReturn(t) => Step(t, "pushed", "idle", NoPair, NoPair)
<1>0. /\ pc = [u \in Threads |-> pc[u]]
      /\ local \in [Threads -> Pairs] /\ exchange \in [Threads -> Pairs]
  BY DEF TypesInv
<1>1. PopCall(t) => Step(t, "idle", "pop_counter", local[t], exchange[t])
  BY <1>0 DEF PopCall, Goto, Step
<1>2. PopReadCounter(t) => Step(t, "pop_counter", "pop_pointer",
                                Pair(local[t].ptr, top.ctr), exchange[t])
  BY <1>0 DEF PopReadCounter, Goto, Step, Pairs, Pair
<1>3. PopReadPointer(t) => Step(t, "pop_pointer", "pop_test",
                                Pair(top.ptr, local[t].ctr), exchange[t])
  BY <1>0 DEF PopReadPointer, Goto, Step, Pairs, Pair
<1>4. PopEmpty(t) => Step(t, "pop_test", "popped", local[t], exchange[t])
  BY <1>0 DEF PopEmpty, Goto, Step
<1>5. PopReadNextPointer(t) =>
        Step(t, "pop_test", "pop_next_counter", local[t],
             Pair(next[local[t].ptr].ptr, exchange[t].ctr))
  BY <1>0 DEF PopReadNextPointer, Goto, Step, Pairs, Pair
<1>6. PopReadNextCounter(t) =>
        Step(t, "pop_next_counter", "pop_dcas", local[t],
             Pair(exchange[t].ptr, next[local[t].ptr].ctr))
  BY <1>0 DEF PopReadNextCounter, Goto, Step, Pairs, Pair
<1>7. PopDcas(t) =>
        Step(t, "pop_dcas", IF top = local[t] THEN "popped" ELSE "pop_test",
             top, exchange[t])
  BY <1>0 DEF PopDcas, Goto, Step
<1>8. PopReturn(t) => Step(t, "popped", "idle", NoPair, NoPair)
  BY <1>0 DEF PopReturn, Goto, Step
<1>9. PushCall(t) =>
        \E e \in taken :
           /\ Step(t, "idle", "push_pointer", local[t], Pair(e, aba_counter + 1))
           /\ taken' = taken \ {e}
  BY <1>0 DEF PushCall, Goto, Increment, Step
<1>10. PushReadPointer(t) => Step(t, "push_pointer", "push_counter",
                                  Pair(top.ptr, local[t].ctr), exchange[t])
  BY <1>0 DEF PushReadPointer, Goto, Step, Pairs, Pair
<1>11. PushReadCounter(t) => Step(t, "push_counter", "push_next_pointer",
                                  Pair(local[t].ptr, top.ctr), exchange[t])
  BY <1>0 DEF PushReadCounter, Goto, Step, Pairs, Pair
<1>12. PushNextPointer(t) => Step(t, "push_next_pointer", "push_next_counter",
                                  local[t], exchange[t])
  BY <1>0 DEF PushNextPointer, Goto, Step
<1>13. PushNextCounter(t) =>
         Step(t, "push_next_counter", "push_dcas", local[t], exchange[t])
  BY <1>0 DEF PushNextCounter, Goto, Step
<1>14. PushDcas(t) =>
         Step(t, "push_dcas", IF top = local[t] THEN "pushed"
                              ELSE "push_next_pointer",
              top, exchange[t])
  BY <1>0 DEF PushDcas, Goto, Step
<1>15. PushReturn(t) => Step(t, "pushed", "idle", NoPair, NoPair)
  BY <1>0 DEF PushReturn, Goto, Step
<1> QED
  BY <1>1, <1>2, <1>3, <1>4, <1>5, <1>6, <1>7, <1>8, <1>9, <1>10, <1>11, <1>12,
     <1>13, <1>14, <1>15

\* The top of a list
LEMMA TopOf ==
    ASSUME NEW S \in Seq(Stamped), NEW head, NEW links, IsList(S, head, links)
    PROVE  /\ head \in Pairs
           /\ \/ S = <<>> /\ Len(S) = 0 /\ head = NoPair /\ head.ptr = NULL
                /\ head.ctr = 0
              \/ /\ Len(S) # 0 /\ 1 \in 1..Len(S) /\ head = S[1]
                 /\ head.ptr \in Elements /\ head.ptr # NULL
<1>1. CASE S = <<>>
  <2>1. Len(S) = 0 /\ head = NoPair
    BY <1>1 DEF IsList
  <2>2. NoPair \in Pairs /\ NoPair.ptr = NULL /\ NoPair.ctr = 0
    BY DEF Pairs, NoPair, Pair, NULL
  <2> QED
    BY <1>1, <2>1, <2>2
<1>2. CASE S # <<>>
  <2>1. Len(S) # 0 /\ Len(S) \in Nat
    BY <1>2
  <2>2. head = S[1] /\ 1 \in 1..Len(S)
    BY <1>2, <2>1 DEF IsList
  <2>3. S[1] \in Stamped /\ S[1].ptr \in Elements /\ S[1].ptr # NULL
    BY <2>2, ListOf
  <2>4. Stamped \subseteq Pairs
    BY DEF Stamped, Pairs
  <2> QED
    BY <2>1, <2>2, <2>3, <2>4
<1> QED
  BY <1>1, <1>2
-----------------------------------------------------------------------------
(* Types *)

LEMMA TypesStep ==
    ASSUME TypesInv, top \in Pairs, NEW t \in Threads, Pop(t) \/ Push(t)
    PROVE  TypesInv'
<1> USE DEF TypesInv, Goto
<1>0. NoPair \in Pairs
  BY DEF Pairs, NoPair, Pair, NULL
<1>1. CASE PopCall(t)
  BY <1>1 DEF PopCall, PushSteps, PopReads, PopLinks
<1>2. CASE PopReadCounter(t)
  <2>1. local' \in [Threads -> Pairs]
    BY <1>2 DEF PopReadCounter, Pairs
  <2>2. \A u \in Threads : local'[u].ptr = local[u].ptr
    BY <1>2 DEF PopReadCounter, Pairs
  <2> QED
    BY <1>2, <2>1, <2>2 DEF PopReadCounter, PushSteps, PopReads, PopLinks
<1>3. CASE PopReadPointer(t)
  <2>1. local' \in [Threads -> Pairs]
    BY <1>3 DEF PopReadPointer, Pairs
  <2>2. \A u \in Threads \ {t} : local'[u].ptr = local[u].ptr
    BY <1>3 DEF PopReadPointer, Pairs
  <2> QED
    BY <1>3, <2>1, <2>2 DEF PopReadPointer, PushSteps, PopReads, PopLinks
<1>4. CASE PopEmpty(t)
  BY <1>4 DEF PopEmpty, PushSteps, PopReads, PopLinks
<1>5. CASE PopReadNextPointer(t)
  <2>1. local[t].ptr \in Elements
    BY <1>5 DEF PopReadNextPointer, Pairs
  <2>2. exchange' \in [Threads -> Pairs]
    BY <1>5, <2>1 DEF PopReadNextPointer, Pairs
  <2>3. \A u \in Threads \ {t} : exchange'[u].ptr = exchange[u].ptr
    BY <1>5 DEF PopReadNextPointer, Pairs
  <2> QED
    BY <1>5, <2>1, <2>2, <2>3 DEF PopReadNextPointer, PushSteps, PopReads, PopLinks
<1>6. CASE PopReadNextCounter(t)
  <2>1. local[t].ptr \in Elements
    BY <1>6 DEF PopReadNextCounter, PopLinks
  <2>2. exchange' \in [Threads -> Pairs]
    BY <1>6, <2>1 DEF PopReadNextCounter, Pairs
  <2>3. \A u \in Threads \ {t} : exchange'[u].ptr = exchange[u].ptr
    BY <1>6 DEF PopReadNextCounter, Pairs
  <2> QED
    BY <1>6, <2>1, <2>2, <2>3 DEF PopReadNextCounter, PushSteps, PopReads, PopLinks
<1>7. CASE PopDcas(t)
  BY <1>7 DEF PopDcas, PushSteps, PopReads, PopLinks
<1>8. CASE PopReturn(t)
  <2>1. taken' \subseteq Elements
    BY <1>8 DEF PopReturn, Pairs
  <2> QED
    BY <1>0, <1>8, <2>1 DEF PopReturn, PushSteps, PopReads, PopLinks
<1>9. CASE PushCall(t)
  <2>1. PICK e \in taken :
           /\ pc[t] = "idle" /\ pc' = [pc EXCEPT ![t] = "push_pointer"]
           /\ taken' = taken \ {e}
           /\ aba_counter' = aba_counter + 1
           /\ exchange' = [exchange EXCEPT ![t] = Pair(e, aba_counter + 1)]
           /\ UNCHANGED <<top, next, local>>
    BY <1>9 DEF PushCall, Increment
  <2>2. Pair(e, aba_counter + 1) \in Pairs /\ Pair(e, aba_counter + 1).ptr = e
    BY DEF Pair, Pairs
  <2> QED
    BY <2>1, <2>2 DEF PushSteps, PopReads, PopLinks
<1>10. CASE PushReadPointer(t)
  <2>1. local' \in [Threads -> Pairs]
    BY <1>10 DEF PushReadPointer, Pairs
  <2>2. \A u \in Threads \ {t} : local'[u].ptr = local[u].ptr
    BY <1>10 DEF PushReadPointer, Pairs
  <2> QED
    BY <1>10, <2>1, <2>2 DEF PushReadPointer, PushSteps, PopReads, PopLinks
<1>11. CASE PushReadCounter(t)
  <2>1. local' \in [Threads -> Pairs]
    BY <1>11 DEF PushReadCounter, Pairs
  <2>2. \A u \in Threads : local'[u].ptr = local[u].ptr
    BY <1>11 DEF PushReadCounter, Pairs
  <2> QED
    BY <1>11, <2>1, <2>2 DEF PushReadCounter, PushSteps, PopReads, PopLinks
<1>12. CASE PushNextPointer(t)
  <2>1. next' \in [Elements -> Pairs]
    BY <1>12 DEF PushNextPointer, Pairs
  <2> QED
    BY <1>12, <2>1 DEF PushNextPointer, PushSteps, PopReads, PopLinks
<1>13. CASE PushNextCounter(t)
  <2>1. next' \in [Elements -> Pairs]
    BY <1>13 DEF PushNextCounter, Pairs
  <2> QED
    BY <1>13, <2>1 DEF PushNextCounter, PushSteps, PopReads, PopLinks
<1>14. CASE PushDcas(t)
  BY <1>14 DEF PushDcas, PushSteps, PopReads, PopLinks
<1>15. CASE PushReturn(t)
  BY <1>0, <1>15 DEF PushReturn, PushSteps, PopReads, PopLinks
<1> QED
  BY <1>1, <1>2, <1>3, <1>4, <1>5, <1>6, <1>7, <1>8, <1>9, <1>10, <1>11, <1>12,
     <1>13, <1>14, <1>15 DEF Pop, Push
-----------------------------------------------------------------------------
(* Links *)

\* Only a push changes a link, and only that of the element it pushes.
LEMMA Links ==
    ASSUME TypesInv, NEW t \in Threads
    PROVE  /\ Pop(t) => next' = next
           /\ PushCall(t) \/ PushReadPointer(t) \/ PushReadCounter(t)
              \/ PushDcas(t) \/ PushReturn(t) => next' = next
           /\ PushNextPointer(t) =>
                /\ next'[exchange[t].ptr].ptr = local[t].ptr
                /\ \A e \in Elements \ {exchange[t].ptr} : next'[e] = next[e]
           /\ PushNextCounter(t) =>
                /\ next'[exchange[t].ptr].ptr = next[exchange[t].ptr].ptr
                /\ next'[exchange[t].ptr].ctr = local[t].ctr
                /\ \A e \in Elements \ {exchange[t].ptr} : next'[e] = next[e]
<1>1. Pop(t) => next' = next
  BY DEF Pop, PopCall, PopReadCounter, PopReadPointer, PopEmpty,
         PopReadNextPointer, PopReadNextCounter, PopDcas, PopReturn
<1>2. PushCall(t) \/ PushReadPointer(t) \/ PushReadCounter(t)
      \/ PushDcas(t) \/ PushReturn(t) => next' = next
  BY DEF PushCall, PushReadPointer, PushReadCounter, PushDcas, PushReturn
<1>3. ASSUME PushNextPointer(t)
      PROVE  /\ next'[exchange[t].ptr].ptr = local[t].ptr
             /\ \A e \in Elements \ {exchange[t].ptr} : next'[e] = next[e]
  <2>1. exchange[t].ptr \in Elements
    BY <1>3 DEF PushNextPointer, Goto, TypesInv, PushSteps
  <2> QED
    BY <1>3, <2>1 DEF PushNextPointer, TypesInv, Pairs
<1>4. ASSUME PushNextCounter(t)
      PROVE  /\ next'[exchange[t].ptr].ptr = next[exchange[t].ptr].ptr
             /\ next'[exchange[t].ptr].ctr = local[t].ctr
             /\ \A e \in Elements \ {exchange[t].ptr} : next'[e] = next[e]
  <2>1. exchange[t].ptr \in Elements
    BY <1>4 DEF PushNextCounter, Goto, TypesInv, PushSteps
  <2> QED
    BY <1>4, <2>1 DEF PushNextCounter, TypesInv, Pairs
<1> QED
  BY <1>1, <1>2, <1>3, <1>4

\* Two pushes never have the same element.
LEMMA PushesApart ==
    ASSUME TypesInv, NEW S, PlaceInv(S),
           NEW t \in Threads, NEW u \in Threads,
           pc[t] \in PushSteps, pc[u] \in PushSteps,
           exchange[t].ptr = exchange[u].ptr
    PROVE  t = u
<1>1. exchange[t].ptr \in Elements
  BY DEF TypesInv
<1>2. Holds(t, exchange[t].ptr) /\ Holds(u, exchange[t].ptr)
  BY DEF Holds
<1> QED
  BY <1>1, <1>2 DEF PlaceInv

LEMMA PushInvStep ==
    ASSUME TypesInv, PushInv, NEW S, PlaceInv(S),
           NEW t \in Threads, Pop(t) \/ Push(t)
    PROVE  PushInv'
<1> DEFINE Linked(u) ==
      /\ pc[u] \in {"push_next_counter", "push_dcas"}
            => next[exchange[u].ptr].ptr = local[u].ptr
      /\ pc[u] = "push_dcas" => next[exchange[u].ptr].ctr = local[u].ctr
<1>0. \A u \in Threads : Linked(u)
  BY DEF PushInv
<1>1. CASE Pop(t)
  <2>1. next' = next
    BY <1>1, Links
  <2>2. /\ pc'[t] \notin {"push_next_counter", "push_dcas"}
        /\ \A u \in Threads \ {t} : /\ pc'[u] = pc[u]
                                    /\ local'[u] = local[u]
                                    /\ exchange'[u] = exchange[u]
    BY <1>1, Effects DEF Pop, Step
  <2> QED
    BY <1>0, <2>1, <2>2 DEF PushInv
<1>2. CASE PushCall(t) \/ PushReadPointer(t) \/ PushReadCounter(t)
           \/ PushDcas(t) \/ PushReturn(t)
  <2>1. next' = next
    BY <1>2, Links
  <2>2. /\ pc'[t] \notin {"push_next_counter", "push_dcas"}
        /\ \A u \in Threads \ {t} : /\ pc'[u] = pc[u]
                                    /\ local'[u] = local[u]
                                    /\ exchange'[u] = exchange[u]
    BY <1>2, Effects DEF Step
  <2> QED
    BY <1>0, <2>1, <2>2 DEF PushInv
<1>3. ASSUME NEW u \in Threads \ {t},
             PushNextPointer(t) \/ PushNextCounter(t)
      PROVE  Linked(u)'
  <2>1. /\ pc'[u] = pc[u] /\ local'[u] = local[u] /\ exchange'[u] = exchange[u]
        /\ pc[t] \in PushSteps
    BY <1>3, Effects DEF Step, PushSteps
  <2>2. CASE pc[u] \in {"push_next_counter", "push_dcas"}
    <3>1. pc[u] \in PushSteps
      BY <2>2 DEF PushSteps
    <3>2. exchange[u].ptr \in Elements \ {exchange[t].ptr}
      BY <2>1, <3>1, PushesApart DEF TypesInv
    <3>3. next'[exchange[u].ptr] = next[exchange[u].ptr]
      BY <1>3, <3>2, Links
    <3> QED
      BY <1>0, <2>1, <3>3
  <2> QED
    BY <2>1, <2>2
<1>4. CASE PushNextPointer(t)
  <2>1. Linked(t)'
    BY <1>4, Links, Effects DEF Step
  <2> QED
    BY <1>3, <1>4, <2>1 DEF PushInv
<1>5. CASE PushNextCounter(t)
  <2>1. Linked(t)'
    BY <1>0, <1>5, Links, Effects DEF Step
  <2> QED
    BY <1>3, <1>5, <2>1 DEF PushInv
<1> QED
  BY <1>1, <1>2, <1>4, <1>5 DEF Push
-----------------------------------------------------------------------------
(* Counters *)

\* A thread's counters: a push's is taken from aba_counter or kept, and a pop's
\* comes from top or is kept.
LEMMA Counters ==
    ASSUME TypesInv, top \in Pairs, NEW t \in Threads, Pop(t) \/ Push(t)
    PROVE  /\ aba_counter' \in Nat /\ aba_counter <= aba_counter'
           /\ local'[t].ctr \in {local[t].ctr, top.ctr, 0}
           /\ pc'[t] \in PushSteps =>
                \/ pc[t] \in PushSteps /\ exchange'[t] = exchange[t]
                \/ /\ exchange'[t].ctr = aba_counter + 1
                   /\ aba_counter' = aba_counter + 1
           /\ pc'[t] \in PopReads =>
                \/ pc[t] \in PopReads /\ local'[t].ctr = local[t].ctr
                \/ local'[t].ctr = top.ctr
           /\ pc'[t] \notin PushSteps \/ pc[t] \in PushSteps
                => aba_counter' = aba_counter
<1>0. /\ \A p, c : Pair(p, c).ctr = c
      /\ NoPair.ctr = 0 /\ aba_counter \in Nat
  BY DEF Pair, NoPair, TypesInv
<1>1. CASE PushCall(t)
  <2>1. aba_counter' = aba_counter + 1
    BY <1>1 DEF PushCall, Increment
  <2>2. /\ pc[t] = "idle" /\ pc'[t] = "push_pointer" /\ local'[t] = local[t]
        /\ exchange'[t].ctr = aba_counter + 1
    BY <1>0, <1>1, Effects DEF Step
  <2> QED
    BY <1>0, <2>1, <2>2 DEF PushSteps, PopReads
<1>2. CASE ~PushCall(t)
  <2>1. aba_counter' = aba_counter
    BY <1>2 DEF Pop, PopCall, PopReadCounter, PopReadPointer, PopEmpty,
         PopReadNextPointer, PopReadNextCounter, PopDcas, PopReturn,
         Push, PushReadPointer, PushReadCounter, PushNextPointer,
         PushNextCounter, PushDcas, PushReturn
  <2>2. CASE PopCall(t) \/ PopReturn(t) \/ PushReturn(t) \/ PopEmpty(t)
    <3>1. pc'[t] \in {"pop_counter", "idle", "popped"}
          /\ local'[t].ctr \in {local[t].ctr, 0}
      BY <1>0, <2>2, Effects DEF Step
    <3> QED
      BY <1>0, <2>1, <3>1 DEF PushSteps, PopReads
  <2>3. CASE PopReadCounter(t)
    <3>1. pc'[t] = "pop_pointer" /\ local'[t].ctr = top.ctr
      BY <1>0, <2>3, Effects DEF Step
    <3> QED
      BY <1>0, <2>1, <3>1 DEF PushSteps, PopReads
  <2>4. CASE PopReadPointer(t) \/ PopReadNextPointer(t) \/ PopReadNextCounter(t)
    <3>1. pc[t] \in PopReads /\ pc'[t] \in PopReads /\ local'[t].ctr = local[t].ctr
      BY <1>0, <2>4, Effects DEF Step, PopReads
    <3> QED
      BY <1>0, <2>1, <3>1 DEF PushSteps, PopReads
  <2>5. CASE PopDcas(t)
    <3>1. pc'[t] \in {"popped", "pop_test"} /\ local'[t] = top
      BY <2>5, Effects DEF Step
    <3> QED
      BY <1>0, <2>1, <3>1 DEF PushSteps, PopReads
  <2>6. CASE PushReadPointer(t) \/ PushReadCounter(t) \/ PushNextPointer(t)
             \/ PushNextCounter(t) \/ PushDcas(t)
    <3>1. pc[t] \in PushSteps /\ pc'[t] \in PushSteps \cup {"pushed"}
          /\ exchange'[t] = exchange[t] /\ local'[t].ctr \in {local[t].ctr, top.ctr}
      BY <1>0, <2>6, Effects DEF Step, PushSteps
    <3> QED
      BY <1>0, <2>1, <3>1 DEF PushSteps, PopReads
  <2> QED
    BY <1>2, <2>2, <2>3, <2>4, <2>5, <2>6 DEF Pop, Push
<1> QED
  BY <1>1, <1>2

\* The other threads' words stay as they are.
LEMMA Others ==
    ASSUME TypesInv, NEW t \in Threads, Pop(t) \/ Push(t),
           NEW u \in Threads \ {t}
    PROVE  pc'[u] = pc[u] /\ local'[u] = local[u] /\ exchange'[u] = exchange[u]
<1>1. Pop(t) => pc'[u] = pc[u] /\ local'[u] = local[u] /\ exchange'[u] = exchange[u]
  BY Effects DEF Pop, Step
<1>2. Push(t) => pc'[u] = pc[u] /\ local'[u] = local[u] /\ exchange'[u] = exchange[u]
  BY Effects DEF Push, Step
<1> QED
  BY <1>1, <1>2

\* The list after a step has no pair that was not in it or that the step pushed.
Grows(S2, S, t) ==
    \A k \in 1..Len(S2) :
        \/ \E j \in 1..Len(S) : S2[k] = S[j]
        \/ pc[t] = "push_dcas" /\ pc'[t] = "pushed" /\ S2[k] = exchange[t]

LEMMA FreshStep ==
    ASSUME NEW S \in Seq(Stamped), NEW S2 \in Seq(Stamped),
           TypesInv, TypesInv', IsList(S, top, next), FreshInv(S),
           NEW t \in Threads, Pop(t) \/ Push(t), Grows(S2, S, t)
    PROVE  FreshInv(S2)'
<1> DEFINE aba == aba_counter
<1>0. /\ top \in Pairs /\ aba \in Nat /\ aba' \in Nat /\ aba <= aba'
      /\ top.ctr \in Nat
      /\ top.ctr = 0 \/ \E j \in 1..Len(S) : top.ctr = S[j].ctr
  <2>1. top \in Pairs
    BY TopOf
  <2>2. aba \in Nat /\ aba' \in Nat /\ aba <= aba'
    BY <2>1, Counters DEF TypesInv
  <2>3. top.ctr = 0 \/ \E j \in 1..Len(S) : top.ctr = S[j].ctr
    BY TopOf
  <2>4. top.ctr \in Nat
    BY <2>1 DEF Pairs
  <2> QED
    BY <2>1, <2>2, <2>3, <2>4
<1>1. \A u \in Threads : /\ exchange[u].ctr \in Nat /\ local[u].ctr \in Nat
                         /\ exchange'[u].ctr \in Nat /\ local'[u].ctr \in Nat
  BY DEF TypesInv, Pairs
<1>2. /\ \A k \in 1..Len(S) : S[k].ctr \in Nat /\ S[k].ctr <= aba
      /\ \A k \in 1..Len(S2) : S2[k].ctr \in Nat
  BY ListOf DEF FreshInv
<1>3. top.ctr <= aba
  BY <1>0, <1>2
<1>4. \A u \in Threads : local[u].ctr <= aba
  BY DEF FreshInv
<1>5. \A u \in Threads : pc[u] \in PushSteps =>
         /\ 0 < exchange[u].ctr /\ exchange[u].ctr <= aba
         /\ \A k \in 1..Len(S) : S[k].ctr # exchange[u].ctr
         /\ top.ctr # exchange[u].ctr
  <2> TAKE u \in Threads
  <2>1. pc[u] \in PushSteps =>
           /\ 0 < exchange[u].ctr /\ exchange[u].ctr <= aba
           /\ \A k \in 1..Len(S) : S[k].ctr # exchange[u].ctr
    BY DEF FreshInv
  <2> QED
    BY <1>0, <1>1, <2>1
<1>6. \A u \in Threads, v \in Threads :
         u # v /\ pc[u] \in PushSteps =>
         /\ pc[v] \in PushSteps => exchange[v].ctr # exchange[u].ctr
         /\ pc[v] \in PopReads => local[v].ctr # exchange[u].ctr
  BY DEF FreshInv
<1>7. \A k \in 1..Len(S2) :
         \/ \E j \in 1..Len(S) : S2[k].ctr = S[j].ctr
         \/ pc[t] \in PushSteps /\ pc'[t] \notin PushSteps /\ S2[k].ctr = exchange[t].ctr
  BY DEF Grows, PushSteps
<1>8. \A u \in Threads \ {t} : /\ pc'[u] = pc[u] /\ local'[u] = local[u]
                               /\ exchange'[u] = exchange[u]
  BY Others
<1>9. \A k \in 1..Len(S2) : S2[k].ctr <= aba'
  <2>1. ASSUME NEW k \in 1..Len(S2) PROVE S2[k].ctr <= aba
    <3>1. CASE \E j \in 1..Len(S) : S2[k].ctr = S[j].ctr
      BY <1>2, <3>1
    <3>2. CASE pc[t] \in PushSteps /\ S2[k].ctr = exchange[t].ctr
      BY <1>5, <3>2
    <3> QED
      BY <1>7, <3>1, <3>2
  <2> QED
    BY <1>0, <1>2, <2>1
<1>10. \A u \in Threads : local'[u].ctr <= aba'
  <2>1. local'[t].ctr <= aba'
    <3>1. local'[t].ctr \in {local[t].ctr, top.ctr, 0}
      BY <1>0, Counters
    <3> QED
      BY <1>0, <1>1, <1>3, <1>4, <3>1
  <2>2. \A u \in Threads \ {t} : local'[u].ctr <= aba'
    BY <1>0, <1>1, <1>4, <1>8
  <2> QED
    BY <2>1, <2>2
<1>11. ASSUME NEW u \in Threads, pc'[u] \in PushSteps
       PROVE  /\ 0 < exchange'[u].ctr /\ exchange'[u].ctr <= aba'
              /\ \A k \in 1..Len(S2) : S2[k].ctr # exchange'[u].ctr
  <2>1. CASE pc[u] \in PushSteps /\ exchange'[u] = exchange[u]
    <3>1. 0 < exchange'[u].ctr /\ exchange'[u].ctr <= aba'
      BY <1>0, <1>1, <1>5, <2>1
    <3>2. \A k \in 1..Len(S2) : S2[k].ctr # exchange'[u].ctr
      BY <1>5, <1>6, <1>7, <1>11, <2>1
    <3> QED
      BY <3>1, <3>2
  <2>2. CASE u = t /\ exchange'[u].ctr = aba + 1 /\ aba' = aba + 1
    <3>1. \A k \in 1..Len(S2) : S2[k].ctr <= aba
      BY <1>2, <1>5, <1>7
    <3> QED
      BY <1>0, <1>2, <2>2, <3>1
  <2> QED
    BY <1>8, <1>11, <2>1, <2>2, Counters, <1>0
<1>12. ASSUME NEW u \in Threads, NEW v \in Threads, u # v, pc'[u] \in PushSteps
       PROVE  /\ pc'[v] \in PushSteps => exchange'[v].ctr # exchange'[u].ctr
              /\ pc'[v] \in PopReads => local'[v].ctr # exchange'[u].ctr
  <2>1. CASE u # t /\ v # t
    BY <1>6, <1>8, <1>12, <2>1
  <2>2. CASE u = t
    <3>1. pc'[v] = pc[v] /\ exchange'[v] = exchange[v] /\ local'[v] = local[v]
      BY <1>8, <1>12, <2>2
    <3>2. CASE pc[t] \in PushSteps /\ exchange'[t] = exchange[t]
      BY <1>6, <1>12, <2>2, <3>1, <3>2
    <3>3. CASE exchange'[t].ctr = aba + 1
      BY <1>0, <1>1, <1>4, <1>5, <1>12, <2>2, <3>1, <3>3
    <3> QED
      BY <1>0, <1>12, <2>2, <3>2, <3>3, Counters
  <2>3. CASE v = t
    <3>1. pc[u] \in PushSteps /\ exchange'[u] = exchange[u]
      BY <1>8, <1>12, <2>3
    <3>2. pc'[t] \in PushSteps => exchange'[t].ctr # exchange[u].ctr
      <4>1. CASE pc[t] \in PushSteps /\ exchange'[t] = exchange[t]
        BY <1>6, <1>12, <2>3, <3>1, <4>1
      <4>2. CASE exchange'[t].ctr = aba + 1
        BY <1>0, <1>1, <1>5, <3>1, <4>2
      <4> QED
        BY <1>0, <4>1, <4>2, Counters
    <3>3. pc'[t] \in PopReads => local'[t].ctr # exchange[u].ctr
      <4>1. CASE pc[t] \in PopReads /\ local'[t].ctr = local[t].ctr
        BY <1>6, <1>12, <2>3, <3>1, <4>1
      <4>2. CASE local'[t].ctr = top.ctr
        BY <1>5, <3>1, <4>2
      <4> QED
        BY <1>0, <4>1, <4>2, Counters
    <3> QED
      BY <2>3, <3>1, <3>2, <3>3
  <2> QED
    BY <2>1, <2>2, <2>3
<1>13. \A u \in Threads : pc'[u] \in PushSteps =>
          /\ 0 < exchange'[u].ctr /\ exchange'[u].ctr <= aba'
          /\ \A k \in 1..Len(S2) : S2[k].ctr # exchange'[u].ctr
          /\ \A v \in Threads \ {u} :
                /\ pc'[v] \in PushSteps => exchange'[v].ctr # exchange'[u].ctr
                /\ pc'[v] \in PopReads => local'[v].ctr # exchange'[u].ctr
  <2> TAKE u \in Threads
  <2> HAVE pc'[u] \in PushSteps
  <2>1. /\ 0 < exchange'[u].ctr /\ exchange'[u].ctr <= aba'
        /\ \A k \in 1..Len(S2) : S2[k].ctr # exchange'[u].ctr
    BY <1>11
  <2>2. \A v \in Threads \ {u} :
           /\ pc'[v] \in PushSteps => exchange'[v].ctr # exchange'[u].ctr
           /\ pc'[v] \in PopReads => local'[v].ctr # exchange'[u].ctr
    BY <1>12
  <2> QED
    BY <2>1, <2>2
<1> QED
  BY <1>9, <1>10, <1>13, Zenon DEF FreshInv
-----------------------------------------------------------------------------
(* What a pop has read *)

\* The links of listed elements stay as they are.
LEMMA ListedLinks ==
    ASSUME NEW S, TypesInv, PlaceInv(S), NEW t \in Threads, Pop(t) \/ Push(t),
           NEW e \in Elements, Listed(S, e)
    PROVE  next'[e] = next[e]
<1>1. CASE PushNextPointer(t) \/ PushNextCounter(t)
  <2>1. pc[t] \in PushSteps
    BY <1>1 DEF PushNextPointer, PushNextCounter, Goto, PushSteps
  <2>2. exchange[t].ptr # e
    BY <2>1 DEF PlaceInv, Holds
  <2> QED
    BY <1>1, <2>2, Links
<1>2. CASE ~(PushNextPointer(t) \/ PushNextCounter(t))
  BY <1>2, Links DEF Push
<1> QED
  BY <1>1, <1>2

LEMMA PopInvStep ==
    ASSUME NEW S \in Seq(Stamped), NEW S2 \in Seq(Stamped),
           TypesInv, FreshInv(S), PopInv(S), PlaceInv(S),
           NEW t \in Threads, Pop(t) \/ Push(t), Grows(S2, S, t)
    PROVE  PopInv(S2)'
<1>1. SUFFICES ASSUME NEW u \in Threads, NEW k \in 1..Len(S2),
                      S2[k] = local'[u], pc'[u] \in PopLinks
               PROVE  /\ exchange'[u].ptr = next'[local'[u].ptr].ptr
                      /\ pc'[u] = "pop_dcas" =>
                           exchange'[u].ctr = next'[local'[u].ptr].ctr
  BY DEF PopInv, PopLinks
<1>2. CASE u # t
  <2>1. pc'[u] = pc[u] /\ local'[u] = local[u] /\ exchange'[u] = exchange[u]
    BY <1>2, Others
  <2>2. pc[u] \in PopLinks /\ pc[u] \in PopReads
    BY <1>1, <2>1 DEF PopLinks, PopReads
  <2>3. pc[t] = "push_dcas" => S2[k] # exchange[t]
    BY <1>1, <1>2, <2>1, <2>2 DEF FreshInv, PushSteps
  <2>4. PICK j \in 1..Len(S) : S[j] = local[u]
    BY <1>1, <2>1, <2>3 DEF Grows
  <2>5. next'[local[u].ptr] = next[local[u].ptr]
    BY <2>2, <2>4, ListedLinks DEF TypesInv, Listed
  <2> QED
    BY <2>1, <2>2, <2>4, <2>5 DEF PopInv
<1>3. CASE u = t
  <2>0. /\ \A p, c : Pair(p, c).ctr = c /\ Pair(p, c).ptr = p
    BY DEF Pair
  <2>1. PopReadNextPointer(t) \/ PopReadNextCounter(t)
    BY <1>1, <1>3, Effects DEF Pop, Push, Step, PopLinks
  <2>2. next' = next
    BY <2>1, Links DEF Pop
  <2>3. CASE PopReadNextPointer(t)
    BY <1>3, <2>0, <2>2, <2>3, Effects DEF Step
  <2>4. CASE PopReadNextCounter(t)
    <3>1. /\ pc[t] = "pop_next_counter" /\ local'[t] = local[t]
          /\ exchange'[t].ptr = exchange[t].ptr
          /\ exchange'[t].ctr = next[local[t].ptr].ctr
      BY <2>0, <2>4, Effects DEF Step
    <3>2. PICK j \in 1..Len(S) : S[j] = local[t]
      BY <1>1, <1>3, <3>1 DEF Grows
    <3>3. exchange[t].ptr = next[local[t].ptr].ptr
      BY <3>1, <3>2 DEF PopInv, PopLinks
    <3> QED
      BY <1>3, <2>2, <3>1, <3>3
  <2> QED
    BY <2>1, <2>3, <2>4
<1> QED
  BY <1>2, <1>3
-----------------------------------------------------------------------------
(* The list, step by step: a pop takes its first pair, a push puts one before  *)
(* it, and nothing else disturbs it.                                           *)

Popped(t) == PopDcas(t) /\ top = local[t]
Pushed(t) == PushDcas(t) /\ top = local[t]

LEMMA TailOf ==
    ASSUME NEW S \in Seq(Stamped), Len(S) # 0
    PROVE  /\ Tail(S) \in Seq(Stamped)
           /\ Len(Tail(S)) = Len(S) - 1 /\ Len(S) \in Nat
           /\ \A k \in 1..Len(S) - 1 : Tail(S)[k] = S[k + 1]
<1>1. S # <<>>
  OBVIOUS
<1> QED
  BY <1>1, HeadTailProperties

LEMMA ConsOf ==
    ASSUME NEW S \in Seq(Stamped), NEW p \in Stamped
    PROVE  /\ <<p>> \o S \in Seq(Stamped)
           /\ Len(<<p>> \o S) = Len(S) + 1 /\ Len(S) \in Nat
           /\ (<<p>> \o S)[1] = p
           /\ \A k \in 1..Len(S) : (<<p>> \o S)[k + 1] = S[k]
  BY ConcatProperties

LEMMA HoldsOthers ==
    ASSUME TypesInv, NEW t \in Threads, Pop(t) \/ Push(t),
           NEW u \in Threads \ {t}, NEW e
    PROVE  Holds(u, e)' <=> Holds(u, e)
  BY Others DEF Holds

\* Who has an element is changed by the two DCAS that succeed, by returning
\* from a pop and by calling push.
LEMMA HoldsQuiet ==
    ASSUME TypesInv, NEW t \in Threads, Pop(t) \/ Push(t),
           ~Popped(t), ~Pushed(t), ~PopReturn(t), ~PushCall(t),
           NEW e \in Elements
    PROVE  (Holds(t, e)' <=> Holds(t, e)) /\ taken' = taken
<1>0. NULL \notin Elements
  BY LfdsFreelistAssumption DEF NULL, Elements
<1>1. CASE PopEmpty(t)
  <2>1. pc[t] = "pop_test" /\ local[t].ptr = NULL
        /\ pc'[t] = "popped" /\ local'[t] = local[t] /\ taken' = taken
    BY <1>1, Effects DEF Step, PopEmpty
  <2> QED
    BY <1>0, <2>1 DEF Holds, PushSteps
<1>2. CASE PopCall(t) \/ PopReadCounter(t) \/ PopReadPointer(t)
           \/ PopReadNextPointer(t) \/ PopReadNextCounter(t) \/ PopDcas(t)
           \/ PushReturn(t)
  <2>1. /\ pc[t] \notin PushSteps /\ pc[t] # "popped"
        /\ pc'[t] \notin PushSteps /\ pc'[t] # "popped"
    BY <1>2, Effects DEF Step, PushSteps, Popped
  <2>2. taken' = taken
    BY <1>2 DEF PopCall, PopReadCounter, PopReadPointer, PopReadNextPointer,
                PopReadNextCounter, PopDcas, PushReturn
  <2> QED
    BY <2>1, <2>2 DEF Holds
<1>3. CASE PushReadPointer(t) \/ PushReadCounter(t) \/ PushNextPointer(t)
           \/ PushNextCounter(t) \/ PushDcas(t)
  <2>1. /\ pc[t] \in PushSteps /\ pc'[t] \in PushSteps
        /\ exchange'[t] = exchange[t] /\ pc[t] # "popped" /\ pc'[t] # "popped"
    BY <1>3, Effects DEF Step, PushSteps, Pushed
  <2>2. taken' = taken
    BY <1>3 DEF PushReadPointer, PushReadCounter, PushNextPointer,
                PushNextCounter, PushDcas
  <2> QED
    BY <2>1, <2>2 DEF Holds
<1> QED
  BY <1>1, <1>2, <1>3 DEF Pop, Push

LEMMA PlaceQuiet ==
    ASSUME NEW S, TypesInv, PlaceInv(S), NEW t \in Threads, Pop(t) \/ Push(t),
           ~Popped(t), ~Pushed(t)
    PROVE  PlaceInv(S)'
<1> DEFINE Place(e) ==
      /\ Listed(S, e) \/ e \in taken \/ \E u \in Threads : Holds(u, e)
      /\ Listed(S, e) => e \notin taken
      /\ \A u \in Threads : Holds(u, e) =>
            /\ e \notin taken
            /\ ~Listed(S, e)
            /\ \A v \in Threads : Holds(v, e) => v = u
<1>1. SUFFICES ASSUME NEW e \in Elements PROVE Place(e)'
  BY DEF PlaceInv
<1>2. Place(e)
  BY DEF PlaceInv
<1>3. \A u \in Threads \ {t} : Holds(u, e)' <=> Holds(u, e)
  BY HoldsOthers
<1>4. Listed(S, e)' <=> Listed(S, e)
  BY DEF Listed
<1>5. CASE PopReturn(t)
  <2>1. /\ pc[t] = "popped" /\ pc'[t] = "idle"
        /\ taken' = taken \cup ({local[t].ptr} \ {NULL})
    BY <1>5, Effects DEF Step, PopReturn
  <2>2. /\ Holds(t, e) <=> local[t].ptr = e
        /\ ~Holds(t, e)'
    BY <2>1 DEF Holds, PushSteps
  <2>3. e # NULL
    BY LfdsFreelistAssumption DEF NULL, Elements
  <2>4. CASE local[t].ptr = e
    BY <1>2, <1>3, <1>4, <2>1, <2>2, <2>3, <2>4
  <2>5. CASE local[t].ptr # e
    BY <1>2, <1>3, <1>4, <2>1, <2>2, <2>3, <2>5
  <2> QED
    BY <2>4, <2>5
<1>6. CASE PushCall(t)
  <2>1. PICK x \in taken : /\ Step(t, "idle", "push_pointer", local[t],
                                   Pair(x, aba_counter + 1))
                           /\ taken' = taken \ {x}
    BY <1>6, Effects
  <2>2. /\ ~Holds(t, e)
        /\ Holds(t, e)' <=> x = e
    BY <2>1 DEF Step, Holds, PushSteps, Pair
  <2>3. CASE x = e
    BY <1>2, <1>3, <1>4, <2>1, <2>2, <2>3
  <2>4. CASE x # e
    BY <1>2, <1>3, <1>4, <2>1, <2>2, <2>4
  <2> QED
    BY <2>3, <2>4
<1>7. CASE ~PopReturn(t) /\ ~PushCall(t)
  <2>1. (Holds(t, e)' <=> Holds(t, e)) /\ taken' = taken
    BY <1>7, HoldsQuiet
  <2> QED
    BY <1>2, <1>3, <1>4, <2>1
<1> QED
  BY <1>5, <1>6, <1>7

\* A step that neither pops nor pushes leaves the list alone.
LEMMA QuietStep ==
    ASSUME NEW S \in Seq(Stamped), TypesInv, TypesInv', ListInv(S),
           NEW t \in Threads, Pop(t) \/ Push(t), ~Popped(t), ~Pushed(t)
    PROVE  ListInv(S)'
<1>1. top' = top
  BY DEF Popped, Pushed, Dcas, Pop, PopCall, PopReadCounter, PopReadPointer,
         PopEmpty, PopReadNextPointer, PopReadNextCounter, PopDcas, PopReturn,
         Push, PushCall, PushReadPointer, PushReadCounter, PushNextPointer,
         PushNextCounter, PushDcas, PushReturn
<1>2. \A k \in 1..Len(S) : next'[S[k].ptr] = next[S[k].ptr]
  BY ListOf, ListedLinks DEF ListInv, Listed
<1>3. IsList(S, top, next)'
  BY <1>1, <1>2 DEF ListInv, IsList
<1>4. Grows(S, S, t)
  BY DEF Grows
<1> QED
  BY <1>3, <1>4, FreshStep, PopInvStep, PlaceQuiet DEF ListInv

\* A pop whose DCAS succeeds has read the link of the element it takes: what it
\* stores is the list's second pair.
LEMMA PoppedStep ==
    ASSUME NEW S \in Seq(Stamped), TypesInv, TypesInv', ListInv(S),
           NEW t \in Threads, Popped(t)
    PROVE  /\ Len(S) # 0 /\ S[1] = local[t] /\ local'[t] = local[t]
           /\ Tail(S) \in Seq(Stamped)
           /\ ListInv(Tail(S))'
<1>0. /\ Pop(t)
      /\ pc[t] = "pop_dcas" /\ pc'[t] = "popped"
      /\ local[t] = top /\ local'[t] = top /\ exchange'[t] = exchange[t]
      /\ top' = exchange[t] /\ next' = next /\ taken' = taken
  BY Effects DEF Popped, Pop, PopDcas, Step, Dcas
<1>1. local[t].ptr \in Elements
  BY <1>0 DEF TypesInv, PopLinks
<1>2. IsList(S, top, next) /\ FreshInv(S) /\ PopInv(S) /\ PlaceInv(S)
  BY DEF ListInv
<1>3. Len(S) # 0 /\ 1 \in 1..Len(S) /\ top = S[1]
  <2>1. NULL \notin Elements
    BY LfdsFreelistAssumption DEF NULL, Elements
  <2> QED
    BY <1>0, <1>1, <1>2, <2>1, TopOf
<1> DEFINE T == Tail(S)
<1>4. /\ T \in Seq(Stamped) /\ Len(T) = Len(S) - 1 /\ Len(S) \in Nat
      /\ \A k \in 1..Len(S) - 1 : T[k] = S[k + 1]
  BY <1>3, TailOf
<1> HIDE DEF T
<1>5. exchange[t] = next[local[t].ptr]
  <2>1. exchange[t].ptr = next[local[t].ptr].ptr
        /\ exchange[t].ctr = next[local[t].ptr].ctr
    BY <1>0, <1>2, <1>3 DEF PopInv, PopLinks
  <2>2. exchange[t] \in Pairs /\ next[local[t].ptr] \in Pairs
    BY <1>1 DEF TypesInv
  <2> QED
    BY <2>1, <2>2 DEF Pairs
<1>6. next[S[1].ptr] = IF 1 = Len(S) THEN NoPair ELSE S[2]
  <2>1. \A k \in 1..Len(S) :
           next[S[k].ptr] = IF k = Len(S) THEN NoPair ELSE S[k + 1]
    BY <1>2 DEF IsList
  <2>2. next[S[1].ptr] = IF 1 = Len(S) THEN NoPair ELSE S[1 + 1]
    BY <1>3, <2>1
  <2>3. 1 + 1 = 2
    OBVIOUS
  <2> QED
    BY <2>2, <2>3
<1>7. top' = IF T = <<>> THEN NoPair ELSE T[1]
  <2>1. CASE Len(S) = 1
    <3>1. Len(T) = 0
      BY <1>4, <2>1
    <3>2. T = <<>>
      BY <1>4, <3>1, EmptySeq
    <3> QED
      BY <1>0, <1>3, <1>5, <1>6, <2>1, <3>2
  <2>2. CASE Len(S) # 1
    <3>1. Len(T) # 0 /\ 1 \in 1..Len(S) - 1
      BY <1>3, <1>4, <2>2
    <3>2. T # <<>>
      BY <3>1
    <3>3. T[1] = S[2]
      BY <1>4, <3>1
    <3> QED
      BY <1>0, <1>3, <1>5, <1>6, <2>2, <3>2, <3>3
  <2> QED
    BY <2>1, <2>2
<1>8. \A j, k \in 1..Len(T) : T[j].ptr = T[k].ptr => j = k
  <2> TAKE j, k \in 1..Len(T)
  <2>1. /\ j \in 1..Len(S) - 1 /\ k \in 1..Len(S) - 1
        /\ j + 1 \in 1..Len(S) /\ k + 1 \in 1..Len(S)
    BY <1>4
  <2>2. T[j] = S[j + 1] /\ T[k] = S[k + 1]
    BY <1>4, <2>1
  <2>3. S[j + 1].ptr = S[k + 1].ptr => j + 1 = k + 1
    BY <1>2, <2>1 DEF IsList
  <2> QED
    BY <2>1, <2>2, <2>3
<1>9. \A k \in 1..Len(T) :
         next'[T[k].ptr] = IF k = Len(T) THEN NoPair ELSE T[k + 1]
  <2> TAKE k \in 1..Len(T)
  <2>1. k \in 1..Len(S) - 1 /\ k + 1 \in 1..Len(S)
    BY <1>4
  <2>2. next[S[k + 1].ptr] = IF k + 1 = Len(S) THEN NoPair ELSE S[k + 1 + 1]
    BY <1>2, <2>1 DEF IsList
  <2>3. T[k] = S[k + 1]
    BY <1>4, <2>1
  <2>4. CASE k = Len(T)
    BY <1>0, <1>4, <2>1, <2>2, <2>3, <2>4
  <2>5. CASE k # Len(T)
    <3>1. k + 1 \in 1..Len(S) - 1 /\ k + 1 # Len(S)
      BY <1>4, <2>1, <2>5
    <3>2. T[k + 1] = S[k + 1 + 1]
      BY <1>4, <3>1
    <3> QED
      BY <1>0, <2>2, <2>3, <2>5, <3>1, <3>2
  <2> QED
    BY <2>4, <2>5
<1>10. IsList(T, top, next)'
  BY <1>7, <1>8, <1>9 DEF IsList
<1>11. Grows(T, S, t)
  <2>1. \A k \in 1..Len(T) : k + 1 \in 1..Len(S) /\ T[k] = S[k + 1]
    BY <1>4
  <2> QED
    BY <2>1 DEF Grows
<1>12. ASSUME NEW e \in Elements
       PROVE  /\ Listed(S, e) <=> Listed(T, e) \/ e = local[t].ptr
              /\ ~Listed(T, local[t].ptr)
  <2>1. \A k \in 1..Len(T) : k + 1 \in 1..Len(S) /\ T[k] = S[k + 1]
                             /\ k + 1 # 1
    BY <1>4
  <2>2. \A k \in 1..Len(S) : k # 1 => k - 1 \in 1..Len(T) /\ T[k - 1] = S[k]
    BY <1>4
  <2>3. ~Listed(T, local[t].ptr)
    BY <1>0, <1>2, <1>3, <2>1 DEF Listed, IsList
  <2>4. Listed(S, e) => Listed(T, e) \/ e = local[t].ptr
    BY <1>0, <1>3, <2>2 DEF Listed
  <2>5. Listed(T, e) \/ e = local[t].ptr => Listed(S, e)
    BY <1>0, <1>3, <2>1 DEF Listed
  <2> QED
    BY <2>3, <2>4, <2>5
<1>13. PlaceInv(T)'
  <2> DEFINE Place(L, e) ==
        /\ Listed(L, e) \/ e \in taken \/ \E u \in Threads : Holds(u, e)
        /\ Listed(L, e) => e \notin taken
        /\ \A u \in Threads : Holds(u, e) =>
              /\ e \notin taken
              /\ ~Listed(L, e)
              /\ \A v \in Threads : Holds(v, e) => v = u
  <2>1. SUFFICES ASSUME NEW e \in Elements PROVE Place(T, e)'
    BY DEF PlaceInv
  <2>2. Place(S, e)
    BY <1>2 DEF PlaceInv
  <2>3. \A u \in Threads \ {t} : Holds(u, e)' <=> Holds(u, e)
    BY <1>0, HoldsOthers
  <2>4. Listed(T, e)' <=> Listed(T, e)
    BY DEF Listed
  <2>5. ~Holds(t, e) /\ (Holds(t, e)' <=> local[t].ptr = e)
    BY <1>0 DEF Holds, PushSteps
  <2>6. CASE local[t].ptr = e
    BY <1>0, <1>12, <2>2, <2>3, <2>4, <2>5, <2>6
  <2>7. CASE local[t].ptr # e
    BY <1>0, <1>12, <2>2, <2>3, <2>4, <2>5, <2>7
  <2> QED
    BY <2>6, <2>7
<1>14. FreshInv(T)' /\ PopInv(T)'
  BY <1>0, <1>2, <1>4, <1>11, FreshStep, PopInvStep
<1>15. ListInv(T)'
  BY <1>10, <1>13, <1>14 DEF ListInv
<1> QED
  BY <1>0, <1>3, <1>4, <1>15 DEF T

\* A push whose DCAS succeeds has linked its element to the top it replaces.
LEMMA PushedStep ==
    ASSUME NEW S \in Seq(Stamped), TypesInv, TypesInv', PushInv, ListInv(S),
           NEW t \in Threads, Pushed(t),
           NEW S2, S2 = <<exchange[t]>> \o S
    PROVE  S2 \in Seq(Stamped) /\ ListInv(S2)'
<1>0. /\ Push(t)
      /\ pc[t] = "push_dcas" /\ pc'[t] = "pushed"
      /\ local[t] = top /\ local'[t] = top /\ exchange'[t] = exchange[t]
      /\ top' = exchange[t] /\ next' = next /\ taken' = taken
  BY Effects DEF Pushed, Push, PushDcas, Step, Dcas
<1>1. exchange[t].ptr \in Elements /\ exchange[t] \in Stamped
  <2>1. exchange[t].ptr \in Elements /\ exchange[t] \in Pairs
    BY <1>0 DEF TypesInv, PushSteps
  <2> QED
    BY <2>1 DEF Pairs, Stamped
<1>2. IsList(S, top, next) /\ FreshInv(S) /\ PopInv(S) /\ PlaceInv(S)
  BY DEF ListInv
<1>3. /\ S2 \in Seq(Stamped) /\ Len(S2) = Len(S) + 1 /\ Len(S) \in Nat
      /\ S2[1] = exchange[t]
      /\ \A k \in 1..Len(S) : S2[k + 1] = S[k]
  BY <1>1, ConsOf
<1>4. /\ \A k \in 1..Len(S) : k + 1 \in 1..Len(S2)
      /\ \A k \in 1..Len(S2) : k = 1 \/ (k - 1 \in 1..Len(S) /\ S2[k] = S[k - 1])
  <2>1. \A k \in 1..Len(S2) : k # 1 => k - 1 \in 1..Len(S) /\ k = (k - 1) + 1
    BY <1>3
  <2>2. \A k \in 1..Len(S) : k + 1 \in 1..Len(S2)
    BY <1>3
  <2> QED
    BY <1>3, <2>1, <2>2
<1>5. ~Listed(S, exchange[t].ptr)
  BY <1>0, <1>1, <1>2 DEF PlaceInv, Holds, PushSteps
<1>6. next[exchange[t].ptr] = top
  <2>1. /\ next[exchange[t].ptr].ptr = top.ptr
        /\ next[exchange[t].ptr].ctr = top.ctr
    BY <1>0 DEF PushInv
  <2>2. top \in Pairs /\ next[exchange[t].ptr] \in Pairs
    BY <1>1, <1>2, TopOf DEF TypesInv
  <2> QED
    BY <2>1, <2>2 DEF Pairs
<1>7. top' = IF S2 = <<>> THEN NoPair ELSE S2[1]
  <2>1. Len(S2) # 0
    BY <1>3
  <2>2. S2 # <<>>
    BY <2>1
  <2> QED
    BY <1>0, <1>3, <2>2
<1>8. \A j, k \in 1..Len(S2) : S2[j].ptr = S2[k].ptr => j = k
  <2> TAKE j, k \in 1..Len(S2)
  <2>1. CASE j = 1 \/ k = 1
    BY <1>3, <1>4, <1>5, <2>1 DEF Listed
  <2>2. CASE j # 1 /\ k # 1
    <3>1. S[j - 1].ptr = S[k - 1].ptr => j - 1 = k - 1
      BY <1>2, <1>4, <2>2 DEF IsList
    <3>2. j \in Int /\ k \in Int
      OBVIOUS
    <3> QED
      BY <1>4, <2>2, <3>1, <3>2
  <2> QED
    BY <2>1, <2>2
<1>9. \A k \in 1..Len(S2) :
         next'[S2[k].ptr] = IF k = Len(S2) THEN NoPair ELSE S2[k + 1]
  <2> TAKE k \in 1..Len(S2)
  <2>1. CASE k = 1 /\ S = <<>>
    <3>1. Len(S2) = 1
      BY <1>3, <2>1
    <3>2. top = NoPair
      BY <1>2, <2>1 DEF IsList
    <3> QED
      BY <1>0, <1>3, <1>6, <2>1, <3>1, <3>2
  <2>2. CASE k = 1 /\ S # <<>>
    <3>1. Len(S) # 0
      BY <2>2, EmptySeq
    <3>2. 1 \in 1..Len(S) /\ k # Len(S2)
      BY <1>3, <2>2, <3>1
    <3>3. top = S[1] /\ S2[k + 1] = S[1]
      BY <1>2, <1>3, <2>2, <3>2 DEF IsList
    <3> QED
      BY <1>0, <1>3, <1>6, <2>2, <3>2, <3>3
  <2>3. CASE k # 1
    <3>1. k - 1 \in 1..Len(S) /\ S2[k] = S[k - 1]
      BY <1>4, <2>3
    <3>2. next[S[k - 1].ptr] = IF k - 1 = Len(S) THEN NoPair ELSE S[k - 1 + 1]
      BY <1>2, <3>1 DEF IsList
    <3>3. k = Len(S2) <=> k - 1 = Len(S)
      BY <1>3
    <3>4. k # Len(S2) => k \in 1..Len(S) /\ k - 1 + 1 = k
      BY <1>3
    <3>5. k # Len(S2) => S2[k + 1] = S[k - 1 + 1]
      BY <1>3, <3>4
    <3> QED
      BY <1>0, <3>1, <3>2, <3>3, <3>5
  <2> QED
    BY <2>1, <2>2, <2>3
<1>10. IsList(S2, top, next)'
  BY <1>7, <1>8, <1>9 DEF IsList
<1>11. Grows(S2, S, t)
  BY <1>0, <1>3, <1>4 DEF Grows
<1>12. ASSUME NEW e \in Elements
       PROVE  Listed(S2, e) <=> Listed(S, e) \/ e = exchange[t].ptr
  <2>1. Listed(S2, e) => Listed(S, e) \/ e = exchange[t].ptr
    BY <1>3, <1>4 DEF Listed
  <2>2. Listed(S, e) => Listed(S2, e)
    BY <1>3, <1>4 DEF Listed
  <2>3. e = exchange[t].ptr => Listed(S2, e)
    <3>1. 1 \in 1..Len(S2)
      BY <1>3
    <3> QED
      BY <1>3, <3>1 DEF Listed
  <2> QED
    BY <2>1, <2>2, <2>3
<1>13. PlaceInv(S2)'
  <2> DEFINE Place(L, e) ==
        /\ Listed(L, e) \/ e \in taken \/ \E u \in Threads : Holds(u, e)
        /\ Listed(L, e) => e \notin taken
        /\ \A u \in Threads : Holds(u, e) =>
              /\ e \notin taken
              /\ ~Listed(L, e)
              /\ \A v \in Threads : Holds(v, e) => v = u
  <2>1. SUFFICES ASSUME NEW e \in Elements PROVE Place(S2, e)'
    BY DEF PlaceInv
  <2>2. Place(S, e)
    BY <1>2 DEF PlaceInv
  <2>3. \A u \in Threads \ {t} : Holds(u, e)' <=> Holds(u, e)
    BY <1>0, HoldsOthers
  <2>4. Listed(S2, e)' <=> Listed(S2, e)
    BY DEF Listed
  <2>5. ~Holds(t, e)' /\ (Holds(t, e) <=> exchange[t].ptr = e)
    BY <1>0 DEF Holds, PushSteps
  <2>6. CASE exchange[t].ptr = e
    BY <1>0, <1>12, <2>2, <2>3, <2>4, <2>5, <2>6
  <2>7. CASE exchange[t].ptr # e
    BY <1>0, <1>12, <2>2, <2>3, <2>4, <2>5, <2>7
  <2> QED
    BY <2>6, <2>7
<1>14. FreshInv(S2)' /\ PopInv(S2)'
  BY <1>0, <1>2, <1>3, <1>11, FreshStep, PopInvStep
<1> QED
  BY <1>3, <1>10, <1>13, <1>14 DEF ListInv
-----------------------------------------------------------------------------
(* The invariant *)

\* The list that freelist_new builds
InitialList == [k \in Elements |-> Pair(NumElements + 1 - k, NumElements + 1 - k)]

LEMMA InitialListOf ==
    ASSUME Init
    PROVE  /\ InitialList \in Seq(Stamped) /\ Len(InitialList) = NumElements
           /\ ListInv(InitialList)
<1> DEFINE N == NumElements
           S == InitialList
<1>0. N \in Nat /\ N # 0 /\ Elements = 1..N
  BY LfdsFreelistAssumption DEF Elements
<1>1. /\ \A k \in 1..N : S[k] = Pair(N + 1 - k, N + 1 - k)
      /\ \A p, c : Pair(p, c).ptr = p /\ Pair(p, c).ctr = c
  BY <1>0 DEF InitialList, Pair
<1>2. \A k \in 1..N : S[k] \in Stamped /\ S[k].ptr = N + 1 - k /\ S[k].ctr = N + 1 - k
  <2> TAKE k \in 1..N
  <2>1. N + 1 - k \in Elements /\ N + 1 - k \in Nat
    BY <1>0
  <2>2. Pair(N + 1 - k, N + 1 - k) \in Stamped
    BY <2>1 DEF Pair, Stamped
  <2> QED
    BY <1>1, <2>2
<1>3. S \in Seq(Stamped) /\ Len(S) = N
  <2>1. S = [k \in 1..N |-> S[k]]
    BY <1>0 DEF InitialList
  <2> HIDE DEF S
  <2>2. S \in [1..N -> Stamped]
    BY <1>2, <2>1
  <2> QED
    BY <1>0, <2>2
<1>4. S # <<>> /\ 1 \in 1..N
  <2>1. Len(S) # 0
    BY <1>0, <1>3
  <2> QED
    BY <1>0, <2>1
<1> HIDE DEF S
<1>5. IsList(S, top, next)
  <2>1. \A j, k \in 1..Len(S) : S[j].ptr = S[k].ptr => j = k
    <3> TAKE j, k \in 1..Len(S)
    <3>1. j \in 1..N /\ k \in 1..N
      BY <1>3
    <3>2. S[j].ptr = N + 1 - j /\ S[k].ptr = N + 1 - k
      BY <1>2, <3>1
    <3> QED
      BY <1>0, <3>1, <3>2
  <2>2. top = S[1]
    <3>1. S[1] = Pair(N + 1 - 1, N + 1 - 1)
      BY <1>1, <1>4 DEF S
    <3>2. N + 1 - 1 = N
      BY <1>0
    <3> QED
      BY <3>1, <3>2 DEF Init
  <2>3. \A k \in 1..Len(S) :
           next[S[k].ptr] = IF k = Len(S) THEN NoPair ELSE S[k + 1]
    <3> TAKE k \in 1..Len(S)
    <3>1. k \in 1..N /\ N + 1 - k \in Elements
      BY <1>0, <1>3
    <3>2. next[S[k].ptr] = Pair(N + 1 - k - 1, N + 1 - k - 1)
      <4>1. \A e \in Elements : next[e] = Pair(e - 1, e - 1)
        BY DEF Init
      <4>2. PICK e \in Elements : e = N + 1 - k
        BY <3>1
      <4>3. next[e] = Pair(e - 1, e - 1)
        BY <4>1
      <4>4. S[k].ptr = e
        BY <1>2, <3>1, <4>2
      <4>5. e - 1 = N + 1 - k - 1
        BY <1>0, <3>1, <4>2
      <4> QED
        BY <4>3, <4>4, <4>5
    <3>3. CASE k = N
      <4>1. N + 1 - k - 1 = 0
        BY <1>0, <3>3
      <4> QED
        BY <1>3, <3>2, <3>3, <4>1 DEF NoPair, NULL
    <3>4. CASE k # N
      <4>1. k + 1 \in 1..N /\ N + 1 - (k + 1) = N + 1 - k - 1
        BY <1>0, <3>1, <3>4
      <4>2. S[k + 1] = Pair(N + 1 - (k + 1), N + 1 - (k + 1))
        BY <1>1, <4>1 DEF S
      <4> QED
        BY <1>3, <3>2, <3>4, <4>1, <4>2
    <3> QED
      BY <3>3, <3>4
  <2> QED
    BY <1>4, <2>1, <2>2, <2>3 DEF IsList
<1>6. FreshInv(S)
  <2>1. \A k \in 1..Len(S) : S[k].ctr <= aba_counter
    <3> TAKE k \in 1..Len(S)
    <3>1. k \in 1..N /\ S[k].ctr = N + 1 - k
      BY <1>2, <1>3
    <3> QED
      BY <1>0, <3>1 DEF Init
  <2>2. \A u \in Threads : local[u].ctr <= aba_counter
    BY <1>0, <1>1 DEF Init, NoPair
  <2>3. \A u \in Threads : pc[u] \notin PushSteps
    BY DEF Init, PushSteps
  <2> QED
    BY <2>1, <2>2, <2>3 DEF FreshInv
<1>7. PopInv(S)
  BY DEF PopInv, Init, PopLinks
<1>8. PlaceInv(S)
  <2>1. \A u \in Threads, e \in Elements : ~Holds(u, e)
    BY DEF Init, Holds, PushSteps
  <2>2. ASSUME NEW e \in Elements PROVE Listed(S, e)
    <3>1. N + 1 - e \in 1..N /\ N + 1 - (N + 1 - e) = e
      BY <1>0
    <3>2. S[N + 1 - e].ptr = e
      BY <1>2, <3>1
    <3> QED
      BY <1>3, <3>1, <3>2 DEF Listed
  <2>3. taken = {}
    BY DEF Init
  <2> QED
    BY <2>1, <2>2, <2>3 DEF PlaceInv
<1> QED
  BY <1>3, <1>5, <1>6, <1>7, <1>8 DEF ListInv, S

LEMMA InitInv ==
    Init => IInv
<1> HAVE Init
<1>1. TypesInv
  <2>1. NumElements \in Nat /\ NoPair \in Pairs
    BY LfdsFreelistAssumption DEF NoPair, Pair, Pairs, NULL
  <2>2. \A e \in Elements : Pair(e - 1, e - 1) \in Pairs
    BY LfdsFreelistAssumption DEF Pair, Pairs, Elements, NULL
  <2> QED
    BY <2>1, <2>2 DEF Init, TypesInv, PushSteps, PopLinks
<1>2. PushInv
  BY DEF Init, PushInv
<1> QED
  BY <1>1, <1>2, InitialListOf DEF IInv

LEMMA NextInv ==
    IInv /\ [Next]_vars => IInv'
<1> SUFFICES ASSUME IInv, [Next]_vars PROVE IInv'
  OBVIOUS
<1>1. CASE UNCHANGED vars
  <2>0. UNCHANGED <<top, next, aba_counter, taken, local, exchange, pc>>
    BY <1>1 DEF vars
  <2>1. PICK S \in Seq(Stamped) : ListInv(S)
    BY DEF IInv
  <2>2. TypesInv' /\ PushInv'
    BY <2>0 DEF IInv, TypesInv, PushInv
  <2>3. IsList(S, top, next)' /\ FreshInv(S)' /\ PopInv(S)'
    BY <2>0, <2>1 DEF ListInv, IsList, FreshInv, PopInv
  <2>4. PlaceInv(S)'
    <3>1. \A u \in Threads, e \in Elements : Holds(u, e)' <=> Holds(u, e)
      BY <2>0 DEF Holds
    <3>2. \A e \in Elements : Listed(S, e)' <=> Listed(S, e)
      BY DEF Listed
    <3> QED
      BY <2>0, <2>1, <3>1, <3>2 DEF ListInv, PlaceInv
  <2> QED
    BY <2>2, <2>3, <2>4 DEF IInv, ListInv
<1>2. ASSUME NEW t \in Threads, Pop(t) \/ Push(t) PROVE IInv'
  <2>1. PICK S \in Seq(Stamped) : ListInv(S)
    BY DEF IInv
  <2>2. TypesInv /\ PushInv
    BY DEF IInv
  <2>3. IsList(S, top, next) /\ PlaceInv(S)
    BY <2>1 DEF ListInv
  <2>4. TypesInv'
    BY <1>2, <2>2, <2>3, TopOf, TypesStep
  <2>5. PushInv'
    BY <1>2, <2>2, <2>3, PushInvStep
  <2>6. \E L \in Seq(Stamped) : ListInv(L)'
    <3>1. CASE Popped(t)
      BY <2>1, <2>2, <2>4, <3>1, PoppedStep
    <3>2. CASE Pushed(t)
      <4>1. PICK S2 : S2 = <<exchange[t]>> \o S
        OBVIOUS
      <4> QED
        BY <2>1, <2>2, <2>4, <3>2, <4>1, PushedStep
    <3>3. CASE ~Popped(t) /\ ~Pushed(t)
      BY <1>2, <2>1, <2>2, <2>4, <3>3, QuietStep
    <3> QED
      BY <3>1, <3>2, <3>3
  <2> QED
    BY <2>4, <2>5, <2>6 DEF IInv
<1> QED
  BY <1>1, <1>2 DEF Next

\* The inductive invariant holds for any number of threads and elements.
THEOREM Invariance == Spec => []IInv
<1> QED
  BY InitInv, NextInv, PTL DEF Spec
-----------------------------------------------------------------------------
(* Each element is in one place *)

LEMMA StackIs ==
    ASSUME NEW S \in Seq(Stamped), IsList(S, top, next)
    PROVE  Stack = Pointers(S)
  BY ChainIsList DEF Stack

LEMMA AtMostOne ==
    ASSUME NEW X, \A x, y \in X : x = y
    PROVE  Cardinality(X) = IF X = {} THEN 0 ELSE 1
<1>1. CASE X = {}
  BY <1>1, FS_EmptySet
<1>2. CASE X # {}
  <2>1. PICK x : x \in X
    BY <1>2
  <2>2. X = {x}
    BY <2>1
  <2>3. Cardinality({x}) = 1
    BY FS_Singleton
  <2> QED
    BY <1>2, <2>2, <2>3
<1> QED
  BY <1>1, <1>2

LEMMA InvOnePlace ==
    IInv => OnePlace
<1> SUFFICES ASSUME IInv, NEW e \in Elements
             PROVE  Cardinality({k \in DOMAIN Stack : Stack[k] = e})
                    + Cardinality({t \in Threads : pc[t] = "popped"
                                                   /\ local[t].ptr = e})
                    + Cardinality({t \in Threads : pc[t] \in PushSteps
                                                   /\ exchange[t].ptr = e})
                    + Cardinality({x \in taken : x = e}) = 1
  BY DEF OnePlace
<1>1. PICK S \in Seq(Stamped) : ListInv(S)
  BY DEF IInv
<1>2. IsList(S, top, next) /\ PlaceInv(S)
  BY <1>1 DEF ListInv
<1>3. Stack = Pointers(S)
  BY <1>2, StackIs
<1> DEFINE A == {k \in DOMAIN Stack : Stack[k] = e}
           B == {t \in Threads : pc[t] = "popped" /\ local[t].ptr = e}
           C == {t \in Threads : pc[t] \in PushSteps /\ exchange[t].ptr = e}
           D == {x \in taken : x = e}
<1>4. A = {k \in 1..Len(S) : S[k].ptr = e}
  BY <1>3 DEF Pointers
<1>5. Cardinality(A) = IF Listed(S, e) THEN 1 ELSE 0
  <2>1. \A j, k \in A : j = k
    BY <1>2, <1>4 DEF IsList
  <2>2. A = {} <=> ~Listed(S, e)
    BY <1>4 DEF Listed
  <2> HIDE DEF A
  <2> QED
    BY <2>1, <2>2, AtMostOne
<1>6. \A t \in Threads : Holds(t, e) <=> t \in B \/ t \in C
  BY DEF Holds
<1>7. B \cap C = {}
  BY DEF PushSteps
<1>8. /\ Listed(S, e) \/ e \in taken \/ \E t \in Threads : Holds(t, e)
      /\ Listed(S, e) => e \notin taken
      /\ \A t \in Threads : Holds(t, e) =>
            /\ e \notin taken
            /\ ~Listed(S, e)
            /\ \A u \in Threads : Holds(u, e) => u = t
  BY <1>2 DEF PlaceInv
<1>9. Cardinality(D) = IF e \in taken THEN 1 ELSE 0
  <2>1. (\A x, y \in D : x = y) /\ (D = {} <=> e \notin taken)
    OBVIOUS
  <2> HIDE DEF D
  <2> QED
    BY <2>1, AtMostOne
<1>10. B \subseteq Threads /\ C \subseteq Threads
  OBVIOUS
<1> HIDE DEF A, B, C, D
<1>11. Cardinality(B) = IF B = {} THEN 0 ELSE 1
  BY <1>6, <1>8, <1>10, AtMostOne
<1>12. Cardinality(C) = IF C = {} THEN 0 ELSE 1
  BY <1>6, <1>8, <1>10, AtMostOne
<1>13. CASE Listed(S, e)
  <2>1. B = {} /\ C = {} /\ e \notin taken
    BY <1>6, <1>8, <1>10, <1>13
  <2> QED
    BY <1>5, <1>9, <1>11, <1>12, <1>13, <2>1 DEF A, B, C, D
<1>14. CASE e \in taken
  <2>1. B = {} /\ C = {} /\ ~Listed(S, e)
    BY <1>6, <1>8, <1>10, <1>14
  <2> QED
    BY <1>5, <1>9, <1>11, <1>12, <1>14, <2>1 DEF A, B, C, D
<1>15. CASE \E t \in Threads : Holds(t, e)
  <2>1. PICK t \in Threads : Holds(t, e)
    BY <1>15
  <2>2. e \notin taken /\ ~Listed(S, e)
    BY <1>8, <2>1
  <2>3. \/ B # {} /\ C = {}
        \/ B = {} /\ C # {}
    BY <1>6, <1>7, <1>8, <1>10, <2>1
  <2> QED
    BY <1>5, <1>9, <1>11, <1>12, <2>2, <2>3 DEF A, B, C, D
<1> QED
  BY <1>8, <1>13, <1>14, <1>15

(***************************************************************************)
(* For any number of threads and elements, an element of the freelist is   *)
(* linked from top exactly once, or one thread of freelist_pop or          *)
(* freelist_push has it, or it is in use: none is lost or given out twice. *)
(***************************************************************************)
THEOREM FreelistOnePlace == Spec => []OnePlace
<1> QED
  BY Invariance, InvOnePlace, PTL
-----------------------------------------------------------------------------
(* LfdsFreelist implements AbstractFreelist *)

\* The abstract call of a thread, from its own words
CallAt(at, loc, exch) ==
    CASE at = "idle" -> [at |-> "idle"]
      [] at = "popped" \/ (at = "pop_test" /\ loc.ptr = NULL)
            -> [at |-> "popped", elem |-> loc.ptr]
      [] at = "pushed" -> [at |-> "pushed"]
      [] at \in PushSteps -> [at |-> "pushing", elem |-> exch.ptr]
      [] OTHER -> [at |-> "popping"]

LEMMA CallValues ==
    ASSUME NEW at, NEW loc, NEW exch
    PROVE  /\ at = "idle" => CallAt(at, loc, exch) = [at |-> "idle"]
           /\ at = "popped" =>
                CallAt(at, loc, exch) = [at |-> "popped", elem |-> loc.ptr]
           /\ at = "pop_test" /\ loc.ptr = NULL =>
                CallAt(at, loc, exch) = [at |-> "popped", elem |-> loc.ptr]
           /\ at = "pop_test" /\ loc.ptr # NULL =>
                CallAt(at, loc, exch) = [at |-> "popping"]
           /\ at \in {"pop_counter", "pop_pointer", "pop_next_counter",
                      "pop_dcas"} => CallAt(at, loc, exch) = [at |-> "popping"]
           /\ at = "pushed" => CallAt(at, loc, exch) = [at |-> "pushed"]
           /\ at \in PushSteps =>
                CallAt(at, loc, exch) = [at |-> "pushing", elem |-> exch.ptr]
  BY DEF CallAt, PushSteps

\* A step of thread t moves its own abstract call and no other's.
LEMMA CallMoves ==
    ASSUME NEW t \in Threads, NEW from, NEW to, NEW loc, NEW exch,
           Step(t, from, to, loc, exch),
           NEW before, before = CallAt(from, local[t], exchange[t]),
           NEW after, after = CallAt(to, loc, exch)
    PROVE  /\ Abstract!Become(t, before, after)
           /\ before = after => UNCHANGED [u \in Threads |-> CallOf(u)]
<1>1. CallOf(t) = before /\ CallOf(t)' = after
  BY DEF CallOf, CallAt, Step
<1>2. \A u \in Threads \ {t} : CallOf(u)' = CallOf(u)
  BY DEF CallOf, Step
<1> HIDE DEF CallOf
<1>3. [u \in Threads |-> CallOf(u)]' = [[u \in Threads |-> CallOf(u)] EXCEPT ![t] = after]
  BY <1>1, <1>2
<1>4. before = after => UNCHANGED [u \in Threads |-> CallOf(u)]
  BY <1>1, <1>2
<1> QED
  BY <1>1, <1>3, <1>4 DEF Abstract!Become

\* The stack before and after a step
LEMMA StackMoves ==
    ASSUME NEW S \in Seq(Stamped), TypesInv, TypesInv', PushInv, ListInv(S),
           NEW t \in Threads, Pop(t) \/ Push(t)
    PROVE  /\ ~Popped(t) /\ ~Pushed(t) => Stack' = Stack
           /\ Popped(t) => /\ Stack # <<>> /\ Head(Stack) = local[t].ptr
                           /\ Stack' = Tail(Stack)
           /\ Pushed(t) => Stack' = <<exchange[t].ptr>> \o Stack
           /\ top.ptr = NULL => Stack = <<>>
<1>0. IsList(S, top, next) /\ Len(S) \in Nat
  BY ListOf DEF ListInv
<1>1. Stack = Pointers(S)
  BY <1>0, StackIs
<1>2. ASSUME NEW L \in Seq(Stamped), ListInv(L)' PROVE Stack' = Pointers(L)
  <2>1. IsList(L, top', next')
    BY <1>2 DEF ListInv
  <2> QED
    BY <2>1, ChainIsList DEF Stack
<1>3. ASSUME NEW L \in Seq(Stamped)
      PROVE  /\ Pointers(L) \in Seq(Elements) /\ Len(Pointers(L)) = Len(L)
             /\ \A k \in 1..Len(L) : Pointers(L)[k] = L[k].ptr
             /\ Len(L) \in Nat
  BY <1>3, ListOf DEF Pointers
<1>4. ASSUME ~Popped(t), ~Pushed(t) PROVE Stack' = Stack
  BY <1>1, <1>2, <1>4, QuietStep
<1>5. ASSUME Popped(t)
      PROVE  Stack # <<>> /\ Head(Stack) = local[t].ptr /\ Stack' = Tail(Stack)
  <2> DEFINE P == Pointers(S)
             Q == Pointers(Tail(S))
  <2>1. /\ Len(S) # 0 /\ S[1] = local[t] /\ Tail(S) \in Seq(Stamped)
        /\ ListInv(Tail(S))'
    BY <1>5, PoppedStep
  <2>2. Stack' = Q
    BY <1>2, <2>1
  <2>3. /\ P \in Seq(Elements) /\ Len(P) = Len(S)
        /\ \A k \in 1..Len(S) : P[k] = S[k].ptr
    BY <1>3
  <2>4. /\ Q \in Seq(Elements) /\ Len(Q) = Len(Tail(S))
        /\ \A k \in 1..Len(Tail(S)) : Q[k] = Tail(S)[k].ptr
    BY <1>3, <2>1
  <2>5. /\ Len(Tail(S)) = Len(S) - 1
        /\ \A k \in 1..Len(S) - 1 : Tail(S)[k] = S[k + 1]
    BY <2>1, TailOf
  <2> HIDE DEF P, Q
  <2>6. Len(P) # 0 /\ 1 \in 1..Len(S)
    BY <1>0, <2>1, <2>3
  <2>7. P # <<>>
    BY <2>6
  <2>8. /\ Head(P) = P[1] /\ Tail(P) \in Seq(Elements)
        /\ Len(Tail(P)) = Len(P) - 1
        /\ \A k \in 1..Len(Tail(P)) : Tail(P)[k] = P[k + 1]
    BY <2>3, <2>7, HeadTailProperties
  <2>9. P[1] = local[t].ptr
    BY <2>1, <2>3, <2>6
  <2>10. Q = Tail(P)
    <3>1. Len(Q) = Len(Tail(P)) /\ Len(Q) = Len(S) - 1
      BY <2>3, <2>4, <2>5, <2>8
    <3>2. \A k \in 1..Len(Q) : Q[k] = Tail(P)[k]
      <4> TAKE k \in 1..Len(Q)
      <4>1. k \in 1..Len(S) - 1 /\ k + 1 \in 1..Len(S)
        BY <1>0, <3>1
      <4>2. Q[k] = S[k + 1].ptr
        BY <2>4, <2>5, <4>1
      <4>3. Tail(P)[k] = P[k + 1]
        BY <2>8, <3>1
      <4>4. P[k + 1] = S[k + 1].ptr
        BY <2>3, <4>1
      <4> QED
        BY <4>2, <4>3, <4>4
    <3> QED
      BY <2>4, <2>8, <3>1, <3>2, SeqEqual
  <2> QED
    BY <1>1, <2>2, <2>7, <2>8, <2>9, <2>10 DEF P
<1>6. ASSUME Pushed(t) PROVE Stack' = <<exchange[t].ptr>> \o Stack
  <2>1. PICK S2 : S2 = <<exchange[t]>> \o S
    OBVIOUS
  <2>2. S2 \in Seq(Stamped) /\ ListInv(S2)'
    BY <1>6, <2>1, PushedStep
  <2>3. exchange[t] \in Stamped /\ exchange[t].ptr \in Elements
    <3>1. exchange[t].ptr \in Elements /\ exchange[t] \in Pairs
      BY <1>6 DEF Pushed, PushDcas, Goto, TypesInv, PushSteps
    <3> QED
      BY <3>1 DEF Pairs, Stamped
  <2>4. /\ Len(S2) = Len(S) + 1 /\ S2[1] = exchange[t]
        /\ \A k \in 1..Len(S) : S2[k + 1] = S[k]
    BY <2>1, <2>3, ConsOf
  <2> DEFINE P == Pointers(S)
             Q == Pointers(S2)
             x == exchange[t].ptr
  <2>5. Stack' = Q
    BY <1>2, <2>2
  <2>6. /\ P \in Seq(Elements) /\ Len(P) = Len(S)
        /\ \A k \in 1..Len(S) : P[k] = S[k].ptr
    BY <1>3
  <2>7. /\ Q \in Seq(Elements) /\ Len(Q) = Len(S2)
        /\ \A k \in 1..Len(S2) : Q[k] = S2[k].ptr
    BY <1>3, <2>2
  <2>8. x = S2[1].ptr /\ x \in Elements
    BY <2>3, <2>4
  <2> HIDE DEF P, Q, x
  <2>9. /\ <<x>> \o P \in Seq(Elements) /\ Len(<<x>> \o P) = Len(P) + 1
        /\ (<<x>> \o P)[1] = x
        /\ \A k \in 1..Len(P) : (<<x>> \o P)[k + 1] = P[k]
    BY <2>6, <2>8, ConcatProperties
  <2>10. Q = <<x>> \o P
    <3>1. Len(Q) = Len(<<x>> \o P) /\ Len(Q) = Len(S) + 1
      BY <2>4, <2>6, <2>7, <2>9
    <3>2. \A k \in 1..Len(Q) : Q[k] = (<<x>> \o P)[k]
      <4> TAKE k \in 1..Len(Q)
      <4>1. CASE k = 1
        <5>1. 1 \in 1..Len(S2)
          BY <1>0, <2>4
        <5>2. Q[1] = x
          BY <2>7, <2>8, <5>1
        <5> QED
          BY <2>9, <4>1, <5>2
      <4>2. CASE k # 1
        <5>1. PICK j \in 1..Len(S) : k = j + 1
          <6>1. k - 1 \in 1..Len(S) /\ k = (k - 1) + 1
            BY <1>0, <3>1, <4>2
          <6> QED
            BY <6>1
        <5>2. Q[k] = S[j].ptr
          BY <2>4, <2>7, <5>1
        <5>3. (<<x>> \o P)[k] = P[j]
          BY <2>6, <2>9, <5>1
        <5> QED
          BY <2>6, <5>1, <5>2, <5>3
      <4> QED
        BY <4>1, <4>2
    <3> QED
      BY <2>7, <2>9, <3>1, <3>2, SeqEqual
  <2> QED
    BY <1>1, <2>5, <2>10 DEF P, x
<1>7. ASSUME top.ptr = NULL PROVE Stack = <<>>
  <2>1. Len(S) = 0
    BY <1>0, <1>7, TopOf
  <2>2. Pointers(S) \in Seq(Elements) /\ Len(Pointers(S)) = 0
    BY <1>3, <2>1
  <2> QED
    BY <1>1, <2>2, EmptySeq
<1> QED
  BY <1>4, <1>5, <1>6, <1>7

\* Every step of a thread is a step of the stack, or none.
LEMMA ThreadSimulates ==
    ASSUME IInv, IInv', NEW t \in Threads, Pop(t) \/ Push(t)
    PROVE  Abstract!Next \/ UNCHANGED Abstract!vars
<1> DEFINE Idle == [at |-> "idle"]
           Popping == [at |-> "popping"]
           PoppedIs(e) == [at |-> "popped", elem |-> e]
           Pushing(e) == [at |-> "pushing", elem |-> e]
           PushedIs == [at |-> "pushed"]
           Become(before, after) ==
              /\ Abstract!Become(t, before, after)
              /\ before = after => UNCHANGED [u \in Threads |-> CallOf(u)]
<1>1. PICK S \in Seq(Stamped) : ListInv(S)
  BY DEF IInv
<1>2. TypesInv /\ TypesInv' /\ PushInv
  BY DEF IInv
<1>3. /\ ~Popped(t) /\ ~Pushed(t) => Stack' = Stack
      /\ Popped(t) => /\ Stack # <<>> /\ Head(Stack) = local[t].ptr
                      /\ Stack' = Tail(Stack)
      /\ Pushed(t) => Stack' = <<exchange[t].ptr>> \o Stack
      /\ top.ptr = NULL => Stack = <<>>
  BY <1>1, <1>2, StackMoves
<1>4. \A p, c : Pair(p, c).ptr = p
  BY DEF Pair
<1>5. /\ PopDcas(t) => pc[t] = "pop_dcas"
      /\ PushDcas(t) => pc[t] = "push_dcas"
  BY DEF PopDcas, PushDcas, Goto
<1>a. ASSUME Stack' = Stack, NEW call, Become(call, call)
      PROVE  UNCHANGED Abstract!vars
  BY <1>a DEF Abstract!vars
<1>b. ASSUME Stack = <<>>, Stack' = Stack, Become(Popping, PoppedIs(NULL))
      PROVE  Abstract!Next
  <2>1. Abstract!PopEmpty(t)
    BY <1>b DEF Abstract!PopEmpty, Abstract!Popping, Abstract!Popped
  <2> QED
    BY <2>1 DEF Abstract!Next
<1>c. ASSUME Stack' = Stack, Become(Idle, Popping)
      PROVE  Abstract!Next
  <2>1. Abstract!Invoke(t)
    BY <1>c DEF Abstract!Invoke, Abstract!Idle, Abstract!Popping
  <2> QED
    BY <2>1 DEF Abstract!Next
<1>d. ASSUME Stack' = Stack, NEW e \in Elements \cup {NULL},
             Become(PoppedIs(e), Idle)
      PROVE  Abstract!Next
  <2>1. Abstract!Return(t)
    BY <1>d DEF Abstract!Return, Abstract!Idle, Abstract!Popped
  <2> QED
    BY <2>1 DEF Abstract!Next
<1>e. ASSUME Stack' = Stack, NEW e \in Elements, Become(Idle, Pushing(e))
      PROVE  Abstract!Next
  <2>1. Abstract!Invoke(t)
    BY <1>e DEF Abstract!Invoke, Abstract!Idle, Abstract!Pushing
  <2> QED
    BY <2>1 DEF Abstract!Next
<1>f. ASSUME Stack' = Stack, Become(PushedIs, Idle)
      PROVE  Abstract!Next
  <2>1. Abstract!Return(t)
    BY <1>f DEF Abstract!Return, Abstract!Idle, Abstract!Pushed
  <2> QED
    BY <2>1 DEF Abstract!Next
<1> USE DEF PushSteps
<1>6. ASSUME NEW from, NEW to, NEW loc, NEW exch, Step(t, from, to, loc, exch),
             from # "pop_dcas" /\ from # "push_dcas",
             Pop(t) \/ Push(t)
      PROVE  /\ Stack' = Stack
             /\ Become(CallAt(from, local[t], exchange[t]), CallAt(to, loc, exch))
  <2>1. ~Popped(t) /\ ~Pushed(t)
    BY <1>5, <1>6 DEF Step, Popped, Pushed
  <2>2. Become(CallAt(from, local[t], exchange[t]), CallAt(to, loc, exch))
    BY <1>6, CallMoves
  <2> QED
    BY <1>3, <2>1, <2>2
<1> HIDE DEF Become
<1>11. CASE PopCall(t)
  <2>1. Step(t, "idle", "pop_counter", local[t], exchange[t])
    BY <1>2, <1>11, Effects
  <2>2. /\ CallAt("idle", local[t], exchange[t]) = Idle
        /\ CallAt("pop_counter", local[t], exchange[t]) = Popping
    BY CallValues
  <2> QED
    BY <1>6, <1>c, <2>1, <2>2
<1>12. CASE PopReadCounter(t)
  <2>1. Step(t, "pop_counter", "pop_pointer", Pair(local[t].ptr, top.ctr),
             exchange[t])
    BY <1>2, <1>12, Effects
  <2>2. /\ CallAt("pop_counter", local[t], exchange[t]) = Popping
        /\ CallAt("pop_pointer", Pair(local[t].ptr, top.ctr), exchange[t])
             = Popping
    BY CallValues
  <2> QED
    BY <1>6, <1>a, <2>1, <2>2
<1>13. CASE PopReadPointer(t)
  <2>1. Step(t, "pop_pointer", "pop_test", Pair(top.ptr, local[t].ctr),
             exchange[t])
    BY <1>2, <1>13, Effects
  <2>2. /\ CallAt("pop_pointer", local[t], exchange[t]) = Popping
        /\ top.ptr = NULL =>
             CallAt("pop_test", Pair(top.ptr, local[t].ctr), exchange[t])
               = PoppedIs(NULL)
        /\ top.ptr # NULL =>
             CallAt("pop_test", Pair(top.ptr, local[t].ctr), exchange[t])
               = Popping
    BY <1>4, CallValues
  <2>3. CASE top.ptr = NULL
    BY <1>3, <1>6, <1>b, <2>1, <2>2, <2>3
  <2>4. CASE top.ptr # NULL
    BY <1>6, <1>a, <2>1, <2>2, <2>4
  <2> QED
    BY <2>3, <2>4
<1>14. CASE PopEmpty(t)
  <2>1. /\ Step(t, "pop_test", "popped", local[t], exchange[t])
        /\ local[t].ptr = NULL
    BY <1>2, <1>14, Effects DEF PopEmpty
  <2>2. /\ CallAt("pop_test", local[t], exchange[t]) = PoppedIs(NULL)
        /\ CallAt("popped", local[t], exchange[t]) = PoppedIs(NULL)
    BY <2>1, CallValues
  <2> QED
    BY <1>6, <1>a, <2>1, <2>2
<1>15. CASE PopReadNextPointer(t)
  <2> DEFINE exch == Pair(next[local[t].ptr].ptr, exchange[t].ctr)
  <2>1. /\ Step(t, "pop_test", "pop_next_counter", local[t], exch)
        /\ local[t].ptr # NULL
    BY <1>2, <1>15, Effects DEF PopReadNextPointer
  <2>2. /\ CallAt("pop_test", local[t], exchange[t]) = Popping
        /\ CallAt("pop_next_counter", local[t], exch) = Popping
    BY <2>1, CallValues
  <2> QED
    BY <1>6, <1>a, <2>1, <2>2
<1>16. CASE PopReadNextCounter(t)
  <2> DEFINE exch == Pair(exchange[t].ptr, next[local[t].ptr].ctr)
  <2>1. Step(t, "pop_next_counter", "pop_dcas", local[t], exch)
    BY <1>2, <1>16, Effects
  <2>2. /\ CallAt("pop_next_counter", local[t], exchange[t]) = Popping
        /\ CallAt("pop_dcas", local[t], exch) = Popping
    BY CallValues
  <2> QED
    BY <1>6, <1>a, <2>1, <2>2
<1>17. CASE PopDcas(t)
  <2>1. CallAt("pop_dcas", local[t], exchange[t]) = Popping
    BY CallValues
  <2>2. CASE top = local[t]
    <3>1. Step(t, "pop_dcas", "popped", top, exchange[t])
      BY <1>2, <1>17, <2>2, Effects
    <3>2. CallAt("popped", top, exchange[t]) = PoppedIs(local[t].ptr)
      BY <2>2, CallValues
    <3>3. Become(Popping, PoppedIs(local[t].ptr))
      BY <2>1, <3>1, <3>2, CallMoves DEF Become
    <3>4. /\ Stack # <<>> /\ Head(Stack) = local[t].ptr
          /\ Stack' = Tail(Stack)
      BY <1>3, <1>17, <2>2 DEF Popped
    <3>5. Abstract!Pop(t)
      BY <3>3, <3>4 DEF Become, Abstract!Pop, Abstract!Popping, Abstract!Popped
    <3> QED
      BY <3>5 DEF Abstract!Next
  <2>3. CASE top # local[t]
    <3>1. Step(t, "pop_dcas", "pop_test", top, exchange[t])
      BY <1>2, <1>17, <2>3, Effects
    <3>2. Stack' = Stack
      <4>1. ~Popped(t) /\ ~Pushed(t)
        BY <2>3 DEF Popped, Pushed
      <4> QED
        BY <1>3, <4>1
    <3>3. /\ top.ptr = NULL => CallAt("pop_test", top, exchange[t]) = PoppedIs(NULL)
          /\ top.ptr # NULL => CallAt("pop_test", top, exchange[t]) = Popping
      BY CallValues
    <3>4. Become(Popping, CallAt("pop_test", top, exchange[t]))
      BY <2>1, <3>1, CallMoves DEF Become
    <3>5. CASE top.ptr = NULL
      BY <1>3, <1>b, <3>2, <3>3, <3>4, <3>5
    <3>6. CASE top.ptr # NULL
      BY <1>a, <3>2, <3>3, <3>4, <3>6
    <3> QED
      BY <3>5, <3>6
  <2> QED
    BY <2>2, <2>3
<1>18. CASE PopReturn(t)
  <2>1. Step(t, "popped", "idle", NoPair, NoPair)
    BY <1>2, <1>18, Effects
  <2>2. /\ CallAt("popped", local[t], exchange[t]) = PoppedIs(local[t].ptr)
        /\ CallAt("idle", NoPair, NoPair) = Idle
    BY CallValues
  <2>3. local[t].ptr \in Elements \cup {NULL}
    BY <1>2 DEF TypesInv, Pairs
  <2> QED
    BY <1>6, <1>d, <2>1, <2>2, <2>3
<1>19. CASE PushCall(t)
  <2>1. PICK e \in taken : Step(t, "idle", "push_pointer", local[t],
                                Pair(e, aba_counter + 1))
    BY <1>2, <1>19, Effects
  <2>2. /\ CallAt("idle", local[t], exchange[t]) = Idle
        /\ CallAt("push_pointer", local[t], Pair(e, aba_counter + 1)) = Pushing(e)
    BY <1>4, CallValues
  <2>3. e \in Elements
    BY <1>2 DEF TypesInv
  <2> QED
    BY <1>6, <1>e, <2>1, <2>2, <2>3
<1>20. CASE PushReadPointer(t)
  <2> DEFINE loc == Pair(top.ptr, local[t].ctr)
  <2>1. Step(t, "push_pointer", "push_counter", loc, exchange[t])
    BY <1>2, <1>20, Effects
  <2>2. /\ CallAt("push_pointer", local[t], exchange[t]) = Pushing(exchange[t].ptr)
        /\ CallAt("push_counter", loc, exchange[t]) = Pushing(exchange[t].ptr)
    BY CallValues
  <2> QED
    BY <1>6, <1>a, <2>1, <2>2
<1>21. CASE PushReadCounter(t)
  <2> DEFINE loc == Pair(local[t].ptr, top.ctr)
  <2>1. Step(t, "push_counter", "push_next_pointer", loc, exchange[t])
    BY <1>2, <1>21, Effects
  <2>2. /\ CallAt("push_counter", local[t], exchange[t]) = Pushing(exchange[t].ptr)
        /\ CallAt("push_next_pointer", loc, exchange[t]) = Pushing(exchange[t].ptr)
    BY CallValues
  <2> QED
    BY <1>6, <1>a, <2>1, <2>2
<1>22. CASE PushNextPointer(t)
  <2>1. Step(t, "push_next_pointer", "push_next_counter", local[t], exchange[t])
    BY <1>2, <1>22, Effects
  <2>2. /\ CallAt("push_next_pointer", local[t], exchange[t])
             = Pushing(exchange[t].ptr)
        /\ CallAt("push_next_counter", local[t], exchange[t])
             = Pushing(exchange[t].ptr)
    BY CallValues
  <2> QED
    BY <1>6, <1>a, <2>1, <2>2
<1>23. CASE PushNextCounter(t)
  <2>1. Step(t, "push_next_counter", "push_dcas", local[t], exchange[t])
    BY <1>2, <1>23, Effects
  <2>2. /\ CallAt("push_next_counter", local[t], exchange[t])
             = Pushing(exchange[t].ptr)
        /\ CallAt("push_dcas", local[t], exchange[t]) = Pushing(exchange[t].ptr)
    BY CallValues
  <2> QED
    BY <1>6, <1>a, <2>1, <2>2
<1>24. CASE PushDcas(t)
  <2>1. CallAt("push_dcas", local[t], exchange[t]) = Pushing(exchange[t].ptr)
    BY CallValues
  <2>2. CASE top = local[t]
    <3>1. Step(t, "push_dcas", "pushed", top, exchange[t])
      BY <1>2, <1>24, <2>2, Effects
    <3>2. CallAt("pushed", top, exchange[t]) = PushedIs
      BY CallValues
    <3>3. Become(Pushing(exchange[t].ptr), PushedIs)
      BY <2>1, <3>1, <3>2, CallMoves DEF Become
    <3>4. Stack' = <<exchange[t].ptr>> \o Stack
      BY <1>3, <1>24, <2>2 DEF Pushed
    <3>5. exchange[t].ptr \in Elements
      BY <1>2, <1>5, <1>24 DEF TypesInv
    <3>6. Abstract!Push(t)
      BY <3>3, <3>4, <3>5 DEF Become, Abstract!Push, Abstract!Pushing,
                              Abstract!Pushed
    <3> QED
      BY <3>6 DEF Abstract!Next
  <2>3. CASE top # local[t]
    <3>1. Step(t, "push_dcas", "push_next_pointer", top, exchange[t])
      BY <1>2, <1>24, <2>3, Effects
    <3>2. Stack' = Stack
      <4>1. ~Popped(t) /\ ~Pushed(t)
        BY <2>3 DEF Popped, Pushed
      <4> QED
        BY <1>3, <4>1
    <3>3. CallAt("push_next_pointer", top, exchange[t]) = Pushing(exchange[t].ptr)
      BY CallValues
    <3>4. Become(Pushing(exchange[t].ptr), Pushing(exchange[t].ptr))
      BY <2>1, <3>1, <3>3, CallMoves DEF Become
    <3> QED
      BY <1>a, <3>2, <3>4
  <2> QED
    BY <2>2, <2>3
<1>25. CASE PushReturn(t)
  <2>1. Step(t, "pushed", "idle", NoPair, NoPair)
    BY <1>2, <1>25, Effects
  <2>2. /\ CallAt("pushed", local[t], exchange[t]) = PushedIs
        /\ CallAt("idle", NoPair, NoPair) = Idle
    BY CallValues
  <2> QED
    BY <1>6, <1>f, <2>1, <2>2
<1> QED
  BY <1>11, <1>12, <1>13, <1>14, <1>15, <1>16, <1>17, <1>18, <1>19, <1>20,
     <1>21, <1>22, <1>23, <1>24, <1>25 DEF Pop, Push

LEMMA InitSimulates ==
    Init => Abstract!Init
<1> HAVE Init
<1>1. Stack = Pointers(InitialList)
  BY InitialListOf, StackIs DEF ListInv
<1>2. Pointers(InitialList) = [k \in Elements |-> NumElements + 1 - k]
  <2>1. 1..Len(InitialList) = Elements
    BY InitialListOf DEF Elements
  <2>2. \A k \in Elements : InitialList[k].ptr = NumElements + 1 - k
    BY DEF InitialList, Pair
  <2> QED
    BY <2>1, <2>2 DEF Pointers
<1>3. [t \in Threads |-> CallOf(t)] = [t \in Threads |-> [at |-> "idle"]]
  <2>1. \A t \in Threads : pc[t] = "idle"
    BY DEF Init
  <2>2. \A t \in Threads : CallOf(t) = [at |-> "idle"]
    <3> TAKE t \in Threads
    <3>1. CallOf(t) = CallAt(pc[t], local[t], exchange[t])
      BY DEF CallOf, CallAt
    <3> QED
      BY <2>1, <3>1, CallValues
  <2> QED
    BY <2>2
<1> QED
  BY <1>1, <1>2, <1>3 DEF Abstract!Init, Abstract!Idle

(***************************************************************************)
(* For any number of threads and elements, freelist_pop and freelist_push  *)
(* implement a stack with atomic calls: although a pop reads pointer,      *)
(* counter and link in four steps while elements come and go, its DCAS     *)
(* succeeds only on the element it has read, and with its present link.    *)
(***************************************************************************)
THEOREM FreelistImplementsStack == Spec => ImplementsFreelist
<1>1. IInv /\ IInv' /\ [Next]_vars => [Abstract!Next]_(Abstract!vars)
  <2> SUFFICES ASSUME IInv, IInv', [Next]_vars
               PROVE  Abstract!Next \/ UNCHANGED Abstract!vars
    OBVIOUS
  <2>1. CASE UNCHANGED vars
    <3>1. UNCHANGED <<top, next, local, exchange, pc>>
      BY <2>1 DEF vars
    <3>2. Stack' = Stack
      BY <3>1 DEF Stack
    <3>3. \A t \in Threads : CallOf(t)' = CallOf(t)
      BY <3>1 DEF CallOf
    <3> QED
      BY <3>2, <3>3 DEF Abstract!vars
  <2>2. CASE Next
    BY <2>2, ThreadSimulates DEF Next
  <2> QED
    BY <2>1, <2>2
<1> QED
  BY <1>1, InitSimulates, Invariance, PTL DEF Spec, ImplementsFreelist,
     Abstract!Spec
=============================================================================
