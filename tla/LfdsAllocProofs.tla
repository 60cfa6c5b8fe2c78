--------------------------- MODULE LfdsAllocProofs ---------------------------
(***************************************************************************)
(* Proofs about LfdsAlloc: the memory of an lfds queue, for every number   *)
(* of elements and whichever allocations fail.                             *)
(***************************************************************************)
EXTENDS LfdsAlloc, SequenceTheorems, TLAPS

USE AllocAssumption

-----------------------------------------------------------------------------
(* Sequences without duplicates.                                           *)

LEMMA Nothing == ToSet(<<>>) = {} /\ IsInjective(<<>>)
<1>1. \A e : e \notin ToSet(<<>>)
  BY DEF ToSet
<1>2. IsInjective(<<>>)
  BY DEF IsInjective
<1> QED
  BY <1>1, <1>2

(* freelist_push.                                                          *)
LEMMA Pushed ==
  ASSUME NEW s \in Seq(Element), NEW e \in Element
  PROVE  /\ <<e>> \o s \in Seq(Element)
         /\ Len(<<e>> \o s) = Len(s) + 1
         /\ ToSet(<<e>> \o s) = {e} \cup ToSet(s)
         /\ IsInjective(s) /\ e \notin ToSet(s) => IsInjective(<<e>> \o s)
<1> DEFINE t == <<e>> \o s
<1>1. /\ t \in Seq(Element) /\ Len(t) = Len(s) + 1 /\ Len(s) \in Nat
      /\ DOMAIN t = 1 .. Len(s) + 1 /\ DOMAIN s = 1 .. Len(s)
      /\ \A k \in 1 .. Len(s) + 1 : t[k] = IF k = 1 THEN e ELSE s[k - 1]
  OBVIOUS
<1> HIDE DEF t
<1>2. ToSet(t) = {e} \cup ToSet(s)
  <2>1. ASSUME NEW a \in ToSet(t) PROVE a \in {e} \cup ToSet(s)
    <3>1. PICK k \in 1 .. Len(s) + 1 : a = t[k]
      BY <1>1 DEF ToSet
    <3>2. CASE k = 1
      BY <1>1, <3>1, <3>2
    <3>3. CASE k # 1
      <4>1. k - 1 \in DOMAIN s /\ a = s[k - 1]
        BY <1>1, <3>1, <3>3
      <4> QED
        BY <4>1 DEF ToSet
    <3> QED
      BY <3>2, <3>3
  <2>2. e \in ToSet(t)
    <3>1. 1 \in DOMAIN t /\ t[1] = e
      BY <1>1
    <3> QED
      BY <3>1 DEF ToSet
  <2>3. ASSUME NEW a \in ToSet(s) PROVE a \in ToSet(t)
    <3>1. PICK k \in 1 .. Len(s) : a = s[k]
      BY <1>1 DEF ToSet
    <3>2. k + 1 \in DOMAIN t /\ t[k + 1] = a
      BY <1>1, <3>1
    <3> QED
      BY <3>2 DEF ToSet
  <2> QED
    BY <2>1, <2>2, <2>3
<1>3. ASSUME IsInjective(s), e \notin ToSet(s) PROVE IsInjective(t)
  <2> SUFFICES ASSUME NEW k \in 1 .. Len(s) + 1, NEW l \in 1 .. Len(s) + 1, t[k] = t[l]
               PROVE  k = l
    BY <1>1 DEF IsInjective
  <2>1. \A j \in 1 .. Len(s) : s[j] # e
    BY <1>1, <1>3 DEF ToSet
  <2>2. CASE k = 1 \/ l = 1
    BY <1>1, <2>1, <2>2
  <2>3. CASE k # 1 /\ l # 1
    <3>1. /\ k - 1 \in 1 .. Len(s) /\ l - 1 \in 1 .. Len(s)
          /\ s[k - 1] = s[l - 1]
      BY <1>1, <2>3
    <3>2. k - 1 = l - 1
      BY <1>1, <1>3, <3>1 DEF IsInjective
    <3> QED
      BY <3>2
  <2> QED
    BY <2>2, <2>3
<1> QED
  BY <1>1, <1>2, <1>3 DEF t

(* queue_internal_queue.                                                   *)
LEMMA Queued ==
  ASSUME NEW s \in Seq(Element), NEW e \in Element
  PROVE  /\ Append(s, e) \in Seq(Element)
         /\ Len(Append(s, e)) = Len(s) + 1
         /\ ToSet(Append(s, e)) = {e} \cup ToSet(s)
         /\ IsInjective(s) /\ e \notin ToSet(s) => IsInjective(Append(s, e))
<1> DEFINE t == Append(s, e)
<1>1. /\ t \in Seq(Element) /\ Len(t) = Len(s) + 1 /\ Len(s) \in Nat
      /\ DOMAIN t = 1 .. Len(s) + 1 /\ DOMAIN s = 1 .. Len(s)
      /\ \A k \in 1 .. Len(s) : t[k] = s[k]
      /\ t[Len(s) + 1] = e
  OBVIOUS
<1> HIDE DEF t
<1>2. ToSet(t) = {e} \cup ToSet(s)
  <2>1. ASSUME NEW a \in ToSet(t) PROVE a \in {e} \cup ToSet(s)
    <3>1. PICK k \in 1 .. Len(s) + 1 : a = t[k]
      BY <1>1 DEF ToSet
    <3>2. CASE k = Len(s) + 1
      BY <1>1, <3>1, <3>2
    <3>3. CASE k # Len(s) + 1
      <4>1. k \in DOMAIN s /\ a = s[k]
        BY <1>1, <3>1, <3>3
      <4> QED
        BY <4>1 DEF ToSet
    <3> QED
      BY <3>2, <3>3
  <2>2. e \in ToSet(t)
    <3>1. Len(s) + 1 \in DOMAIN t /\ t[Len(s) + 1] = e
      BY <1>1
    <3> QED
      BY <3>1 DEF ToSet
  <2>3. ASSUME NEW a \in ToSet(s) PROVE a \in ToSet(t)
    <3>1. PICK k \in 1 .. Len(s) : a = s[k]
      BY <1>1 DEF ToSet
    <3>2. k \in DOMAIN t /\ t[k] = a
      BY <1>1, <3>1
    <3> QED
      BY <3>2 DEF ToSet
  <2> QED
    BY <2>1, <2>2, <2>3
<1>3. ASSUME IsInjective(s), e \notin ToSet(s) PROVE IsInjective(t)
  <2> SUFFICES ASSUME NEW k \in 1 .. Len(s) + 1, NEW l \in 1 .. Len(s) + 1, t[k] = t[l]
               PROVE  k = l
    BY <1>1 DEF IsInjective
  <2>1. \A j \in 1 .. Len(s) : s[j] # e
    BY <1>1, <1>3 DEF ToSet
  <2>2. CASE k = Len(s) + 1 \/ l = Len(s) + 1
    BY <1>1, <2>1, <2>2
  <2>3. CASE k # Len(s) + 1 /\ l # Len(s) + 1
    <3>1. k \in DOMAIN s /\ l \in DOMAIN s /\ s[k] = s[l]
      BY <1>1, <2>3
    <3> QED
      BY <1>3, <3>1 DEF IsInjective
  <2> QED
    BY <2>2, <2>3
<1> QED
  BY <1>1, <1>2, <1>3 DEF t

(* What is left when the first is taken.                                   *)
LEMMA Popped ==
  ASSUME NEW s \in Seq(Element), s # <<>>
  PROVE  /\ Head(s) \in Element /\ Tail(s) \in Seq(Element)
         /\ Len(Tail(s)) = Len(s) - 1
         /\ ToSet(s) = {Head(s)} \cup ToSet(Tail(s))
         /\ IsInjective(s) => IsInjective(Tail(s)) /\ Head(s) \notin ToSet(Tail(s))
<1> DEFINE t == Tail(s)
<1>1. /\ t \in Seq(Element) /\ Len(t) = Len(s) - 1 /\ Len(s) \in Nat \ {0}
      /\ \A k \in 1 .. Len(t) : t[k] = s[k + 1]
      /\ Head(s) = s[1] /\ Head(s) \in Element
  BY HeadTailProperties, EmptySeq
<1>2. DOMAIN t = 1 .. Len(t) /\ DOMAIN s = 1 .. Len(s) /\ Len(t) \in Nat
  BY <1>1, LenProperties
<1> HIDE DEF t
<1>3. ToSet(s) = {Head(s)} \cup ToSet(t)
  <2>1. ASSUME NEW a \in ToSet(s) PROVE a \in {Head(s)} \cup ToSet(t)
    <3>1. PICK k \in 1 .. Len(s) : a = s[k]
      BY <1>2 DEF ToSet
    <3>2. CASE k = 1
      BY <1>1, <3>1, <3>2
    <3>3. CASE k # 1
      <4>1. k - 1 \in DOMAIN t /\ t[k - 1] = a
        BY <1>1, <1>2, <3>1, <3>3
      <4> QED
        BY <4>1 DEF ToSet
    <3> QED
      BY <3>2, <3>3
  <2>2. Head(s) \in ToSet(s)
    <3>1. 1 \in DOMAIN s /\ s[1] = Head(s)
      BY <1>1, <1>2
    <3> QED
      BY <3>1 DEF ToSet
  <2>3. ASSUME NEW a \in ToSet(t) PROVE a \in ToSet(s)
    <3>1. PICK k \in 1 .. Len(t) : a = t[k]
      BY <1>2 DEF ToSet
    <3>2. k + 1 \in DOMAIN s /\ s[k + 1] = a
      BY <1>1, <1>2, <3>1
    <3> QED
      BY <3>2 DEF ToSet
  <2> QED
    BY <2>1, <2>2, <2>3
<1>4. ASSUME IsInjective(s) PROVE IsInjective(t) /\ Head(s) \notin ToSet(t)
  <2>1. ASSUME NEW k \in 1 .. Len(t), NEW l \in 1 .. Len(t), t[k] = t[l] PROVE k = l
    <3>1. k + 1 \in DOMAIN s /\ l + 1 \in DOMAIN s /\ s[k + 1] = s[l + 1]
      BY <1>1, <1>2, <2>1
    <3>2. k + 1 = l + 1
      BY <1>4, <3>1 DEF IsInjective
    <3> QED
      BY <3>2
  <2>2. ASSUME NEW k \in 1 .. Len(t), t[k] = Head(s) PROVE FALSE
    <3>1. k + 1 \in DOMAIN s /\ 1 \in DOMAIN s /\ s[k + 1] = s[1]
      BY <1>1, <1>2, <2>2
    <3>2. k + 1 = 1
      BY <1>4, <3>1 DEF IsInjective
    <3> QED
      BY <3>2
  <2> QED
    BY <1>2, <2>1, <2>2 DEF IsInjective, ToSet
<1> QED
  BY <1>1, <1>3, <1>4 DEF t

(* One sequence after the other.                                           *)
LEMMA Joined ==
  ASSUME NEW s \in Seq(Element), NEW t \in Seq(Element),
         IsInjective(s), IsInjective(t), ToSet(s) \cap ToSet(t) = {}
  PROVE  ToSet(s \o t) = ToSet(s) \cup ToSet(t) /\ IsInjective(s \o t)
<1> DEFINE u == s \o t
<1>1. /\ Len(s) \in Nat /\ Len(t) \in Nat
      /\ DOMAIN u = 1 .. Len(s) + Len(t) /\ DOMAIN s = 1 .. Len(s) /\ DOMAIN t = 1 .. Len(t)
      /\ \A k \in 1 .. Len(s) + Len(t) : u[k] = IF k <= Len(s) THEN s[k] ELSE t[k - Len(s)]
  OBVIOUS
<1> HIDE DEF u
<1>2. ASSUME NEW k \in DOMAIN u
      PROVE  \/ k \in DOMAIN s /\ u[k] = s[k] /\ u[k] \in ToSet(s)
             \/ k - Len(s) \in DOMAIN t /\ u[k] = t[k - Len(s)] /\ u[k] \in ToSet(t)
  <2>1. CASE k <= Len(s)
    <3>1. k \in DOMAIN s /\ u[k] = s[k]
      BY <1>1, <2>1
    <3> QED
      BY <3>1 DEF ToSet
  <2>2. CASE ~(k <= Len(s))
    <3>1. k - Len(s) \in DOMAIN t /\ u[k] = t[k - Len(s)]
      BY <1>1, <2>2
    <3> QED
      BY <3>1 DEF ToSet
  <2> QED
    BY <2>1, <2>2
<1>3. ToSet(u) = ToSet(s) \cup ToSet(t)
  <2>1. ASSUME NEW a \in ToSet(u) PROVE a \in ToSet(s) \cup ToSet(t)
    BY <1>2 DEF ToSet
  <2>2. ASSUME NEW a \in ToSet(s) PROVE a \in ToSet(u)
    <3>1. PICK k \in 1 .. Len(s) : a = s[k]
      BY <1>1 DEF ToSet
    <3>2. k \in DOMAIN u /\ u[k] = a
      BY <1>1, <3>1
    <3> QED
      BY <3>2 DEF ToSet
  <2>3. ASSUME NEW a \in ToSet(t) PROVE a \in ToSet(u)
    <3>1. PICK k \in 1 .. Len(t) : a = t[k]
      BY <1>1 DEF ToSet
    <3>2. k + Len(s) \in DOMAIN u /\ u[k + Len(s)] = a
      BY <1>1, <3>1
    <3> QED
      BY <3>2 DEF ToSet
  <2> QED
    BY <2>1, <2>2, <2>3
<1>4. IsInjective(u)
  <2> SUFFICES ASSUME NEW k \in DOMAIN u, NEW l \in DOMAIN u, u[k] = u[l] PROVE k = l
    BY DEF IsInjective
  <2>1. CASE k \in DOMAIN s /\ u[k] = s[k] /\ u[k] \in ToSet(s)
    <3>1. l \in DOMAIN s /\ u[l] = s[l]
      BY <1>2, <2>1
    <3> QED
      BY <2>1, <3>1 DEF IsInjective
  <2>2. CASE k - Len(s) \in DOMAIN t /\ u[k] = t[k - Len(s)] /\ u[k] \in ToSet(t)
    <3>1. l - Len(s) \in DOMAIN t /\ u[l] = t[l - Len(s)]
      BY <1>2, <2>2
    <3>2. k - Len(s) = l - Len(s)
      BY <2>2, <3>1 DEF IsInjective
    <3> QED
      BY <1>1, <3>2
  <2> QED
    BY <1>2, <2>1, <2>2
<1> QED
  BY <1>3, <1>4 DEF u

-----------------------------------------------------------------------------
(* The objects are different from each other.                              *)
LEMMA Objects ==
  /\ QS \in Object /\ FS \in Object /\ QS # FS
  /\ \A e \in Element : /\ FE(e) \in Object /\ QE(e) \in Object
                        /\ FE(e) # QS /\ FE(e) # FS /\ QE(e) # QS /\ QE(e) # FS
  /\ \A d, e \in Element : /\ FE(d) # QE(e)
                           /\ FE(d) = FE(e) => d = e
                           /\ QE(d) = QE(e) => d = e
BY DEF Object, QS, FS, FE, QE

LEMMA ZeroNotElement == 0 \notin Element
BY DEF Element

LEMMA Allocated ==
  ASSUME TypesInv, NEW o \in Object, live[o] = 0, Alloc(o)
  PROVE  /\ live' \in [Object -> {0, 1}]
         /\ live'[o] = 1
         /\ \A p \in Object : p # o => live'[p] = live[p]
BY DEF TypesInv, Alloc

LEMMA Freed ==
  ASSUME TypesInv, NEW o \in Object, live[o] = 1, Free(o)
  PROVE  /\ live' \in [Object -> {0, 1}]
         /\ live'[o] = 0
         /\ \A p \in Object : p # o => live'[p] = live[p]
BY DEF TypesInv, Free

(* The initial state.                                                      *)
LEMMA InitIInv == Init => IInv
<1> SUFFICES ASSUME Init PROVE IInv
  OBVIOUS
<1> USE Nothing DEF Init
<1>1. \A o \in Object : live[o] = 0
  OBVIOUS
<1>2. TypesInv
  <2>1. live \in [Object -> {0, 1}] /\ queue \in Seq(Element) /\ freelist \in Seq(Element)
    OBVIOUS
  <2> QED
    BY <2>1 DEF TypesInv, Steps
<1>3. StatesInv
  BY <1>1, Objects DEF StatesInv
<1>4. ListsInv
  BY DEF ListsInv
<1>5. ElementsInv
  BY <1>1, Objects, ZeroNotElement DEF ElementsInv
<1>6. PhaseInv /\ CountInv
  BY DEF PhaseInv, CountInv, InNew
<1> QED
  BY <1>2, <1>3, <1>4, <1>5, <1>6 DEF IInv

-----------------------------------------------------------------------------
(* The steps of the calls.                                                 *)

(* Steps that allocate or free a state, or only go on: the lists and the   *)
(* elements stay as they are.                                              *)
LEMMA StateSteps ==
  ASSUME IInv, UNCHANGED <<lists, element_count, caller, loop, count, fe>>,
         pc' \in Steps,
         live' \in [Object -> {0, 1}],
         \A e \in Element : live'[FE(e)] = live[FE(e)] /\ live'[QE(e)] = live[QE(e)],
         pc \notin {"init_element", "free_element", "have_element", "delete_element"},
         pc' \notin {"init_element", "free_element", "have_element", "delete_element"}
  PROVE  TypesInv' /\ ListsInv' /\ ElementsInv'
<1>1. UNCHANGED <<queue, freelist>>
  BY DEF lists
<1>2. TypesInv'
  BY <1>1 DEF IInv, TypesInv
<1>3. ListsInv'
  BY <1>1 DEF IInv, ListsInv
<1>4. ElementsInv'
  BY <1>1 DEF IInv, ElementsInv
<1> QED
  BY <1>2, <1>3, <1>4

LEMMA NextNew ==
  ASSUME IInv, QueueNew \/ FreelistNew \/ NewElements \/ QueueNewFails
  PROVE  IInv'
<1> USE DEF locals, Malloc
<1>0. TypesInv
  BY DEF IInv
<1>1. CASE QueueNew
  <2>1. /\ live' \in [Object -> {0, 1}]
        /\ live'[QS] = IF pc' = "freelist_new" THEN 1 ELSE 0
        /\ \A p \in Object : p # QS => live'[p] = live[p]
        /\ pc' \in {"freelist_new", "failed"}
    BY <1>0, <1>1, Allocated, Objects DEF QueueNew, IInv, StatesInv, TypesInv
  <2>2. TypesInv' /\ ListsInv' /\ ElementsInv'
    BY <1>1, <2>1, StateSteps, Objects DEF QueueNew, Steps
  <2>3. StatesInv'
    BY <1>1, <2>1, Objects DEF QueueNew, IInv, StatesInv
  <2>4. PhaseInv' /\ CountInv'
    BY <1>1, <2>1 DEF QueueNew, IInv, PhaseInv, CountInv, InNew, lists
  <2> QED
    BY <2>2, <2>3, <2>4 DEF IInv
<1>2. CASE FreelistNew
  <2>1. /\ live' \in [Object -> {0, 1}]
        /\ live'[FS] = IF pc' = "new_elements" THEN 1 ELSE 0
        /\ \A p \in Object : p # FS => live'[p] = live[p]
        /\ pc' \in {"new_elements", "no_freelist"}
    BY <1>0, <1>2, Allocated, Objects DEF FreelistNew, IInv, StatesInv, TypesInv
  <2>2. TypesInv' /\ ListsInv' /\ ElementsInv'
    BY <1>2, <2>1, StateSteps, Objects DEF FreelistNew, Steps
  <2>3. StatesInv'
    BY <1>2, <2>1, Objects DEF FreelistNew, IInv, StatesInv
  <2>4. PhaseInv' /\ CountInv'
    BY <1>2, <2>1 DEF FreelistNew, IInv, PhaseInv, CountInv, InNew, lists
  <2> QED
    BY <2>2, <2>3, <2>4 DEF IInv
<1>3. CASE NewElements
  <2>1. pc' \in {"new_element", "new_elements_done"} /\ live' = live
    BY <1>3 DEF NewElements
  <2>2. TypesInv' /\ ListsInv' /\ ElementsInv'
    BY <1>0, <1>3, <2>1, StateSteps DEF NewElements, Steps, Making, TypesInv
  <2>3. StatesInv'
    BY <1>3, <2>1 DEF NewElements, IInv, StatesInv
  <2>4. PhaseInv' /\ CountInv'
    BY <1>3, <2>1 DEF NewElements, IInv, PhaseInv, CountInv, InNew, Making, lists
  <2> QED
    BY <2>2, <2>3, <2>4 DEF IInv
<1>4. CASE QueueNewFails
  <2>1. /\ live' \in [Object -> {0, 1}]
        /\ live'[QS] = 0
        /\ \A p \in Object : p # QS => live'[p] = live[p]
        /\ pc = "no_freelist" /\ pc' = "failed"
    BY <1>0, <1>4, Freed, Objects DEF QueueNewFails, IInv, StatesInv
  <2>2. TypesInv' /\ ListsInv' /\ ElementsInv'
    BY <1>4, <2>1, StateSteps, Objects DEF QueueNewFails, Steps
  <2>3. StatesInv'
    BY <2>1, Objects DEF IInv, StatesInv
  <2>4. PhaseInv' /\ CountInv'
    BY <1>4, <2>1 DEF QueueNewFails, IInv, PhaseInv, CountInv, InNew, lists
  <2> QED
    BY <2>2, <2>3, <2>4 DEF IInv
<1> QED
  BY <1>1, <1>2, <1>3, <1>4

(* freelist_internal_new_element: an element comes into being that is in   *)
(* no list, with its freelist_element first.                               *)
LEMMA NextElement ==
  ASSUME IInv, NewElementCall
  PROVE  IInv'
<1>0. TypesInv /\ StatesInv /\ ListsInv /\ ElementsInv /\ PhaseInv /\ CountInv
  BY DEF IInv
<1>1. CASE NewElement
  <2>1. CASE fe' = 0 /\ UNCHANGED live /\ pc' = "no_element"
    <3>1. TypesInv' /\ ListsInv' /\ ElementsInv'
      BY <1>0, <1>1, <2>1, StateSteps DEF NewElement, Steps, Making, TypesInv
    <3>2. StatesInv' /\ CountInv'
      BY <1>0, <1>1, <2>1 DEF NewElement, StatesInv, CountInv, lists
    <3>3. PhaseInv'
      BY <1>0, <1>1, <2>1 DEF NewElement, PhaseInv, InNew, Making, lists
    <3> QED
      BY <3>1, <3>2, <3>3 DEF IInv
  <2>2. ASSUME NEW e \in Element, Unused(e), fe' = e, Alloc(FE(e)), pc' = "init_element"
        PROVE  IInv'
    <3>1. pc = "new_element" /\ UNCHANGED <<queue, freelist, element_count, caller, loop, count>>
      BY <1>1 DEF NewElement, lists
    <3>2. /\ live' \in [Object -> {0, 1}]
          /\ live'[FE(e)] = 1
          /\ \A p \in Object : p # FE(e) => live'[p] = live[p]
      BY <1>0, <2>2, Allocated, Objects DEF Unused
    <3>3. fe = 0 /\ fe \notin Element
      BY <1>0, <3>1, ZeroNotElement DEF TypesInv
    <3>4. e \notin ToSet(queue) \cup ToSet(freelist)
      BY <1>0, <2>2 DEF ElementsInv, Unused
    <3>5. TypesInv'
      BY <1>0, <2>2, <3>1, <3>2 DEF TypesInv, Steps, Making
    <3>6. ListsInv'
      BY <1>0, <2>2, <3>1, <3>4 DEF ListsInv
    <3>7. ASSUME NEW d \in Element
          PROVE  /\ live'[FE(d)] = IF d \in ToSet(queue) \cup ToSet(freelist) \cup {e} THEN 1 ELSE 0
                 /\ live'[QE(d)] = IF d \in ToSet(queue) \cup ToSet(freelist) THEN 1 ELSE 0
      BY <1>0, <3>1, <3>2, <3>3, <3>4, Objects DEF ElementsInv
    <3>8. ElementsInv'
      BY <2>2, <3>1, <3>7 DEF ElementsInv
    <3>9. StatesInv'
      BY <1>0, <2>2, <3>1, <3>2, Objects DEF StatesInv
    <3>10. PhaseInv' /\ CountInv'
      BY <1>0, <2>2, <3>1 DEF PhaseInv, InNew, Making, CountInv
    <3> QED
      BY <3>5, <3>6, <3>8, <3>9, <3>10 DEF IInv
  <2> QED
    BY <1>1, <2>1, <2>2 DEF NewElement
<1>2. CASE InitElement
  <2>1. /\ pc = "init_element" /\ fe \in Element
        /\ UNCHANGED <<queue, freelist, caller, loop, count, fe>>
        /\ pc' \in {"have_element", "free_element"}
        /\ element_count' = element_count + (IF pc' = "have_element" THEN 1 ELSE 0)
    BY <1>0, <1>2 DEF InitElement, Malloc, TypesInv, lists, locals
  <2>2. fe \notin ToSet(queue) \cup ToSet(freelist) /\ live[QE(fe)] = 0
    BY <1>0, <2>1 DEF ListsInv, ElementsInv
  <2>3. /\ live' \in [Object -> {0, 1}]
        /\ live'[QE(fe)] = IF pc' = "have_element" THEN 1 ELSE 0
        /\ \A p \in Object : p # QE(fe) => live'[p] = live[p]
    <3>1. CASE Alloc(QE(fe)) /\ pc' = "have_element"
      BY <1>0, <2>1, <2>2, <3>1, Allocated, Objects
    <3>2. CASE UNCHANGED live /\ pc' = "free_element"
      BY <1>0, <2>2, <3>2 DEF TypesInv
    <3> QED
      BY <1>2, <3>1, <3>2 DEF InitElement, Malloc
  <2>4. TypesInv'
    BY <1>0, <2>1, <2>3 DEF TypesInv, Steps, Making
  <2>5. ListsInv'
    BY <1>0, <2>1 DEF ListsInv
  <2>6. ASSUME NEW d \in Element
        PROVE  /\ live'[FE(d)] = live[FE(d)]
               /\ live'[QE(d)] = IF d = fe THEN (IF pc' = "have_element" THEN 1 ELSE 0) ELSE live[QE(d)]
    BY <2>1, <2>3, Objects
  <2>7. ElementsInv'
    BY <1>0, <2>1, <2>2, <2>6 DEF ElementsInv
  <2>8. StatesInv'
    BY <1>0, <2>1, <2>3, Objects DEF StatesInv
  <2>9. PhaseInv'
    BY <1>0, <2>1 DEF PhaseInv, InNew, Making
  <2>10. CountInv'
    BY <1>0, <2>1 DEF CountInv, TypesInv
  <2> QED
    BY <2>4, <2>5, <2>7, <2>8, <2>9, <2>10 DEF IInv
<1>3. CASE FreeElement
  <2>1. /\ pc = "free_element" /\ fe \in Element /\ pc' = "no_element" /\ fe' = 0
        /\ UNCHANGED <<queue, freelist, element_count, caller, loop, count>>
    BY <1>0, <1>3 DEF FreeElement, TypesInv, lists
  <2>2. fe \notin ToSet(queue) \cup ToSet(freelist) /\ live[FE(fe)] = 1
    BY <1>0, <2>1 DEF ListsInv, ElementsInv
  <2>3. /\ live' \in [Object -> {0, 1}]
        /\ live'[FE(fe)] = 0
        /\ \A p \in Object : p # FE(fe) => live'[p] = live[p]
    BY <1>0, <1>3, <2>1, <2>2, Freed, Objects DEF FreeElement
  <2>4. TypesInv'
    BY <1>0, <2>1, <2>3 DEF TypesInv, Steps, Making
  <2>5. 0 \notin ToSet(queue) \cup ToSet(freelist)
    BY <1>0, ZeroNotElement DEF TypesInv, ToSet
  <2>6. ListsInv'
    BY <1>0, <2>1, <2>5 DEF ListsInv
  <2>7. ASSUME NEW d \in Element
        PROVE  /\ live'[FE(d)] = IF d = fe THEN 0 ELSE live[FE(d)]
               /\ live'[QE(d)] = live[QE(d)]
    BY <2>1, <2>3, Objects
  <2>8. ElementsInv'
    BY <1>0, <2>1, <2>2, <2>7, ZeroNotElement DEF ElementsInv
  <2>9. StatesInv'
    BY <1>0, <2>1, <2>3, Objects DEF StatesInv
  <2>10. PhaseInv' /\ CountInv'
    BY <1>0, <2>1 DEF PhaseInv, InNew, Making, CountInv
  <2> QED
    BY <2>4, <2>6, <2>8, <2>9, <2>10 DEF IInv
<1> QED
  BY <1>1, <1>2, <1>3 DEF NewElementCall

(* 0 is NULL, and in no list.                                              *)
LEMMA NullNotListed ==
  ASSUME NEW s \in Seq(Element)
  PROVE  0 \notin ToSet(s) /\ ToSet(s) \subseteq Element
BY ZeroNotElement DEF ToSet

LEMMA Single ==
  ASSUME NEW e \in Element
  PROVE  /\ <<e>> \in Seq(Element) /\ Len(<<e>>) = 1
         /\ ToSet(<<e>>) = {e} /\ IsInjective(<<e>>)
<1>1. <<e>> \in Seq(Element) /\ Len(<<e>>) = 1
  OBVIOUS
<1>2. DOMAIN <<e>> = {1} /\ <<e>>[1] = e
  OBVIOUS
<1>3. ToSet(<<e>>) = {e}
  BY <1>2 DEF ToSet
<1>4. IsInjective(<<e>>)
  BY <1>2 DEF IsInjective
<1> QED
  BY <1>1, <1>3, <1>4

(* Elements change lists, and none is lost or doubled: the steps that      *)
(* allocate and free nothing.                                              *)
LEMMA Moves ==
  ASSUME IInv, UNCHANGED live,
         TypesInv', fe' = 0,
         pc # "delete_element", pc # "init_element", pc # "free_element",
         IsInjective(queue)', IsInjective(freelist)',
         (ToSet(queue) \cap ToSet(freelist) = {})',
         ToSet(queue') \cup ToSet(freelist') =
           ToSet(queue) \cup ToSet(freelist) \cup (IF pc = "have_element" THEN {fe} ELSE {})
  PROVE  ListsInv' /\ ElementsInv'
<1>0. TypesInv /\ ElementsInv
  BY DEF IInv
<1>1. queue' \in Seq(Element) /\ freelist' \in Seq(Element)
  BY DEF TypesInv
<1>2. ListsInv'
  BY <1>1, NullNotListed DEF ListsInv
<1>3. pc # "have_element" => fe = 0
  BY <1>0 DEF TypesInv
<1>4. ElementsInv'
  <2> SUFFICES ASSUME NEW e \in Element
               PROVE  /\ live[FE(e)] = IF e \in ToSet(queue') \cup ToSet(freelist') \cup {fe'} THEN 1 ELSE 0
                      /\ live[QE(e)] = IF \/ e \in ToSet(queue') \cup ToSet(freelist')
                                          \/ e = fe' /\ pc' = "have_element" THEN 1 ELSE 0
    BY DEF ElementsInv
  <2>1. e # 0
    BY ZeroNotElement
  <2> QED
    BY <1>0, <1>3, <2>1 DEF ElementsInv
<1> QED
  BY <1>2, <1>4

(* queue_dequeue and the loop of queue_delete.                             *)
LEMMA TakeHeadMoves ==
  ASSUME IInv, TakeHead, pc \in {"ready", "drain"},
         UNCHANGED <<live, element_count, pc, locals>>
  PROVE  IInv'
<1>0. TypesInv /\ StatesInv /\ ListsInv /\ ElementsInv /\ PhaseInv /\ CountInv
      /\ UNCHANGED <<caller, loop, count, fe>> /\ queue \in Seq(Element) /\ freelist \in Seq(Element)
  BY DEF IInv, locals, TypesInv
<1>1. queue # <<>> /\ queue' = Tail(queue) /\ freelist' = <<Head(queue)>> \o freelist
  BY <1>0 DEF TakeHead
<1>2. /\ Head(queue) \in Element /\ queue' \in Seq(Element)
      /\ Len(queue') = Len(queue) - 1
      /\ ToSet(queue) = {Head(queue)} \cup ToSet(queue')
      /\ IsInjective(queue') /\ Head(queue) \notin ToSet(queue')
  BY <1>0, <1>1, Popped DEF ListsInv
<1>3. /\ freelist' \in Seq(Element) /\ Len(freelist') = Len(freelist) + 1
      /\ ToSet(freelist') = {Head(queue)} \cup ToSet(freelist)
      /\ IsInjective(freelist')
  <2>1. Head(queue) \notin ToSet(freelist)
    BY <1>0, <1>2 DEF ListsInv
  <2> QED
    BY <1>0, <1>1, <1>2, <2>1, Pushed DEF ListsInv
<1>4. TypesInv'
  BY <1>0, <1>2, <1>3 DEF TypesInv
<1>5. ListsInv' /\ ElementsInv'
  <2>1. ToSet(queue') \cap ToSet(freelist') = {}
    BY <1>0, <1>2, <1>3 DEF ListsInv
  <2>2. fe' = 0
    BY <1>0 DEF TypesInv
  <2> QED
    BY <1>2, <1>3, <1>4, <2>1, <2>2, Moves
<1>6. StatesInv' /\ PhaseInv'
  BY <1>0 DEF StatesInv, PhaseInv, InNew, Making
<1>7. CountInv'
  BY <1>0, <1>2, <1>3 DEF CountInv, TypesInv
<1> QED
  BY <1>4, <1>5, <1>6, <1>7 DEF IInv

LEMMA NextMoves ==
  ASSUME IInv, NewElementsPush \/ FreelistNewDone \/ Use
  PROVE  IInv'
<1>0. TypesInv /\ StatesInv /\ ListsInv /\ ElementsInv /\ PhaseInv /\ CountInv
      /\ queue \in Seq(Element) /\ freelist \in Seq(Element)
      /\ Len(queue) \in Nat /\ Len(freelist) \in Nat
  BY DEF IInv, TypesInv
<1>1. CASE NewElementsPush
  <2>1. /\ pc \in {"have_element", "no_element"} /\ caller = "queue_new" /\ fe' = 0
        /\ loop' = loop + 1 /\ pc' = "new_elements"
        /\ UNCHANGED <<live, queue, element_count, caller>>
        /\ queue = <<>> /\ count = Len(freelist)
    BY <1>0, <1>1 DEF NewElementsPush, PhaseInv, InNew, Making
  <2>2. CASE pc = "have_element"
    <3>1. /\ freelist' = <<fe>> \o freelist /\ count' = count + 1 /\ fe \in Element
      BY <1>0, <1>1, <2>2 DEF NewElementsPush, TypesInv
    <3>2. /\ freelist' \in Seq(Element) /\ Len(freelist') = Len(freelist) + 1
          /\ ToSet(freelist') = {fe} \cup ToSet(freelist)
          /\ IsInjective(freelist')
      BY <1>0, <3>1, Pushed DEF ListsInv
    <3>3. TypesInv'
      BY <1>0, <2>1, <3>1, <3>2 DEF TypesInv, Steps
    <3>4. ListsInv' /\ ElementsInv'
      <4>1. (ToSet(queue) \cap ToSet(freelist) = {})'
        BY <1>0, <2>1, <3>2 DEF ListsInv
      <4>2. IsInjective(queue)' /\ ToSet(queue') = ToSet(queue)
        BY <1>0, <2>1 DEF ListsInv
      <4> QED
        BY <2>1, <2>2, <3>2, <3>3, <4>1, <4>2, Moves
    <3>5. StatesInv' /\ PhaseInv' /\ CountInv'
      BY <1>0, <2>1, <2>2, <3>1, <3>2 DEF TypesInv, StatesInv, PhaseInv, InNew, Making, CountInv
    <3> QED
      BY <3>3, <3>4, <3>5 DEF IInv
  <2>3. CASE pc = "no_element"
    <3>1. UNCHANGED <<freelist, count>> /\ fe = 0
      BY <1>0, <1>1, <2>3 DEF NewElementsPush, TypesInv
    <3>2. TypesInv'
      BY <1>0, <2>1, <3>1 DEF TypesInv, Steps
    <3>3. ListsInv' /\ ElementsInv'
      BY <1>0, <2>1, <2>3, <3>1, ZeroNotElement DEF ListsInv, ElementsInv
    <3>4. StatesInv' /\ PhaseInv' /\ CountInv'
      BY <1>0, <2>1, <2>3, <3>1 DEF TypesInv, StatesInv, PhaseInv, InNew, Making, CountInv
    <3> QED
      BY <3>2, <3>3, <3>4 DEF IInv
  <2> QED
    BY <2>1, <2>2, <2>3
<1>2. CASE FreelistNewDone
  <2>1. /\ pc = "new_elements_done" /\ UNCHANGED <<element_count, caller, loop, count, fe>>
        /\ queue = <<>> /\ count = Len(freelist) /\ fe = 0
    BY <1>0, <1>2 DEF FreelistNewDone, PhaseInv, InNew, TypesInv, locals
  <2>2. CASE count = NumElements + 1
    <3>1. /\ freelist # <<>> /\ queue' = <<Head(freelist)>> /\ freelist' = Tail(freelist)
          /\ pc' = "ready" /\ live' = live
      <4>1. freelist # <<>>
        <5>1. Len(freelist) # 0
          BY <2>1, <2>2, AllocAssumption
        <5> QED
          BY <5>1
      <4> QED
        BY <1>2, <2>2, <4>1 DEF FreelistNewDone
    <3>2. /\ Head(freelist) \in Element /\ freelist' \in Seq(Element)
          /\ Len(freelist') = Len(freelist) - 1
          /\ ToSet(freelist) = {Head(freelist)} \cup ToSet(freelist')
          /\ IsInjective(freelist') /\ Head(freelist) \notin ToSet(freelist')
      BY <1>0, <3>1, Popped DEF ListsInv
    <3>3. /\ queue' \in Seq(Element) /\ Len(queue') = 1
          /\ ToSet(queue') = {Head(freelist)} /\ IsInjective(queue')
      BY <3>1, <3>2, Single
    <3>4. TypesInv'
      BY <1>0, <2>1, <3>1, <3>2, <3>3 DEF TypesInv, Steps
    <3>5. ListsInv' /\ ElementsInv'
      <4>1. (ToSet(queue) \cap ToSet(freelist) = {})'
        BY <3>2, <3>3
      <4>2. ToSet(queue) = {}
        BY <2>1, Nothing
      <4> QED
        BY <2>1, <3>1, <3>2, <3>3, <3>4, <4>1, <4>2, Moves
    <3>6. StatesInv' /\ PhaseInv'
      BY <1>0, <2>1, <3>1 DEF StatesInv, PhaseInv, InNew, Making
    <3>7. CountInv'
      BY <1>0, <2>1, <3>1, <3>2, <3>3 DEF CountInv, TypesInv
    <3> QED
      BY <3>4, <3>5, <3>6, <3>7 DEF IInv
  <2>3. CASE count # NumElements + 1
    <3>1. Free(FS) /\ pc' = "no_freelist" /\ UNCHANGED lists
      BY <1>2, <2>3 DEF FreelistNewDone
    <3>2. live[FS] = 1
      BY <1>0, <2>1 DEF StatesInv
    <3>3. /\ live' \in [Object -> {0, 1}]
          /\ live'[FS] = 0
          /\ \A p \in Object : p # FS => live'[p] = live[p]
      BY <1>0, <3>1, <3>2, Freed, Objects
    <3>4. TypesInv' /\ ListsInv' /\ ElementsInv'
      BY <2>1, <3>1, <3>3, StateSteps, Objects DEF Steps
    <3>5. StatesInv'
      BY <1>0, <2>1, <3>1, <3>3, Objects DEF StatesInv
    <3>6. PhaseInv' /\ CountInv'
      BY <1>0, <2>1, <3>1 DEF PhaseInv, CountInv, InNew, lists
    <3> QED
      BY <3>4, <3>5, <3>6 DEF IInv
  <2> QED
    BY <2>2, <2>3
<1>3. CASE Enqueue
  <2>1. /\ pc = "ready" /\ freelist # <<>> /\ fe = 0
        /\ queue' = Append(queue, Head(freelist)) /\ freelist' = Tail(freelist)
        /\ UNCHANGED <<live, element_count, pc, caller, loop, count, fe>>
    BY <1>0, <1>3 DEF Enqueue, TypesInv, locals
  <2>2. /\ Head(freelist) \in Element /\ freelist' \in Seq(Element)
        /\ Len(freelist') = Len(freelist) - 1
        /\ ToSet(freelist) = {Head(freelist)} \cup ToSet(freelist')
        /\ IsInjective(freelist') /\ Head(freelist) \notin ToSet(freelist')
    BY <1>0, <2>1, Popped DEF ListsInv
  <2>3. /\ queue' \in Seq(Element) /\ Len(queue') = Len(queue) + 1
        /\ ToSet(queue') = {Head(freelist)} \cup ToSet(queue)
        /\ IsInjective(queue')
    <3>1. Head(freelist) \notin ToSet(queue)
      BY <1>0, <2>2 DEF ListsInv
    <3> QED
      BY <1>0, <2>1, <2>2, <3>1, Queued DEF ListsInv
  <2>4. TypesInv'
    BY <1>0, <2>1, <2>2, <2>3 DEF TypesInv
  <2>5. ListsInv' /\ ElementsInv'
    <3>1. (ToSet(queue) \cap ToSet(freelist) = {})'
      BY <1>0, <2>2, <2>3 DEF ListsInv
    <3> QED
      BY <2>1, <2>2, <2>3, <2>4, <3>1, Moves
  <2>6. StatesInv' /\ PhaseInv'
    BY <1>0, <2>1 DEF StatesInv, PhaseInv, InNew, Making
  <2>7. CountInv'
    BY <1>0, <2>1, <2>2, <2>3 DEF CountInv, TypesInv
  <2> QED
    BY <2>4, <2>5, <2>6, <2>7 DEF IInv
<1>4. CASE GuaranteedEnqueue
  <2>1. /\ pc = "ready" /\ caller' = "guaranteed_enqueue" /\ pc' = "new_element" /\ fe = 0
        /\ UNCHANGED <<live, queue, freelist, element_count, loop, count, fe>>
    BY <1>0, <1>4 DEF GuaranteedEnqueue, TypesInv, lists
  <2>2. TypesInv'
    BY <1>0, <2>1 DEF TypesInv, Steps, Making
  <2>3. ListsInv' /\ ElementsInv'
    BY <1>0, <2>1 DEF ListsInv, ElementsInv
  <2>4. StatesInv' /\ PhaseInv' /\ CountInv'
    BY <1>0, <2>1 DEF StatesInv, PhaseInv, InNew, CountInv
  <2> QED
    BY <2>2, <2>3, <2>4 DEF IInv
<1>5. CASE GuaranteedEnqueued
  <2>1. /\ pc \in {"have_element", "no_element"} /\ caller = "guaranteed_enqueue" /\ fe' = 0
        /\ pc' = "ready" /\ UNCHANGED <<live, freelist, element_count, caller, loop, count>>
    BY <1>5 DEF GuaranteedEnqueued
  <2>2. CASE pc = "have_element"
    <3>1. queue' = Append(queue, fe) /\ fe \in Element
      BY <1>0, <1>5, <2>2 DEF GuaranteedEnqueued, TypesInv
    <3>2. /\ queue' \in Seq(Element) /\ Len(queue') = Len(queue) + 1
          /\ ToSet(queue') = {fe} \cup ToSet(queue)
          /\ IsInjective(queue')
      BY <1>0, <3>1, Queued DEF ListsInv
    <3>3. TypesInv'
      BY <1>0, <2>1, <3>1, <3>2 DEF TypesInv, Steps
    <3>4. ListsInv' /\ ElementsInv'
      <4>1. (ToSet(queue) \cap ToSet(freelist) = {})'
        BY <1>0, <2>1, <3>2 DEF ListsInv
      <4>2. IsInjective(freelist)' /\ ToSet(freelist') = ToSet(freelist)
        BY <1>0, <2>1 DEF ListsInv
      <4> QED
        BY <2>1, <2>2, <3>2, <3>3, <4>1, <4>2, Moves
    <3>5. StatesInv' /\ PhaseInv' /\ CountInv'
      BY <1>0, <2>1, <2>2, <3>1, <3>2 DEF TypesInv, StatesInv, PhaseInv, InNew, Making, CountInv
    <3> QED
      BY <3>3, <3>4, <3>5 DEF IInv
  <2>3. CASE pc = "no_element"
    <3>1. UNCHANGED queue /\ fe = 0
      BY <1>0, <1>5, <2>3 DEF GuaranteedEnqueued, TypesInv
    <3>2. TypesInv'
      BY <1>0, <2>1, <3>1 DEF TypesInv, Steps
    <3>3. ListsInv' /\ ElementsInv'
      BY <1>0, <2>1, <2>3, <3>1, ZeroNotElement DEF ListsInv, ElementsInv
    <3>4. StatesInv' /\ PhaseInv' /\ CountInv'
      BY <1>0, <2>1, <2>3, <3>1 DEF TypesInv, StatesInv, PhaseInv, InNew, Making, CountInv
    <3> QED
      BY <3>2, <3>3, <3>4 DEF IInv
  <2> QED
    BY <2>1, <2>2, <2>3
<1>6. CASE Dequeue
  BY <1>6, TakeHeadMoves DEF Dequeue
<1> QED
  BY <1>1, <1>2, <1>3, <1>4, <1>5, <1>6 DEF Use

(* queue_delete empties the queue into the freelist, and freelist_delete   *)
(* frees what it pops.                                                     *)
LEMMA NextDelete ==
  ASSUME IInv, Delete
  PROVE  IInv'
<1>0. TypesInv /\ StatesInv /\ ListsInv /\ ElementsInv /\ PhaseInv /\ CountInv
      /\ queue \in Seq(Element) /\ freelist \in Seq(Element)
      /\ Len(queue) \in Nat /\ Len(freelist) \in Nat
  BY DEF IInv, TypesInv
<1>1. CASE QueueDelete
  <2>1. /\ pc = "ready" /\ pc' = "drain"
        /\ UNCHANGED <<live, queue, freelist, element_count, caller, loop, count, fe>>
    BY <1>1 DEF QueueDelete, lists, locals
  <2>2. TypesInv' /\ ListsInv' /\ ElementsInv'
    BY <1>0, <2>1, StateSteps DEF Steps, lists, TypesInv
  <2>3. StatesInv' /\ PhaseInv' /\ CountInv'
    BY <1>0, <2>1 DEF StatesInv, PhaseInv, InNew, Making, CountInv
  <2> QED
    BY <2>2, <2>3 DEF IInv
<1>2. CASE Drain
  BY <1>2, TakeHeadMoves DEF Drain
<1>3. CASE Drained
  <2>1. /\ pc = "drain" /\ Len(queue) = 1 /\ fe = 0 /\ pc' = "freelist_delete"
        /\ freelist' = <<Head(queue)>> \o freelist /\ queue' = <<>>
        /\ UNCHANGED <<live, element_count, caller, loop, count, fe>>
    BY <1>0, <1>3 DEF Drained, TypesInv, locals
  <2>2. queue # <<>>
    <3>1. Len(queue) # 0
      BY <2>1
    <3> QED
      BY <3>1
  <2>3. /\ Head(queue) \in Element /\ Tail(queue) \in Seq(Element)
        /\ Len(Tail(queue)) = Len(queue) - 1
        /\ ToSet(queue) = {Head(queue)} \cup ToSet(Tail(queue))
    BY <1>0, <2>2, Popped
  <2>4. ToSet(queue) = {Head(queue)}
    <3>1. Len(Tail(queue)) = 0
      BY <2>1, <2>3
    <3>2. Tail(queue) = <<>>
      BY <2>3, <3>1, EmptySeq
    <3> QED
      BY <2>3, <3>2, Nothing
  <2>5. /\ freelist' \in Seq(Element) /\ Len(freelist') = Len(freelist) + 1
        /\ ToSet(freelist') = {Head(queue)} \cup ToSet(freelist)
        /\ IsInjective(freelist')
    <3>1. Head(queue) \notin ToSet(freelist)
      BY <1>0, <2>4 DEF ListsInv
    <3> QED
      BY <1>0, <2>1, <2>3, <3>1, Pushed DEF ListsInv
  <2>6. TypesInv'
    <3>1. queue' \in Seq(Element)
      BY <2>1
    <3> QED
      BY <1>0, <2>1, <2>5, <3>1 DEF TypesInv, Steps
  <2>7. ListsInv' /\ ElementsInv'
    <3>1. IsInjective(queue)' /\ ToSet(queue') = {}
      BY <2>1, Nothing
    <3> QED
      BY <2>1, <2>4, <2>5, <2>6, <3>1, Moves
  <2>8. StatesInv' /\ PhaseInv' /\ CountInv'
    BY <1>0, <2>1 DEF StatesInv, PhaseInv, InNew, Making, CountInv
  <2> QED
    BY <2>6, <2>7, <2>8 DEF IInv
<1>4. CASE DeletePop
  <2>1. /\ pc = "freelist_delete" /\ freelist # <<>> /\ fe = 0 /\ queue = <<>>
        /\ fe' = Head(freelist) /\ freelist' = Tail(freelist)
        /\ Free(QE(Head(freelist))) /\ pc' = "delete_element"
        /\ UNCHANGED <<queue, element_count, caller, loop, count>>
    BY <1>0, <1>4 DEF DeletePop, DeleteUserData, TypesInv, PhaseInv
  <2>2. /\ fe' \in Element /\ freelist' \in Seq(Element)
        /\ ToSet(freelist) = {fe'} \cup ToSet(freelist')
        /\ IsInjective(freelist') /\ fe' \notin ToSet(freelist')
    BY <1>0, <2>1, Popped DEF ListsInv
  <2>3. fe' \notin ToSet(queue) /\ fe' \in ToSet(freelist)
    BY <1>0, <2>2 DEF ListsInv
  <2>4. /\ live' \in [Object -> {0, 1}]
        /\ live'[QE(fe')] = 0
        /\ \A p \in Object : p # QE(fe') => live'[p] = live[p]
    <3>1. QE(fe') \in Object /\ live[QE(fe')] = 1
      BY <1>0, <2>2, <2>3, Objects DEF ElementsInv
    <3>2. Free(QE(fe'))
      BY <2>1
    <3> QED
      BY <1>0, <3>1, <3>2 DEF TypesInv, Free
  <2>5. TypesInv'
    BY <1>0, <2>1, <2>2, <2>4 DEF TypesInv, Steps
  <2>6. ListsInv'
    BY <1>0, <2>1, <2>2, <2>3 DEF ListsInv
  <2>7. ASSUME NEW d \in Element
        PROVE  /\ live'[FE(d)] = live[FE(d)]
               /\ live'[QE(d)] = IF d = fe' THEN 0 ELSE live[QE(d)]
    BY <2>2, <2>4, Objects
  <2>8. ElementsInv'
    <3> SUFFICES ASSUME NEW e \in Element
                 PROVE  /\ live'[FE(e)] = IF e \in ToSet(queue') \cup ToSet(freelist') \cup {fe'} THEN 1 ELSE 0
                        /\ live'[QE(e)] = IF \/ e \in ToSet(queue') \cup ToSet(freelist')
                                             \/ e = fe' /\ pc' = "have_element" THEN 1 ELSE 0
      BY DEF ElementsInv
    <3>1. e # fe /\ queue' = queue
      BY <2>1, ZeroNotElement
    <3>2. live[FE(e)] = IF e \in ToSet(queue) \cup ToSet(freelist) THEN 1 ELSE 0
      BY <1>0, <3>1 DEF ElementsInv
    <3>3. live[QE(e)] = IF e \in ToSet(queue) \cup ToSet(freelist) THEN 1 ELSE 0
      BY <1>0, <3>1 DEF ElementsInv
    <3>4. live'[FE(e)] = IF e \in ToSet(queue') \cup ToSet(freelist') \cup {fe'} THEN 1 ELSE 0
      BY <2>2, <2>7, <3>1, <3>2
    <3>5. live'[QE(e)] = IF e \in ToSet(queue') \cup ToSet(freelist') THEN 1 ELSE 0
      BY <2>2, <2>3, <2>7, <3>1, <3>3
    <3> QED
      BY <2>1, <3>4, <3>5
  <2>9. StatesInv'
    BY <1>0, <2>1, <2>2, <2>4, Objects DEF StatesInv
  <2>10. PhaseInv' /\ CountInv'
    BY <1>0, <2>1 DEF PhaseInv, InNew, Making, CountInv
  <2> QED
    BY <2>5, <2>6, <2>8, <2>9, <2>10 DEF IInv
<1>5. CASE DeleteElement
  <2>1. /\ pc = "delete_element" /\ fe \in Element /\ pc' = "freelist_delete" /\ fe' = 0
        /\ UNCHANGED <<queue, freelist, element_count, caller, loop, count>>
    BY <1>0, <1>5 DEF DeleteElement, TypesInv, lists
  <2>2. fe \notin ToSet(queue) \cup ToSet(freelist) /\ live[FE(fe)] = 1
    BY <1>0, <2>1 DEF ListsInv, ElementsInv
  <2>3. /\ live' \in [Object -> {0, 1}]
        /\ live'[FE(fe)] = 0
        /\ \A p \in Object : p # FE(fe) => live'[p] = live[p]
    BY <1>0, <1>5, <2>1, <2>2, Freed, Objects DEF DeleteElement
  <2>4. TypesInv'
    BY <1>0, <2>1, <2>3 DEF TypesInv, Steps
  <2>5. 0 \notin ToSet(queue) \cup ToSet(freelist)
    BY <1>0, NullNotListed
  <2>6. ListsInv'
    BY <1>0, <2>1, <2>5 DEF ListsInv
  <2>7. ASSUME NEW d \in Element
        PROVE  /\ live'[FE(d)] = IF d = fe THEN 0 ELSE live[FE(d)]
               /\ live'[QE(d)] = live[QE(d)]
    BY <2>1, <2>3, Objects
  <2>8. ElementsInv'
    BY <1>0, <2>1, <2>2, <2>7, ZeroNotElement DEF ElementsInv
  <2>9. StatesInv'
    BY <1>0, <2>1, <2>3, Objects DEF StatesInv
  <2>10. PhaseInv' /\ CountInv'
    BY <1>0, <2>1 DEF PhaseInv, InNew, Making, CountInv
  <2> QED
    BY <2>4, <2>6, <2>8, <2>9, <2>10 DEF IInv
<1>6. CASE FreelistDeleted
  <2>1. /\ pc = "freelist_delete" /\ freelist = <<>> /\ pc' = "freelist_deleted"
        /\ UNCHANGED <<lists, element_count, caller, loop, count, fe>>
    BY <1>6 DEF FreelistDeleted, locals
  <2>2. live[FS] = 1
    BY <1>0, <2>1 DEF StatesInv
  <2>3. /\ live' \in [Object -> {0, 1}]
        /\ live'[FS] = 0
        /\ \A p \in Object : p # FS => live'[p] = live[p]
    BY <1>0, <1>6, <2>2, Freed, Objects DEF FreelistDeleted
  <2>4. TypesInv' /\ ListsInv' /\ ElementsInv'
    BY <2>1, <2>3, StateSteps, Objects DEF Steps
  <2>5. StatesInv'
    BY <1>0, <2>1, <2>3, Objects DEF StatesInv
  <2>6. PhaseInv' /\ CountInv'
    BY <1>0, <2>1 DEF PhaseInv, CountInv, InNew, Making, lists
  <2> QED
    BY <2>4, <2>5, <2>6 DEF IInv
<1>7. CASE QueueDeleted
  <2>1. /\ pc = "freelist_deleted" /\ pc' = "deleted"
        /\ UNCHANGED <<lists, element_count, caller, loop, count, fe>>
    BY <1>7 DEF QueueDeleted, locals
  <2>2. live[QS] = 1
    BY <1>0, <2>1 DEF StatesInv
  <2>3. /\ live' \in [Object -> {0, 1}]
        /\ live'[QS] = 0
        /\ \A p \in Object : p # QS => live'[p] = live[p]
    BY <1>0, <1>7, <2>2, Freed, Objects DEF QueueDeleted
  <2>4. TypesInv' /\ ListsInv' /\ ElementsInv'
    BY <2>1, <2>3, StateSteps, Objects DEF Steps
  <2>5. StatesInv'
    BY <1>0, <2>1, <2>3, Objects DEF StatesInv
  <2>6. PhaseInv' /\ CountInv'
    BY <1>0, <2>1 DEF PhaseInv, CountInv, InNew, Making, lists
  <2> QED
    BY <2>4, <2>5, <2>6 DEF IInv
<1> QED
  BY <1>1, <1>2, <1>3, <1>4, <1>5, <1>6, <1>7 DEF Delete, FreelistDelete

-----------------------------------------------------------------------------
(* The invariant holds in every state of every execution: each element is  *)
(* in one list, once, and is allocated exactly while it is there or at     *)
(* hand.                                                                   *)
THEOREM Invariance == Spec => []IInv
<1>1. Init => IInv
  BY InitIInv
<1>2. IInv /\ [Next]_vars => IInv'
  <2> SUFFICES ASSUME IInv, [Next]_vars PROVE IInv'
    OBVIOUS
  <2>1. CASE New
    BY <2>1, NextNew, NextMoves DEF New
  <2>2. CASE NewElementCall
    BY <2>2, NextElement
  <2>3. CASE Use
    BY <2>3, NextMoves
  <2>4. CASE Delete
    BY <2>4, NextDelete
  <2>5. CASE UNCHANGED vars
    BY <2>5 DEF IInv, TypesInv, StatesInv, ListsInv, ElementsInv, PhaseInv, InNew, CountInv, vars
  <2> QED
    BY <2>1, <2>2, <2>3, <2>4, <2>5 DEF Next
<1> QED
  BY <1>1, <1>2, PTL DEF Spec

(* abstraction_aligned_free is never called for an object that is not      *)
(* allocated.                                                              *)
THEOREM NothingFreedTwice == Spec => []NoDoubleFree
<1>1. IInv => NoDoubleFree
  BY DEF IInv, TypesInv, NoDoubleFree
<1> QED
  BY <1>1, Invariance, PTL

(* freelist_internal_new_element cleans up whatever fails in it: no        *)
(* element is left with one of its two objects.                            *)
THEOREM ElementsAreWhole == Spec => []ElementsWhole
<1>1. IInv => ElementsWhole
  BY DEF IInv, ElementsInv, ElementsWhole
<1> QED
  BY <1>1, Invariance, PTL

(* element_count of a queue in use is the number of its elements, and each *)
(* is in the queue or in the freelist, once.                               *)
THEOREM ElementsAreCounted == Spec => []CountsElements
<1>1. IInv => CountsElements
  <2> SUFFICES ASSUME IInv, pc = "ready" PROVE CountsElements
    BY DEF CountsElements
  <2>1. /\ queue \in Seq(Element) /\ freelist \in Seq(Element) /\ fe = 0
        /\ IsInjective(queue) /\ IsInjective(freelist)
        /\ ToSet(queue) \cap ToSet(freelist) = {}
    BY DEF IInv, TypesInv, ListsInv
  <2>2. ToSet(queue \o freelist) = ToSet(queue) \cup ToSet(freelist) /\ IsInjective(queue \o freelist)
    BY <2>1, Joined
  <2>3. element_count = Len(queue) + Len(freelist)
    BY <2>1 DEF IInv, CountInv
  <2>4. ToSet(queue) \subseteq Element /\ ToSet(freelist) \subseteq Element
    BY <2>1, NullNotListed
  <2>5. ToSet(queue) \cup ToSet(freelist) = {e \in Element : live[FE(e)] = 1}
    BY <2>1, <2>4, ZeroNotElement DEF IInv, ElementsInv
  <2> QED
    BY <2>2, <2>3, <2>5 DEF CountsElements
<1> QED
  BY <1>1, Invariance, PTL

(* queue_delete leaves nothing allocated, however many elements the        *)
(* guaranteed enqueues added.                                              *)
THEOREM DeleteIsComplete == Spec => []DeleteFreesAll
<1>1. IInv => DeleteFreesAll
  <2> SUFFICES ASSUME IInv, pc = "deleted", NEW o \in Object PROVE live[o] = 0
    BY DEF DeleteFreesAll
  <2>1. queue = <<>> /\ freelist = <<>> /\ fe = 0
    BY DEF IInv, PhaseInv, TypesInv
  <2>2. ToSet(queue) = {} /\ ToSet(freelist) = {}
    BY <2>1, Nothing
  <2>3. \A e \in Element : live[FE(e)] = 0 /\ live[QE(e)] = 0
    BY <2>1, <2>2, ZeroNotElement DEF IInv, ElementsInv
  <2>4. live[QS] = 0 /\ live[FS] = 0
    BY DEF IInv, StatesInv
  <2> QED
    BY <2>3, <2>4 DEF Object
<1> QED
  BY <1>1, Invariance, PTL

(* A queue_new that fails has freed both states; what it leaves allocated  *)
(* are the whole elements it had pushed.                                   *)
THEOREM FailureIsBounded == Spec => []FailureLeavesElements
<1>1. IInv => FailureLeavesElements
  <2> SUFFICES ASSUME IInv, pc = "failed" PROVE FailureLeavesElements
    BY DEF FailureLeavesElements
  <2>1. queue = <<>> /\ freelist \in Seq(Element) /\ fe = 0
    BY DEF IInv, PhaseInv, InNew, TypesInv
  <2>2. ToSet(queue) = {} /\ ToSet(freelist) \subseteq Element
    BY <2>1, Nothing, NullNotListed
  <2>3. \A e \in Element : /\ live[FE(e)] = IF e \in ToSet(freelist) THEN 1 ELSE 0
                           /\ live[QE(e)] = IF e \in ToSet(freelist) THEN 1 ELSE 0
    BY <2>1, <2>2, ZeroNotElement DEF IInv, ElementsInv
  <2>4. live[QS] = 0 /\ live[FS] = 0
    BY DEF IInv, StatesInv
  <2>5. {e \in Element : live[FE(e)] = 1} = ToSet(freelist)
    BY <2>2, <2>3
  <2> QED
    BY <2>3, <2>4, <2>5 DEF FailureLeavesElements
<1> QED
  BY <1>1, Invariance, PTL
=============================================================================
