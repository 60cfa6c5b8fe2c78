------------------------- MODULE LfdsSupportProofs --------------------------
(***************************************************************************)
(* Proofs about two parts of lfds that share no state with each other or   *)
(* with a running queue: the validation of lists of any length, by words   *)
(* of any width, and abstraction_dcas on ARM, for any number of threads    *)
(* and any values.                                                         *)
(***************************************************************************)
EXTENDS LfdsValidate, LfdsDcas, FiniteSetTheorems, WellFoundedInduction, TLAPS

-----------------------------------------------------------------------------
(* Words *)

Modulus == 2 ^ Width

LEMMA Sizes == /\ MaxElements \in Nat /\ MaxElements >= 1 /\ NULL \notin Element
               /\ Modulus \in Nat /\ MaxElements < Modulus
               /\ Word = 0 .. Modulus - 1
BY ValidateAssumption DEF Modulus, Element, Word

LEMMA Remainder ==
    ASSUME NEW m \in Nat, m > 0, NEW n \in Int
    PROVE  n % m \in 0 .. m - 1 /\ (n \in 0 .. m - 1 => n % m = n)
OBVIOUS

LEMMA Wrapped == \A n \in Int : Wrap(n) \in Word /\ (n \in Word => Wrap(n) = n)
BY Sizes, Remainder DEF Wrap, Modulus

-----------------------------------------------------------------------------
(* The lists, and what the verdict refers to *)

\* List l has n elements and an end, or it has a loop.
Ends(l, n) == \/ n = 0 /\ head[l] = NULL
              \/ n \in Element /\ head[l] = 1 /\ next[l] = Chain(n, NULL)
Turns(l) == head[l] = 1 /\ \E n \in Element, m \in Element : m <= n /\ next[l] = Chain(n, m)

Shape == /\ head \in [Lists -> {1, NULL}] /\ head["queue"] = 1
         /\ next \in [Lists -> Chains]
         /\ total \in Element
         /\ vi \in Info \cup {NULL}

LEMMA Links ==
    ASSUME NEW n \in Element, NEW m \in Pointer
    PROVE  \A e \in Element : Chain(n, m)[e] = IF e < n THEN e + 1 ELSE IF e = n THEN m ELSE NULL
BY DEF Chain

LEMMA EndsOrTurns ==
    ASSUME Shape, NEW l \in Lists
    PROVE  (\E n \in Nat : Ends(l, n)) \/ Turns(l)
<1>1. CASE head[l] = NULL
  BY <1>1 DEF Ends
<1>2. CASE head[l] = 1
  <2>1. PICK n \in Element : \E m \in (1 .. n) \cup {NULL} : next[l] = Chain(n, m)
    BY DEF Shape, Chains
  <2>2. PICK m \in (1 .. n) \cup {NULL} : next[l] = Chain(n, m)
    BY <2>1
  <2>3. n \in Nat
    BY Sizes DEF Element
  <2>4. CASE m = NULL
    BY <1>2, <2>2, <2>3, <2>4 DEF Ends
  <2>5. CASE m \in 1 .. n
    <3>1. m \in Element /\ m <= n
      BY Sizes, <2>3, <2>5 DEF Element
    <3> QED
      BY <1>2, <2>2, <3>1 DEF Turns
  <2> QED
    BY <2>4, <2>5
<1> QED
  BY <1>1, <1>2 DEF Shape

\* One value of Visited, from the one before
Visit(f, k, l) == IF k = 0 THEN head[l]
                  ELSE IF f[k - 1] = NULL THEN NULL ELSE next[l][f[k - 1]]

LEMMA LeastNumber ==
    ASSUME NEW T, T \subseteq Nat, T # {}
    PROVE  \E x \in T : \A y \in T : ~(y < x)
<1> DEFINE R == {ss \in Nat \X Nat : ss[1] < ss[2]}
<1>1. IsWellFoundedOn(R, Nat)
  BY NatLessThanWellFounded DEF OpToRel
<1> HIDE DEF R
<1>2. \E x \in T : \A y \in T : ~(<<y, x>> \in R)
  BY <1>1, WFMin
<1> QED
  BY <1>2 DEF R

\* A function that solves the recursion is the one that is visited.
LEMMA VisitedIs ==
    ASSUME NEW l, NEW g, g = [k \in 0 .. MaxElements |-> Visit(g, k, l)]
    PROVE  Visited(l) = g
<1> DEFINE N == MaxElements
           P(f) == f = [k \in 0 .. N |-> Visit(f, k, l)]
           c == CHOOSE f : P(f)
<1>1. Visited(l) = c
  BY DEF Visited, Visit
<1>2. P(g)
  OBVIOUS
<1> HIDE DEF P
<1>3. P(c)
  BY <1>2, Zenon
<1> HIDE DEF c
<1>4. /\ c = [k \in 0 .. N |-> c[k]] /\ \A k \in 0 .. N : c[k] = Visit(c, k, l)
      /\ g = [k \in 0 .. N |-> g[k]] /\ \A k \in 0 .. N : g[k] = Visit(g, k, l)
  BY <1>2, <1>3 DEF P
<1>5. N \in Nat
  BY Sizes
<1> HIDE DEF N
<1>6. \A k \in 0 .. N : c[k] = g[k]
  <2> DEFINE T == {k \in 0 .. N : c[k] # g[k]}
  <2> SUFFICES ASSUME T # {} PROVE FALSE
    OBVIOUS
  <2>1. T \subseteq Nat
    BY <1>5
  <2> HIDE DEF T
  <2>2. PICK x \in T : \A y \in T : ~(y < x)
    BY <2>1, LeastNumber
  <2>3. x \in 0 .. N /\ c[x] # g[x]
    BY DEF T
  <2>4. x = 0 \/ c[x - 1] = g[x - 1]
    <3>1. x # 0 => x - 1 \in 0 .. N /\ x - 1 < x
      BY <1>5, <2>3
    <3> QED
      BY <2>2, <3>1 DEF T
  <2>5. Visit(c, x, l) = Visit(g, x, l)
    BY <2>4 DEF Visit
  <2> QED
    BY <1>4, <2>3, <2>5
<1> QED
  BY <1>1, <1>4, <1>6

\* A list with a loop visits elements without end.
LEMMA LoopVisits ==
    ASSUME NEW l, NEW n \in Element, head[l] = 1,
           \A e \in 1 .. n : next[l][e] \in 1 .. n
    PROVE  \A k \in 0 .. MaxElements : Visited(l)[k] \in 1 .. n
<1> DEFINE N == MaxElements
           Goes(h, x) == h \in [0 .. x -> 1 .. n] /\ \A k \in 0 .. x : h[k] = Visit(h, k, l)
           T == {x \in 0 .. N : ~ \E h : Goes(h, x)}
<1>0. N \in Nat /\ n \in Nat /\ n >= 1 /\ NULL \notin 1 .. n
  BY Sizes DEF Element
<1>1. T = {}
  <2> SUFFICES ASSUME T # {} PROVE FALSE
    OBVIOUS
  <2>1. T \subseteq Nat
    BY <1>0
  <2> HIDE DEF T
  <2>2. PICK x \in T : \A y \in T : ~(y < x)
    BY <2>1, LeastNumber
  <2>3. x \in 0 .. N /\ ~ \E h : Goes(h, x)
    BY DEF T
  <2>4. CASE x = 0
    <3> DEFINE h == [k \in 0 .. 0 |-> 1]
    <3>1. h \in [0 .. 0 -> 1 .. n] /\ \A k \in 0 .. 0 : h[k] = Visit(h, k, l)
      BY <1>0 DEF Visit
    <3> QED
      BY <2>3, <2>4, <3>1
  <2>5. CASE x # 0
    <3>1. x - 1 \in 0 .. N /\ x - 1 < x /\ x \in Nat
      BY <1>0, <2>3, <2>5
    <3>2. PICK f : Goes(f, x - 1)
      BY <2>2, <3>1 DEF T
    <3> DEFINE h == [k \in 0 .. x |-> IF k < x THEN f[k] ELSE next[l][f[x - 1]]]
    <3>3. \A k \in 0 .. x : k < x => k \in 0 .. x - 1
      BY <3>1
    <3>4. f[x - 1] \in 1 .. n /\ x - 1 \in 0 .. x
      BY <3>1, <3>2
    <3>5. h \in [0 .. x -> 1 .. n]
      BY <3>2, <3>3, <3>4
    <3>6. ASSUME NEW k \in 0 .. x PROVE h[k] = Visit(h, k, l)
      <4>1. CASE k = 0
        BY <3>1, <3>2, <3>3, <4>1 DEF Visit
      <4>2. CASE k # 0
        <5>1. k - 1 \in 0 .. x /\ k - 1 < x /\ k - 1 \in 0 .. x - 1
          BY <3>1, <4>2
        <5>2. h[k - 1] = f[k - 1] /\ f[k - 1] # NULL
          BY <1>0, <3>2, <5>1
        <5>3. CASE k < x
          BY <3>2, <3>3, <4>2, <5>2, <5>3 DEF Visit
        <5>4. CASE k = x
          BY <4>2, <5>2, <5>4 DEF Visit
        <5> QED
          BY <3>1, <5>3, <5>4
      <4> QED
        BY <4>1, <4>2
    <3> QED
      BY <2>3, <3>5, <3>6
  <2> QED
    BY <2>4, <2>5
<1>2. N \in 0 .. N
  BY <1>0
<1>3. PICK g : Goes(g, N)
  BY <1>1, <1>2
<1>4. g = [k \in 0 .. N |-> Visit(g, k, l)]
  BY <1>3
<1>5. Visited(l) = g
  BY <1>4, VisitedIs
<1> QED
  BY <1>3, <1>5

LEMMA TurnsHasLoop ==
    ASSUME Shape, NEW l \in Lists, Turns(l)
    PROVE  HasLoop(l)
<1>1. PICK n \in Element, m \in Element : m <= n /\ next[l] = Chain(n, m)
  BY DEF Turns
<1>2. \A e \in 1 .. n : next[l][e] \in 1 .. n /\ e # NULL
  <2>1. n \in Nat /\ m \in Nat /\ \A e \in 1 .. n : e \in Element
    BY Sizes DEF Element
  <2>2. \A e \in Element : next[l][e] = IF e < n THEN e + 1 ELSE IF e = n THEN m ELSE NULL
    BY <1>1, Links DEF Pointer
  <2> QED
    BY Sizes, <1>1, <2>1, <2>2 DEF Element
<1>3. \A k \in 0 .. MaxElements : Visited(l)[k] \in 1 .. n
  BY <1>2, LoopVisits DEF Turns
<1> QED
  BY <1>2, <1>3 DEF HasLoop

LEMMA EndsLength ==
    ASSUME NEW l \in Lists, NEW n \in Nat, Ends(l, n)
    PROVE  ~HasLoop(l) /\ Length(l) = n
<1> DEFINE N == MaxElements
           g == [k \in 0 .. N |-> IF k < n THEN k + 1 ELSE NULL]
<1>0. N \in Nat /\ n <= N /\ NULL \notin 1 .. N /\ (n > 0 => n \in Element)
  BY Sizes DEF Ends, Element
<1>1. ASSUME NEW k \in 0 .. N PROVE g[k] = Visit(g, k, l)
  <2>0. (n = 0 => head[l] = NULL) /\ (n # 0 => head[l] = 1 /\ next[l] = Chain(n, NULL))
    BY Sizes DEF Ends, Element
  <2>1. CASE k = 0
    BY <1>0, <2>0, <2>1 DEF Visit
  <2>2. CASE k # 0
    <3>1. k - 1 \in 0 .. N
      BY <1>0, <2>2
    <3>2. CASE k - 1 < n
      <4>1. g[k - 1] = k /\ k \in Element /\ k # NULL /\ n \in Element
        BY <1>0, <2>2, <3>1, <3>2 DEF Element
      <4>2. next[l] = Chain(n, NULL)
        BY <1>0, <2>0, <2>2, <3>2
      <4>3. next[l][k] = IF k < n THEN k + 1 ELSE NULL
        <5>1. \A e \in Element :
                Chain(n, NULL)[e] = IF e < n THEN e + 1 ELSE IF e = n THEN NULL ELSE NULL
          BY <4>1, Links DEF Pointer
        <5> QED
          BY <4>1, <4>2, <5>1
      <4> QED
        BY <2>2, <4>1, <4>3 DEF Visit
    <3>3. CASE ~(k - 1 < n)
      BY <1>0, <2>2, <3>1, <3>3 DEF Visit
    <3> QED
      BY <3>2, <3>3
  <2> QED
    BY <2>1, <2>2
<1>2. Visited(l) = g
  BY <1>1, VisitedIs
<1>3. \A k \in 0 .. N : Visited(l)[k] # NULL <=> k \in 0 .. n - 1
  BY <1>0, <1>2
<1>4. n \in 0 .. N /\ n \notin 0 .. n - 1
  BY <1>0
<1>5. {k \in 0 .. N : Visited(l)[k] # NULL} = 0 .. n - 1
  BY <1>0, <1>3
<1>6. Cardinality(0 .. n - 1) = n
  BY FS_Interval
<1> QED
  BY <1>3, <1>4, <1>5, <1>6 DEF HasLoop, Length

-----------------------------------------------------------------------------
(* The inductive invariant *)

\* The verdict for a list of n elements, by the bounds i
Judgement(l, i, n) ==
    IF i = NULL THEN "valid"
    ELSE Judged(IF l = "queue" THEN n - 1 ELSE n, i.min_elements, i.max_elements)

\* The verdict of list l is right.
Right(l, i) == /\ Turns(l) => validity[l] = "loop"
               /\ \A n \in Nat : Ends(l, n) => validity[l] = Judgement(l, i, n)

\* In a loop the pointers never come to NULL.
LoopInv ==
    \A n \in Element, m \in Element :
        m <= n /\ head[list] = 1 /\ next[list] = Chain(n, m) =>
        /\ pc = "chase" => slow \in 1 .. n /\ fast \in 1 .. n
        /\ pc = "looped" => slow = fast /\ slow \in 1 .. n
        /\ pc # "count"

\* In a list of n elements fast is ahead of slow, and the count is that of the
\* elements passed.
Passing(n) ==
    /\ pc \in {"chase", "looped", "count"} => validity[list] = "valid"
    /\ pc \in {"chase", "looped"} => element_count = 0
    /\ pc = "chase" => /\ slow \in 1 .. n
                       /\ \/ fast = NULL
                          \/ fast \in 1 .. n /\ fast > slow
                          \/ slow = 1 /\ fast = 1
    /\ pc = "looped" => slow = NULL
    /\ pc = "count" => /\ info # NULL
                       /\ element = NULL => element_count = n
                       /\ element # NULL => element \in 1 .. n /\ element_count = element - 1
EndInv == \A n \in Nat : Ends(list, n) => Passing(n)

VerdictInv == /\ info = IF list = "queue" THEN vi ELSE FreelistInfo
              /\ pc \in {"return", "done"} => Right(list, info)
              /\ list = "freelist" => Right("queue", vi)
              /\ pc = "done" => list = "freelist"

IInv == TypeOK /\ Shape /\ LoopInv /\ EndInv /\ VerdictInv

LEMMA ShapeTypes ==
    ASSUME Shape
    PROVE  /\ next \in [Lists -> [Element -> Pointer]]
           /\ head \in [Lists -> Pointer]
<1>1. 1 \in Element
  BY Sizes DEF Element
<1>2. ASSUME NEW f \in Chains PROVE f \in [Element -> Pointer]
  <2>1. PICK n \in Element : \E m \in (1 .. n) \cup {NULL} : f = Chain(n, m)
    BY <1>2 DEF Chains
  <2>2. PICK m \in (1 .. n) \cup {NULL} : f = Chain(n, m)
    BY <2>1
  <2>3. n \in Nat /\ n <= MaxElements /\ m \in Pointer
    BY Sizes, <2>2 DEF Element, Pointer
  <2>4. \A e \in Element : (IF e < n THEN e + 1 ELSE IF e = n THEN m ELSE NULL) \in Pointer
    BY Sizes, <2>3 DEF Element, Pointer
  <2> QED
    BY <2>2, <2>4 DEF Chain
<1> QED
  BY <1>1, <1>2 DEF Shape, Pointer

LEMMA InfoType ==
    ASSUME vi \in Info \cup {NULL}, total \in Element
    PROVE  FreelistInfo \in Info \cup {NULL}
<1>1. CASE vi = NULL
  BY <1>1 DEF FreelistInfo
<1>2. CASE vi # NULL
  <2>1. total - 1 \in Int /\ vi.min_elements \in Int /\ vi.max_elements \in Int
    BY Sizes, <1>2 DEF Element, Info
  <2>2. Wrap(total - 1) \in Int
    BY Sizes, Wrapped, <2>1
  <2>3. /\ Wrap(Wrap(total - 1) - vi.max_elements) \in Word
        /\ Wrap(Wrap(total - 1) - vi.min_elements) \in Word
    BY Wrapped, <2>1, <2>2
  <2> QED
    BY <1>2, <2>3 DEF FreelistInfo, Info
<1> QED
  BY <1>1, <1>2

LEMMA InitInv == Init => IInv
<1> SUFFICES ASSUME Init PROVE IInv
  OBVIOUS
<1>1. Shape
  BY DEF Init, Shape, Lists
<1>2. TypeOK
  <2>1. 0 \in Word
    BY Sizes
  <2> QED
    BY <1>1, <2>1, ShapeTypes DEF Init, TypeOK, Shape, Lists, Pointer
<1>3. LoopInv /\ EndInv /\ VerdictInv
  BY DEF Init, LoopInv, EndInv, VerdictInv, Passing
<1> QED
  BY <1>1, <1>2, <1>3 DEF IInv

LEMMA NextTypes ==
    ASSUME TypeOK, Shape, [Next]_vars
    PROVE  TypeOK' /\ Shape'
<1>1. UNCHANGED structure
  BY DEF Next, vars, QueueValidate, FreelistValidate, Validate, QueryElementCount,
         QueryValidate, Chase, Looped, Count, Bounds, ValidateFreelist, Return
<1>2. Shape'
  BY <1>1 DEF Shape, structure
<1>3. ASSUME NEW p \in Pointer PROVE Step(p) \in Pointer
  BY <1>3 DEF Step, TypeOK, Pointer
<1>4. element_count + 1 \in Int /\ total \in Word /\ 0 \in Word
  BY Sizes DEF TypeOK, Element
<1>5. TypeOK'
  <2> USE <1>1, <1>4 DEF structure, TypeOK
  <2>1. CASE QueryElementCount
    BY <2>1 DEF QueryElementCount
  <2>2. CASE QueryValidate
    BY <2>2 DEF QueryValidate, Validity
  <2>3. CASE Chase
    BY <2>3, <1>3 DEF Chase
  <2>4. CASE Looped
    BY <2>4 DEF Looped, Validity
  <2>5. CASE Count
    BY <2>5, <1>3, Wrapped DEF Count
  <2>6. CASE Bounds
    BY <2>6 DEF Bounds, Validity
  <2>7. CASE ValidateFreelist
    BY <2>7, InfoType DEF ValidateFreelist, Lists
  <2>8. CASE Return
    BY <2>8 DEF Return
  <2>9. CASE UNCHANGED vars
    BY <2>9 DEF vars
  <2> QED
    BY <2>1, <2>2, <2>3, <2>4, <2>5, <2>6, <2>7, <2>8, <2>9
    DEF Next, QueueValidate, FreelistValidate, Validate
<1> QED
  BY <1>2, <1>5

LEMMA StructureStays == [Next]_vars => UNCHANGED structure
BY DEF Next, vars, QueueValidate, FreelistValidate, Validate, QueryElementCount,
       QueryValidate, Chase, Looped, Count, Bounds, ValidateFreelist, Return

LEMMA NextLoopInv ==
    ASSUME IInv, [Next]_vars
    PROVE  LoopInv'
<1>0. UNCHANGED <<next, head>>
  BY StructureStays DEF structure
<1> SUFFICES ASSUME NEW n \in Element, NEW m \in Element, m <= n,
                    head[list'] = 1, next[list'] = Chain(n, m)
             PROVE  /\ pc' = "chase" => slow' \in 1 .. n /\ fast' \in 1 .. n
                    /\ pc' = "looped" => slow' = fast' /\ slow' \in 1 .. n
                    /\ pc' # "count"
  BY <1>0 DEF LoopInv
<1>1. CASE list' = list
  <2>0. /\ pc = "chase" => slow \in 1 .. n /\ fast \in 1 .. n
        /\ pc = "looped" => slow = fast /\ slow \in 1 .. n
        /\ pc # "count"
    BY <1>1 DEF IInv, LoopInv
  <2>1. n \in Nat /\ n >= 1 /\ m \in 1 .. n /\ NULL \notin 1 .. n
    BY Sizes DEF Element
  <2>2. ASSUME NEW p \in 1 .. n PROVE Step(p) \in 1 .. n
    <3>1. p \in Element /\ p # NULL
      BY Sizes, <2>1 DEF Element
    <3>2. Chain(n, m)[p] = IF p < n THEN p + 1 ELSE IF p = n THEN m ELSE NULL
      BY <3>1, Links DEF Pointer
    <3> QED
      BY <1>1, <2>1, <3>1, <3>2 DEF Step
  <2>3. CASE QueryValidate
    BY <1>1, <2>1, <2>3 DEF QueryValidate
  <2>4. CASE Chase
    <3>1. slow' \in 1 .. n /\ fast' \in 1 .. n /\ slow' # NULL
      BY <2>0, <2>1, <2>2, <2>4 DEF Chase
    <3> QED
      BY <2>4, <3>1 DEF Chase
  <2>5. CASE Looped
    BY <2>0, <2>1, <2>5 DEF Looped
  <2>6. CASE Count \/ Bounds
    BY <2>0, <2>6 DEF Count, Bounds
  <2>7. CASE QueryElementCount
    BY <2>7 DEF QueryElementCount
  <2>8. CASE ValidateFreelist \/ Return
    BY <2>8 DEF ValidateFreelist, Return
  <2>9. CASE UNCHANGED vars
    BY <2>0, <2>9 DEF vars
  <2> QED
    BY <2>3, <2>4, <2>5, <2>6, <2>7, <2>8, <2>9
    DEF Next, QueueValidate, FreelistValidate, Validate
<1>2. CASE list' # list
  <2>1. ValidateFreelist
    BY <1>2 DEF Next, vars, QueueValidate, FreelistValidate, Validate, QueryElementCount,
       QueryValidate, Chase, Looped, Count, Bounds, Return
  <2> QED
    BY <2>1 DEF ValidateFreelist
<1> QED
  BY <1>1, <1>2

LEMMA NextEndInv ==
    ASSUME IInv, [Next]_vars
    PROVE  EndInv'
<1>0. UNCHANGED <<next, head>>
  BY StructureStays DEF structure
<1> SUFFICES ASSUME NEW n \in Nat, Ends(list, n)'
             PROVE  Passing(n)'
  BY DEF EndInv
<1>1. CASE list' = list
  <2>0. Ends(list, n)
    BY <1>0, <1>1 DEF Ends
  <2>1. Passing(n)
    BY <2>0 DEF IInv, EndInv
  <2>2. n <= MaxElements /\ NULL \notin 1 .. n /\ MaxElements \in Nat
    BY Sizes, <2>0 DEF Ends, Element
  <2>3. ASSUME NEW p \in 1 .. n PROVE Step(p) = IF p < n THEN p + 1 ELSE NULL
    <3>1. p \in Element /\ p # NULL /\ n \in Element
      BY <2>2 DEF Element
    <3>2. next[list] = Chain(n, NULL)
      BY <2>0, <2>2 DEF Ends
    <3>3. Chain(n, NULL)[p] = IF p < n THEN p + 1 ELSE IF p = n THEN NULL ELSE NULL
      BY <3>1, Links DEF Pointer
    <3> QED
      BY <3>1, <3>2, <3>3 DEF Step
  <2>4. Step(NULL) = NULL
    BY DEF Step
  <2>5. (n = 0 /\ head[list] = NULL) \/ (n >= 1 /\ head[list] = 1 /\ 1 # NULL)
    <3>1. (n = 0 /\ head[list] = NULL) \/ (n \in Element /\ head[list] = 1)
      BY <2>0 DEF Ends
    <3> QED
      BY Sizes, <3>1 DEF Element
  <2>6. validity \in [Lists -> Validity \cup {NULL}] /\ list \in Lists
    BY DEF IInv, TypeOK
  <2>7. CASE QueryValidate
    <3>1. /\ validity'[list] = "valid" /\ element_count' = 0
          /\ slow' = head[list] /\ fast' = head[list]
          /\ pc' = IF head[list] = NULL THEN "looped" ELSE "chase"
      BY <2>6, <2>7 DEF QueryValidate
    <3> QED
      BY <1>1, <2>5, <3>1 DEF Passing
  <2>8. CASE Chase
    <3>1. slow' = Step(slow) /\ fast' = Step(Step(fast)) /\ slow \in 1 .. n
      BY <2>1, <2>8 DEF Chase, Passing
    <3>2. slow' = IF slow < n THEN slow + 1 ELSE NULL
      BY <2>3, <3>1
    <3>3. fast' = NULL \/ (fast' \in 1 .. n /\ slow' # NULL /\ fast' > slow')
      <4>1. PICK between : between = Step(fast) /\ fast' = Step(between)
        BY <3>1
      <4>2. CASE fast = NULL
        <5>1. between = NULL
          BY <2>4, <4>1, <4>2
        <5> QED
          BY <2>4, <4>1, <5>1
      <4>3. CASE fast \in 1 .. n /\ fast >= slow
        <5>1. between = IF fast < n THEN fast + 1 ELSE NULL
          BY <2>3, <4>1, <4>3
        <5>2. CASE fast < n
          <6>1. between = fast + 1 /\ fast + 1 \in 1 .. n
            BY <4>3, <5>1, <5>2
          <6>2. Step(between) = IF between < n THEN between + 1 ELSE NULL
            BY <2>3, <6>1
          <6>3. fast' = NULL \/ (fast' = fast + 2 /\ fast + 2 \in 1 .. n)
            BY <4>1, <4>3, <6>1, <6>2
          <6>4. slow' = slow + 1 /\ slow + 1 \in 1 .. n
            <7>1. slow < n /\ slow \in Nat /\ n \in Nat
              BY <3>1, <4>3, <5>2
            <7> QED
              BY <3>2, <7>1
          <6> QED
            BY <2>2, <3>1, <4>3, <6>3, <6>4
        <5>3. CASE ~(fast < n)
          BY <2>4, <4>1, <5>1, <5>3
        <5> QED
          BY <5>2, <5>3
      <4> QED
        BY <2>1, <2>8, <3>1, <4>2, <4>3 DEF Chase, Passing
    <3>4. slow' # NULL => slow' \in 1 .. n /\ slow' # fast'
      BY <2>2, <3>1, <3>2, <3>3
    <3>5. /\ pc' = IF slow' # NULL /\ fast' # slow' THEN "chase" ELSE "looped"
          /\ validity' = validity /\ element_count' = element_count /\ pc = "chase"
      BY <2>8 DEF Chase
    <3> QED
      BY <1>1, <2>1, <3>3, <3>4, <3>5 DEF Passing
  <2>9. CASE Looped
    <3>1. slow = NULL /\ pc = "looped"
      BY <2>1, <2>9 DEF Looped, Passing
    <3>2. /\ pc' = IF info # NULL THEN "count" ELSE "return"
          /\ element' = head[list] /\ info' = info /\ element_count' = element_count
      BY <2>9, <3>1 DEF Looped
    <3>3. validity'[list] = validity[list]
      BY <2>6, <2>9, <3>1 DEF Looped
    <3> QED
      BY <1>1, <2>1, <2>5, <3>1, <3>2, <3>3 DEF Passing
  <2>10. CASE Count
    <3>1. /\ pc = "count" /\ pc' = "count" /\ element \in 1 .. n
          /\ element_count = element - 1 /\ info' = info /\ validity' = validity
          /\ element_count' = Wrap(element_count + 1) /\ element' = Step(element)
      BY <2>1, <2>10 DEF Count, Passing
    <3>2. element' = IF element < n THEN element + 1 ELSE NULL
      BY <2>3, <3>1
    <3>3. element_count + 1 \in Word /\ element_count + 1 = element
      BY Sizes, <2>2, <3>1
    <3>4. element_count' = element
      BY Sizes, Wrapped, <3>1, <3>3
    <3> QED
      BY <1>1, <2>1, <2>2, <3>1, <3>2, <3>4 DEF Passing
  <2>11. CASE Bounds \/ QueryElementCount \/ ValidateFreelist \/ Return
    <3>1. pc' \notin {"chase", "looped", "count"}
      BY <2>11 DEF Bounds, QueryElementCount, ValidateFreelist, Return
    <3> QED
      BY <3>1 DEF Passing
  <2>12. CASE UNCHANGED vars
    BY <1>1, <2>1, <2>12 DEF vars, Passing
  <2> QED
    BY <2>7, <2>8, <2>9, <2>10, <2>11, <2>12
    DEF Next, QueueValidate, FreelistValidate, Validate
<1>2. CASE list' # list
  <2>1. ValidateFreelist
    BY <1>2 DEF Next, vars, QueueValidate, FreelistValidate, Validate, QueryElementCount,
       QueryValidate, Chase, Looped, Count, Bounds, Return
  <2> QED
    BY <2>1 DEF ValidateFreelist, Passing
<1> QED
  BY <1>1, <1>2

LEMMA NextVerdictInv ==
    ASSUME IInv, [Next]_vars
    PROVE  VerdictInv'
<1>0. UNCHANGED structure
  BY StructureStays
<1>1. /\ validity \in [Lists -> Validity \cup {NULL}] /\ list \in Lists
      /\ info = IF list = "queue" THEN vi ELSE FreelistInfo
      /\ list = "freelist" => Right("queue", vi)
      /\ pc \in {"return", "done"} => Right(list, info)
      /\ pc = "done" => list = "freelist"
  BY DEF IInv, TypeOK, VerdictInv
<1>2. FreelistInfo' = FreelistInfo /\ vi' = vi
  BY <1>0 DEF structure, FreelistInfo
<1>3. /\ \A l \in Lists : Turns(l)' = Turns(l)
      /\ \A l \in Lists, n \in Nat : Ends(l, n)' = Ends(l, n)
  BY <1>0 DEF structure, Turns, Ends
<1>4. ASSUME validity'["queue"] = validity["queue"], Right("queue", vi)
      PROVE  Right("queue", vi)'
  BY <1>2, <1>3, <1>4 DEF Right, Lists
<1>5. ASSUME list' = list, info' = info,
             list = "freelist" => validity'["queue"] = validity["queue"],
             pc' \in {"return", "done"} => Right(list, info)', pc' = "done" => list = "freelist"
      PROVE  VerdictInv'
  BY <1>1, <1>2, <1>4, <1>5 DEF VerdictInv
<1>6. ASSUME Turns(list) PROVE pc # "count" /\ (pc = "looped" => slow = fast /\ slow # NULL)
  <2>1. PICK n \in Element, m \in Element : m <= n /\ next[list] = Chain(n, m)
    BY <1>6 DEF Turns
  <2>2. NULL \notin 1 .. n
    BY Sizes DEF Element
  <2> QED
    BY <1>6, <2>1, <2>2 DEF IInv, LoopInv, Turns
<1>7. ASSUME NEW n \in Nat, Ends(list, n) PROVE Passing(n)
  BY <1>7 DEF IInv, EndInv
<1>8. ASSUME list' = list, info' = info, Turns(list) => validity'[list] = "loop",
             \A n \in Nat : Ends(list, n) => validity'[list] = Judgement(list, info, n)
      PROVE  Right(list, info)'
  <2>1. \A n \in Nat : Judgement(list, info, n)' = Judgement(list, info, n)
    BY <1>8 DEF Judgement, Judged
  <2>2. Turns(list)' = Turns(list) /\ \A n \in Nat : Ends(list, n)' = Ends(list, n)
    BY <1>0, <1>8 DEF structure, Turns, Ends
  <2> QED
    BY <1>8, <2>1, <2>2 DEF Right
<1>9. CASE QueryElementCount
  BY <1>5, <1>9 DEF QueryElementCount
<1>10. CASE QueryValidate
  BY <1>1, <1>5, <1>10 DEF QueryValidate
<1>11. CASE Chase
  BY <1>5, <1>11 DEF Chase
<1>12. CASE Looped
  <2> DEFINE loop == fast # NULL /\ slow # NULL /\ fast = slow
  <2>1. /\ pc = "looped" /\ list' = list /\ info' = info
        /\ validity' = [validity EXCEPT ![list] = IF loop THEN "loop" ELSE @]
        /\ pc' = IF ~loop /\ info # NULL THEN "count" ELSE "return"
    BY <1>12 DEF Looped
  <2>2. validity'[list] = IF loop THEN "loop" ELSE validity[list]
    BY <1>1, <2>1
  <2>3. Turns(list) => validity'[list] = "loop"
    BY <1>6, <2>1, <2>2
  <2>4. ASSUME NEW n \in Nat, Ends(list, n), info = NULL
        PROVE  validity'[list] = Judgement(list, info, n)
    <3>1. slow = NULL /\ validity[list] = "valid"
      BY <1>7, <2>1, <2>4 DEF Passing
    <3> QED
      BY <2>2, <2>4, <3>1 DEF Judgement
  <2>5. ASSUME loop, NEW n \in Nat PROVE ~Ends(list, n)
    BY <1>7, <2>1, <2>5 DEF Passing
  <2>6. pc' = "return" => Right(list, info)'
    BY <1>8, <2>1, <2>3, <2>4, <2>5
  <2>7. list = "freelist" => validity'["queue"] = validity["queue"]
    BY <1>1, <2>1 DEF Lists
  <2> QED
    BY <1>5, <2>1, <2>6, <2>7
<1>13. CASE Count
  BY <1>5, <1>13 DEF Count
<1>14. CASE Bounds
  <2>1. /\ pc = "count" /\ list' = list /\ info' = info /\ element = NULL /\ pc' = "return"
        /\ validity' = [validity EXCEPT ![list] =
             IF Counted > info.max_elements THEN "additional"
             ELSE IF Counted < info.min_elements THEN "missing" ELSE @]
    BY <1>14 DEF Bounds
  <2>2. validity'[list] = IF Counted > info.max_elements THEN "additional"
                          ELSE IF Counted < info.min_elements THEN "missing" ELSE validity[list]
    BY <1>1, <2>1
  <2>3. ~Turns(list)
    BY <1>6, <2>1
  <2>4. ASSUME NEW n \in Nat, Ends(list, n)
        PROVE  validity'[list] = Judgement(list, info, n)
    <3>1. info # NULL /\ element_count = n /\ validity[list] = "valid"
      BY <1>7, <2>1, <2>4 DEF Passing
    <3>2. Counted = IF list = "queue" THEN n - 1 ELSE n
      <4>1. CASE list = "queue"
        <5>1. n \in Element
          <6>1. head[list] = 1 /\ 1 # NULL
            BY Sizes, <4>1 DEF IInv, Shape, Element
          <6> QED
            BY <2>4, <6>1 DEF Ends
        <5>2. n - 1 \in Word /\ n - 1 \in Int
          BY Sizes, <5>1 DEF Element
        <5> QED
          BY <3>1, <4>1, <5>2, Wrapped DEF Counted
      <4>2. CASE list # "queue"
        BY <3>1, <4>2 DEF Counted
      <4> QED
        BY <4>1, <4>2
    <3> QED
      BY <2>2, <3>1, <3>2 DEF Judgement, Judged
  <2>5. Right(list, info)'
    BY <1>8, <2>1, <2>3, <2>4
  <2>6. list = "freelist" => validity'["queue"] = validity["queue"]
    BY <1>1, <2>1 DEF Lists
  <2> QED
    BY <1>5, <2>1, <2>5, <2>6
<1>15. CASE ValidateFreelist
  <2>1. /\ pc = "return" /\ list = "queue" /\ list' = "freelist" /\ info' = FreelistInfo
        /\ pc' = "call" /\ validity' = validity
    BY <1>15 DEF ValidateFreelist
  <2>2. Right("queue", vi)'
    BY <1>1, <1>4, <2>1
  <2> QED
    BY <1>2, <2>1, <2>2 DEF VerdictInv
<1>16. CASE Return \/ UNCHANGED vars
  <2>1. /\ list' = list /\ info' = info /\ validity' = validity
        /\ pc' \in {"return", "done"} => pc \in {"return", "done"}
        /\ pc' = "done" => list = "freelist"
    BY <1>1, <1>16 DEF Return, vars
  <2>2. pc \in {"return", "done"} => Right(list, info)'
    BY <1>1, <1>8, <2>1 DEF Right
  <2> QED
    BY <1>5, <2>1, <2>2
<1> QED
  BY <1>9, <1>10, <1>11, <1>12, <1>13, <1>14, <1>15, <1>16
  DEF Next, QueueValidate, FreelistValidate, Validate

\* The inductive invariant holds in every reachable state.
THEOREM Invariance == Spec => []IInv
<1>1. IInv /\ [Next]_vars => IInv'
  BY NextTypes, NextLoopInv, NextEndInv, NextVerdictInv DEF IInv
<1> QED
  BY InitInv, <1>1, PTL DEF Spec

(***************************************************************************)
(* queue_query and freelist_query keep their variables within their types, *)
(* the wrapped bounds and the count of elements included.                  *)
(***************************************************************************)
THEOREM QueryTypes == Spec => []TypeOK
<1>1. IInv => TypeOK
  BY DEF IInv
<1> QED
  BY <1>1, Invariance, PTL

\* A right verdict, in terms of the reference definitions
LEMMA ListJudged ==
    ASSUME Shape, NEW l \in Lists, NEW i, Right(l, i)
    PROVE  validity[l] = IF HasLoop(l) THEN "loop" ELSE Judgement(l, i, Length(l))
<1>1. CASE Turns(l)
  BY <1>1, TurnsHasLoop DEF Right
<1>2. ASSUME NEW n \in Nat, Ends(l, n)
      PROVE  validity[l] = IF HasLoop(l) THEN "loop" ELSE Judgement(l, i, Length(l))
  BY <1>2, EndsLength DEF Right
<1> QED
  BY <1>1, <1>2, EndsOrTurns

(***************************************************************************)
(* For lists of any length, with or without a loop wherever it begins:     *)
(* queue_internal_validate reports a loop exactly if there is one, and     *)
(* otherwise judges the number of elements but the dummy by the bounds.    *)
(***************************************************************************)
THEOREM QueueVerdictRight == Spec => []QueueVerdict
<1>1. ASSUME IInv, pc = "done" PROVE QueueVerdict
  <2>1. Shape /\ Right("queue", vi)
    BY <1>1 DEF IInv, VerdictInv
  <2>2. validity["queue"] = IF HasLoop("queue") THEN "loop"
                            ELSE Judgement("queue", vi, Length("queue"))
    BY <2>1, ListJudged DEF Lists
  <2> QED
    BY <2>2 DEF QueueVerdict, Judgement
<1>2. IInv => QueueVerdict
  BY <1>1 DEF QueueVerdict
<1> QED
  BY <1>2, Invariance, PTL

(***************************************************************************)
(* Likewise freelist_internal_validate, by the bounds computed in unsigned *)
(* words of any width, as long as the caller's leave any elements.         *)
(***************************************************************************)
THEOREM FreelistVerdictRight == Spec => []FreelistVerdict
<1>1. ASSUME IInv, pc = "done" PROVE FreelistVerdict
  <2>1. Shape /\ Right("freelist", FreelistInfo) /\ TypeOK
    BY <1>1 DEF IInv, VerdictInv
  <2>2. validity["freelist"] = IF HasLoop("freelist") THEN "loop"
                               ELSE Judgement("freelist", FreelistInfo, Length("freelist"))
    BY <2>1, ListJudged DEF Lists
  <2>3. CASE vi = NULL
    BY <2>2, <2>3 DEF FreelistVerdict, Judgement, FreelistInfo
  <2>4. CASE vi # NULL /\ vi.min_elements <= total - 1 /\ vi.max_elements <= total - 1
    <3>1. /\ total - 1 \in Word /\ total - 1 \in Int
          /\ vi.min_elements \in Word /\ vi.max_elements \in Word
      BY Sizes, <2>1, <2>4 DEF TypeOK, Element, Info
    <3>2. /\ total - 1 - vi.max_elements \in Word /\ total - 1 - vi.max_elements \in Int
          /\ total - 1 - vi.min_elements \in Word /\ total - 1 - vi.min_elements \in Int
      BY Sizes, <2>4, <3>1
    <3>3. FreelistInfo = [min_elements |-> total - 1 - vi.max_elements,
                          max_elements |-> total - 1 - vi.min_elements]
      BY Wrapped, <2>4, <3>1, <3>2 DEF FreelistInfo
    <3>4. FreelistInfo # NULL
      BY Sizes, ValidateAssumption, <3>2, <3>3
    <3> QED
      BY <2>2, <2>4, <3>3, <3>4 DEF FreelistVerdict, Judgement
  <2> QED
    BY <2>2, <2>3, <2>4 DEF FreelistVerdict
<1>2. IInv => FreelistVerdict
  BY <1>1 DEF FreelistVerdict
<1> QED
  BY <1>2, Invariance, PTL

-----------------------------------------------------------------------------
(* abstraction_dcas on ARM *)

\* Until it stores, a call has stored_flag 1, and it stores what it compared.
FlagInv ==
    \A t \in Threads :
        /\ at[t] \in {"ldrexd", "teq", "strexd"} => stored_flag[t] = 1
        /\ at[t] = "strexd" => original[t] = compare[t]

DcasInv == DcasTypeOK /\ FlagInv /\ ReservationValid

-----------------------------------------------------------------------------
LEMMA InitDcasInv == DcasInit => DcasInv
BY DcasAssumption DEF DcasInit, DcasInv, DcasTypeOK, FlagInv, ReservationValid

LEMMA NextTypeOK == DcasTypeOK /\ [DcasNext]_dcas_vars => DcasTypeOK'
<1> SUFFICES ASSUME DcasTypeOK, [DcasNext]_dcas_vars PROVE DcasTypeOK'
  OBVIOUS
<1> USE DEF DcasTypeOK, Goto
<1>1. ASSUME NEW t \in Threads, Dcas(t) PROVE DcasTypeOK'
  <2>1. CASE Load(t) BY <2>1 DEF Load
  <2>2. CASE Ldrexd(t) BY <2>2 DEF Ldrexd
  <2>3. CASE Teq(t) BY <2>3 DEF Teq
  <2>4. CASE Strexd(t) BY <2>4 DEF Strexd
  <2>5. CASE StrexdFails(t) BY <2>5 DEF StrexdFails
  <2>6. CASE Retry(t) BY <2>6 DEF Retry
  <2>7. CASE Exit(t) BY <2>7 DEF Exit
  <2> QED BY <1>1, <2>1, <2>2, <2>3, <2>4, <2>5, <2>6, <2>7 DEF Dcas
<1>2. ASSUME NEW t \in Threads, LoseReservation(t) PROVE DcasTypeOK'
  BY <1>2 DEF LoseReservation
<1>3. CASE UNCHANGED dcas_vars
  BY <1>3 DEF dcas_vars
<1> QED
  BY <1>1, <1>2, <1>3 DEF DcasNext

LEMMA NextFlagInv == DcasTypeOK /\ FlagInv /\ [DcasNext]_dcas_vars => FlagInv'
<1> SUFFICES ASSUME DcasTypeOK, FlagInv, [DcasNext]_dcas_vars PROVE FlagInv'
  OBVIOUS
<1> USE DEF DcasTypeOK, FlagInv, Goto
<1>1. ASSUME NEW t \in Threads, Dcas(t) PROVE FlagInv'
  <2>1. CASE Load(t) BY <2>1 DEF Load
  <2>2. CASE Ldrexd(t) BY <2>2 DEF Ldrexd
  <2>3. CASE Teq(t) BY <2>3 DEF Teq
  <2>4. CASE Strexd(t) BY <2>4 DEF Strexd
  <2>5. CASE StrexdFails(t) BY <2>5 DEF StrexdFails
  <2>6. CASE Retry(t) BY <2>6 DEF Retry
  <2>7. CASE Exit(t) BY <2>7 DEF Exit
  <2> QED BY <1>1, <2>1, <2>2, <2>3, <2>4, <2>5, <2>6, <2>7 DEF Dcas
<1>2. ASSUME NEW t \in Threads, LoseReservation(t) PROVE FlagInv'
  BY <1>2 DEF LoseReservation
<1>3. CASE UNCHANGED dcas_vars
  BY <1>3 DEF dcas_vars
<1> QED
  BY <1>1, <1>2, <1>3 DEF DcasNext

LEMMA NextReservationValid ==
    DcasTypeOK /\ ReservationValid /\ [DcasNext]_dcas_vars => ReservationValid'
<1> SUFFICES ASSUME DcasTypeOK, ReservationValid, [DcasNext]_dcas_vars
             PROVE  ReservationValid'
  OBVIOUS
<1> USE DEF DcasTypeOK, ReservationValid, Goto
<1>1. ASSUME NEW t \in Threads, Dcas(t) PROVE ReservationValid'
  <2>1. CASE Load(t) BY <2>1 DEF Load
  <2>2. CASE Ldrexd(t) BY <2>2 DEF Ldrexd
  <2>3. CASE Teq(t) BY <2>3 DEF Teq
  <2>4. CASE Strexd(t) BY <2>4 DEF Strexd
  <2>5. CASE StrexdFails(t) BY <2>5 DEF StrexdFails
  <2>6. CASE Retry(t) BY <2>6 DEF Retry
  <2>7. CASE Exit(t) BY <2>7 DEF Exit
  <2> QED BY <1>1, <2>1, <2>2, <2>3, <2>4, <2>5, <2>6, <2>7 DEF Dcas
<1>2. ASSUME NEW t \in Threads, LoseReservation(t) PROVE ReservationValid'
  BY <1>2 DEF LoseReservation
<1>3. CASE UNCHANGED dcas_vars
  BY <1>3 DEF dcas_vars
<1> QED
  BY <1>1, <1>2, <1>3 DEF DcasNext

\* The inductive invariant holds in every reachable state.
THEOREM DcasInvariant == DcasSpec => []DcasInv
<1>1. DcasInv /\ [DcasNext]_dcas_vars => DcasInv'
  BY NextTypeOK, NextFlagInv, NextReservationValid DEF DcasInv
<1> QED
  BY InitDcasInv, <1>1, PTL DEF DcasSpec

(***************************************************************************)
(* While strexd would store, the destination holds what was compared, for  *)
(* any number of threads and any values.                                   *)
(***************************************************************************)
THEOREM DcasReservation == DcasSpec => []ReservationValid
<1>1. DcasInv => ReservationValid
  BY DEF DcasInv
<1> QED
  BY DcasInvariant, <1>1, PTL

-----------------------------------------------------------------------------
(* LfdsDcas implements AbstractDcas *)

\* Only the abstract state of the thread that steps changes.
LEMMA OthersStay ==
    ASSUME NEW u \in Threads,
           at'[u] = at[u], original'[u] = original[u],
           compare'[u] = compare[u], stored_flag'[u] = stored_flag[u]
    PROVE  StatusOf(u)' = StatusOf(u) /\ ResultOf(u)' = ResultOf(u)
BY DEF StatusOf, ResultOf, Decided

\* Every instruction is a step of the compare-and-swap, or none.
LEMMA DcasSimulates ==
    DcasInv /\ [DcasNext]_dcas_vars => [Abstract!Next]_(Abstract!vars)
<1> SUFFICES ASSUME DcasInv, [DcasNext]_dcas_vars PROVE [Abstract!Next]_(Abstract!vars)
  OBVIOUS
<1> USE DEF DcasInv, DcasTypeOK, Goto
<1> DEFINE status == [t \in Threads |-> StatusOf(t)]
           result == [t \in Threads |-> ResultOf(t)]
           None == [swapped |-> FALSE, original |-> "none"]
\* An instruction that neither starts, decides nor ends the call.
<1>a. ASSUME NEW t \in Threads, StatusOf(t)' = StatusOf(t),
             ResultOf(t)' = ResultOf(t),
             \A u \in Threads \ {t} : StatusOf(u)' = StatusOf(u)
                                      /\ ResultOf(u)' = ResultOf(u),
             UNCHANGED <<destination, compare, exchange>>
      PROVE  UNCHANGED Abstract!vars
  BY <1>a DEF Abstract!vars
<1>1. ASSUME NEW t \in Threads, Dcas(t)
      PROVE  Abstract!Next \/ UNCHANGED Abstract!vars
  <2>1. CASE Load(t)
    <3>1. \A u \in Threads \ {t} : StatusOf(u)' = StatusOf(u)
                                   /\ ResultOf(u)' = ResultOf(u)
      BY <2>1, OthersStay DEF Load
    <3>2. /\ StatusOf(t) = "idle" /\ StatusOf(t)' = "called"
          /\ ResultOf(t)' = ResultOf(t)
      BY <2>1 DEF Load, StatusOf, ResultOf, Decided
    <3>3. Abstract!Call(t)
      BY <2>1, <3>1, <3>2 DEF Load, Abstract!Call
    <3> QED
      BY <3>3 DEF Abstract!Next
  <2>2. CASE Ldrexd(t)
    <3>1. \A u \in Threads \ {t} : StatusOf(u)' = StatusOf(u)
                                   /\ ResultOf(u)' = ResultOf(u)
      BY <2>2, OthersStay DEF Ldrexd
    <3>2. CASE destination = compare[t]
      <4>1. StatusOf(t)' = StatusOf(t) /\ ResultOf(t)' = ResultOf(t)
        BY <2>2, <3>2 DEF Ldrexd, StatusOf, ResultOf, Decided
      <4> QED
        BY <1>a, <2>2, <3>1, <4>1 DEF Ldrexd
    <3>3. CASE destination # compare[t]
      <4>1. StatusOf(t) = "called" /\ StatusOf(t)' = "done"
        BY <2>2, <3>3 DEF Ldrexd, StatusOf, Decided
      <4>2. ResultOf(t)' = [swapped |-> destination = compare[t],
                            original |-> destination]
        BY <2>2, <3>3 DEF Ldrexd, ResultOf, Decided, FlagInv
      <4>3. Abstract!Dcas(t)
        BY <2>2, <3>1, <3>3, <4>1, <4>2 DEF Ldrexd, Abstract!Dcas
      <4> QED
        BY <4>3 DEF Abstract!Next
    <3> QED
      BY <3>2, <3>3
  <2>3. CASE Teq(t)
    <3>1. \A u \in Threads \ {t} : StatusOf(u)' = StatusOf(u)
                                   /\ ResultOf(u)' = ResultOf(u)
      BY <2>3, OthersStay DEF Teq
    <3>2. StatusOf(t)' = StatusOf(t) /\ ResultOf(t)' = ResultOf(t)
      BY <2>3 DEF Teq, StatusOf, ResultOf, Decided
    <3> QED
      BY <1>a, <2>3, <3>1, <3>2 DEF Teq
  <2>4. CASE Strexd(t)
    <3>1. \A u \in Threads \ {t} : StatusOf(u)' = StatusOf(u)
                                   /\ ResultOf(u)' = ResultOf(u)
      BY <2>4, OthersStay DEF Strexd
    <3>2. destination = compare[t] /\ original[t] = destination
      BY <2>4 DEF Strexd, ReservationValid, FlagInv
    <3>3. StatusOf(t) = "called" /\ StatusOf(t)' = "done"
      BY <2>4 DEF Strexd, StatusOf, Decided
    <3>4. ResultOf(t)' = [swapped |-> destination = compare[t],
                          original |-> destination]
      BY <2>4, <3>2 DEF Strexd, ResultOf, Decided
    <3>5. Abstract!Dcas(t)
      BY <2>4, <3>1, <3>2, <3>3, <3>4 DEF Strexd, Abstract!Dcas
    <3> QED
      BY <3>5 DEF Abstract!Next
  <2>5. CASE StrexdFails(t)
    <3>1. \A u \in Threads \ {t} : StatusOf(u)' = StatusOf(u)
                                   /\ ResultOf(u)' = ResultOf(u)
      BY <2>5, OthersStay DEF StrexdFails
    <3>2. StatusOf(t)' = StatusOf(t) /\ ResultOf(t)' = ResultOf(t)
      BY <2>5 DEF StrexdFails, StatusOf, ResultOf, Decided
    <3> QED
      BY <1>a, <2>5, <3>1, <3>2 DEF StrexdFails
  <2>6. CASE Retry(t)
    <3>1. \A u \in Threads \ {t} : StatusOf(u)' = StatusOf(u)
                                   /\ ResultOf(u)' = ResultOf(u)
      BY <2>6, OthersStay DEF Retry
    <3>2. StatusOf(t)' = StatusOf(t) /\ ResultOf(t)' = ResultOf(t)
      BY <2>6 DEF Retry, StatusOf, ResultOf, Decided
    <3> QED
      BY <1>a, <2>6, <3>1, <3>2 DEF Retry
  <2>7. CASE Exit(t)
    <3>1. \A u \in Threads \ {t} : StatusOf(u)' = StatusOf(u)
                                   /\ ResultOf(u)' = ResultOf(u)
      BY <2>7, OthersStay DEF Exit
    <3>2. StatusOf(t) = "done" /\ StatusOf(t)' = "idle" /\ ResultOf(t)' = None
      BY <2>7 DEF Exit, StatusOf, ResultOf, Decided
    <3>3. Abstract!Return(t)
      BY <2>7, <3>1, <3>2 DEF Exit, Abstract!Return, Abstract!None
    <3> QED
      BY <3>3 DEF Abstract!Next
  <2> QED
    BY <1>1, <2>1, <2>2, <2>3, <2>4, <2>5, <2>6, <2>7 DEF Dcas
<1>2. ASSUME NEW t \in Threads, LoseReservation(t)
      PROVE  UNCHANGED Abstract!vars
  BY <1>2 DEF LoseReservation, Abstract!vars, StatusOf, ResultOf, Decided
<1>3. CASE UNCHANGED dcas_vars
  BY <1>3 DEF dcas_vars, Abstract!vars, StatusOf, ResultOf, Decided
<1> QED
  BY <1>1, <1>2, <1>3 DEF DcasNext

(***************************************************************************)
(* abstraction_dcas on ARM is one atomic compare-and-swap, for any number  *)
(* of threads and any values.                                              *)
(***************************************************************************)
THEOREM DcasImplementsAtomic == DcasSpec => ImplementsDcas
<1>1. DcasInit => Abstract!Init
  BY DcasAssumption DEF DcasInit, Abstract!Init, StatusOf, ResultOf, Decided,
     Abstract!None
<1> QED
  BY <1>1, DcasInvariant, DcasSimulates, PTL DEF DcasSpec, ImplementsDcas,
     Abstract!Spec
=============================================================================
