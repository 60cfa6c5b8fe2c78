-------------------------- MODULE JacksLatchProofs --------------------------
(***************************************************************************)
(* Proofs about JacksLatch, for any number of getters and posters.         *)
(***************************************************************************)
EXTENDS JacksLatch, TLAPS

\* The initial state satisfies the inductive invariant.
LEMMA InitIInv == Init => IInv
<1> SUFFICES ASSUME Init PROVE IInv
  OBVIOUS
<1>1. TypeOK
  BY DEF Init, TypeOK, Threads, NOT_POSTED, POSTED
<1>2. LockInv
  BY DEF Init, LockInv, Critical
<1>3. TakeInv
  BY DEF Init, TakeInv, Threads
<1>4. NoLostWakeup
  BY DEF Init, NoLostWakeup
<1> QED
  BY <1>1, <1>2, <1>3, <1>4 DEF IInv

\* Every step keeps the types.
LEMMA NextTypeOK == TypeOK /\ [Next]_vars => TypeOK'
<1> SUFFICES ASSUME TypeOK, [Next]_vars PROVE TypeOK'
  OBVIOUS
<1> USE DEF TypeOK, Threads, NOT_POSTED, POSTED, GetSteps, PostSteps, Goto,
            Acquire, Release, Signal
<1>1. ASSUME NEW t \in Getters, Get(t) PROVE TypeOK'
  <2>0. t \in Getters /\ t \notin Posters
    BY <1>1, ThreadsAssumption
  <2>1. CASE GetCall(t)
    BY <2>0, <2>1 DEF GetCall
  <2>2. CASE GetLock(t)
    BY <2>0, <2>2 DEF GetLock
  <2>3. CASE GetWait(t)
    BY <2>0, <2>3 DEF GetWait
  <2>4. CASE SpuriousWakeup(t)
    BY <2>0, <2>4 DEF SpuriousWakeup
  <2>5. CASE GetRelock(t)
    BY <2>0, <2>5 DEF GetRelock
  <2>6. CASE GetTest(t)
    BY <2>0, <2>6 DEF GetTest
  <2>7. CASE GetTake(t)
    BY <2>0, <2>7 DEF GetTake
  <2>8. CASE GetSignal(t)
    BY <2>0, <2>8 DEF GetSignal
  <2>9. CASE GetUnlock(t)
    BY <2>0, <2>9 DEF GetUnlock
  <2> QED
    BY <1>1, <2>1, <2>2, <2>3, <2>4, <2>5, <2>6, <2>7, <2>8, <2>9 DEF Get
<1>2. ASSUME NEW t \in Posters, Post(t) PROVE TypeOK'
  <2>0. t \in Posters /\ t \notin Getters
    BY <1>2, ThreadsAssumption
  <2>1. CASE PostCall(t)
    BY <2>0, <2>1 DEF PostCall
  <2>2. CASE PostLock(t)
    BY <2>0, <2>2 DEF PostLock
  <2>3. CASE PostSet(t)
    BY <2>0, <2>3 DEF PostSet
  <2>4. CASE PostSignal(t)
    BY <2>0, <2>4 DEF PostSignal
  <2>5. CASE PostUnlock(t)
    BY <2>0, <2>5 DEF PostUnlock
  <2> QED
    BY <1>2, <2>1, <2>2, <2>3, <2>4, <2>5 DEF Post
<1>3. CASE UNCHANGED vars
  BY <1>3 DEF vars
<1> QED
  BY <1>1, <1>2, <1>3 DEF Next

\* The mutex keeps the bodies of get and post apart.
LEMMA NextLockInv == TypeOK /\ LockInv /\ [Next]_vars => LockInv'
<1> SUFFICES ASSUME TypeOK, LockInv, [Next]_vars PROVE LockInv'
  OBVIOUS
<1> USE ThreadsAssumption DEF TypeOK, LockInv, Critical, Threads, Goto, Acquire,
            Release
<1>1. ASSUME NEW t \in Getters, Get(t) PROVE LockInv'
  <2>1. CASE GetCall(t)
    BY <2>1 DEF GetCall
  <2>2. CASE GetLock(t)
    BY <2>2 DEF GetLock
  <2>3. CASE GetWait(t)
    BY <2>3 DEF GetWait
  <2>4. CASE SpuriousWakeup(t)
    BY <2>4 DEF SpuriousWakeup
  <2>5. CASE GetRelock(t)
    BY <2>5 DEF GetRelock
  <2>6. CASE GetTest(t)
    BY <2>6 DEF GetTest
  <2>7. CASE GetTake(t)
    BY <2>7 DEF GetTake
  <2>8. CASE GetSignal(t)
    BY <2>8 DEF GetSignal
  <2>9. CASE GetUnlock(t)
    BY <2>9 DEF GetUnlock
  <2> QED
    BY <1>1, <2>1, <2>2, <2>3, <2>4, <2>5, <2>6, <2>7, <2>8, <2>9 DEF Get
<1>2. ASSUME NEW t \in Posters, Post(t) PROVE LockInv'
  <2>1. CASE PostCall(t)
    BY <2>1 DEF PostCall
  <2>2. CASE PostLock(t)
    BY <2>2 DEF PostLock
  <2>3. CASE PostSet(t)
    BY <2>3 DEF PostSet
  <2>4. CASE PostSignal(t)
    BY <2>4 DEF PostSignal
  <2>5. CASE PostUnlock(t)
    BY <2>5 DEF PostUnlock
  <2> QED
    BY <1>2, <2>1, <2>2, <2>3, <2>4, <2>5 DEF Post
<1>3. CASE UNCHANGED vars
  BY <1>3 DEF vars
<1> QED
  BY <1>1, <1>2, <1>3 DEF Next

\* Only the holder of the mutex writes the status, so that the post a getter
\* has tested is still there when the getter takes it.
LEMMA NextTakeInv ==
    TypeOK /\ LockInv /\ TakeInv /\ [Next]_vars => TakeInv'
<1> SUFFICES ASSUME TypeOK, LockInv, TakeInv, [Next]_vars PROVE TakeInv'
  OBVIOUS
<1> USE ThreadsAssumption DEF TypeOK, TakeInv, Threads, Goto, NOT_POSTED, POSTED
<1>1. ASSUME NEW t \in Getters, Get(t) PROVE TakeInv'
  <2>1. CASE GetTake(t)
    <3>1. \A u \in Getters : pc[u] = "get_take" => u = t
      BY <2>1 DEF GetTake, LockInv, Critical
    <3> QED
      BY <2>1, <3>1 DEF GetTake
  <2>2. CASE GetTest(t)
    BY <2>2 DEF GetTest
  <2>3. CASE \/ GetCall(t) \/ GetLock(t) \/ GetWait(t) \/ SpuriousWakeup(t)
             \/ GetRelock(t) \/ GetSignal(t) \/ GetUnlock(t)
    BY <2>3 DEF GetCall, GetLock, GetWait, SpuriousWakeup, GetRelock, GetSignal,
                GetUnlock
  <2> QED
    BY <1>1, <2>1, <2>2, <2>3 DEF Get
<1>2. ASSUME NEW t \in Posters, Post(t) PROVE TakeInv'
  BY <1>2 DEF Post, PostCall, PostLock, PostSet, PostSignal, PostUnlock
<1>3. CASE UNCHANGED vars
  BY <1>3 DEF vars
<1> QED
  BY <1>1, <1>2, <1>3 DEF Next

\* A signal leaves an awake getter inside pthread_cond_wait, if any was asleep.
LEMMA SignalWakes ==
    ASSUME TypeOK, Signal, sleepers # {}
    PROVE  \E s \in Getters : s \notin sleepers' /\ pc[s] = "get_sleep"
BY DEF TypeOK, Signal

\* No step loses a wake-up.
LEMMA NextNoLostWakeup ==
    TypeOK /\ LockInv /\ NoLostWakeup /\ [Next]_vars => NoLostWakeup'
<1> SUFFICES ASSUME TypeOK, LockInv, NoLostWakeup, [Next]_vars
             PROVE  NoLostWakeup'
  OBVIOUS
<1> USE ThreadsAssumption DEF TypeOK, NoLostWakeup, Threads, Goto, NOT_POSTED, POSTED
<1>1. ASSUME NEW t \in Getters, Get(t) PROVE NoLostWakeup'
  <2>1. CASE GetCall(t)
    BY <2>1 DEF GetCall
  <2>2. CASE GetLock(t)
    BY <2>2 DEF GetLock
  <2>3. CASE GetWait(t)
    BY <2>3 DEF GetWait
  <2>4. CASE SpuriousWakeup(t)
    BY <2>4 DEF SpuriousWakeup
  <2>5. CASE GetRelock(t)
    BY <2>5 DEF GetRelock
  <2>6. CASE GetTest(t)
    BY <2>6 DEF GetTest
  <2>7. CASE GetTake(t)
    BY <2>7 DEF GetTake
  <2>8. CASE GetSignal(t)
    BY <2>8 DEF GetSignal, Signal
  <2>9. CASE GetUnlock(t)
    BY <2>9 DEF GetUnlock
  <2> QED
    BY <1>1, <2>1, <2>2, <2>3, <2>4, <2>5, <2>6, <2>7, <2>8, <2>9 DEF Get
<1>2. ASSUME NEW t \in Posters, Post(t) PROVE NoLostWakeup'
  <2>1. CASE PostCall(t)
    BY <2>1 DEF PostCall
  <2>2. CASE PostLock(t)
    BY <2>2 DEF PostLock
  <2>3. CASE PostSet(t)
    BY <2>3 DEF PostSet
  <2>4. CASE PostSignal(t)
    <3>1. CASE sleepers = {}
      BY <2>4, <3>1 DEF PostSignal, Signal
    <3>2. CASE sleepers # {}
      <4>1. PICK s \in Getters : s \notin sleepers' /\ pc[s] = "get_sleep"
        BY <2>4, <3>2, SignalWakes DEF PostSignal
      <4>2. pc'[s] = "get_sleep"
        BY <2>4, <4>1 DEF PostSignal
      <4> QED
        BY <4>1, <4>2
    <3> QED
      BY <3>1, <3>2
  <2>5. CASE PostUnlock(t)
    BY <2>5 DEF PostUnlock
  <2> QED
    BY <1>2, <2>1, <2>2, <2>3, <2>4, <2>5 DEF Post
<1>3. CASE UNCHANGED vars
  BY <1>3 DEF vars
<1> QED
  BY <1>1, <1>2, <1>3 DEF Next

\* The inductive invariant holds in every reachable state.
THEOREM Invariance == Spec => []IInv
<1>1. IInv /\ [Next]_vars => IInv'
  BY NextTypeOK, NextLockInv, NextTakeInv, NextNoLostWakeup DEF IInv
<1> QED
  BY InitIInv, <1>1, PTL DEF Spec

(***************************************************************************)
(* JacksLatch_post never leaves the latch posted with every getter asleep, *)
(* however many threads use it and however its steps interleave.           *)
(***************************************************************************)
THEOREM LatchNoLostWakeup == Spec => []NoLostWakeup
<1>1. IInv => NoLostWakeup
  BY DEF IInv
<1> QED
  BY Invariance, <1>1, PTL

\* The variables keep their types.
THEOREM LatchTypeOK == Spec => []TypeOK
<1>1. IInv => TypeOK
  BY DEF IInv
<1> QED
  BY Invariance, <1>1, PTL

-----------------------------------------------------------------------------
(* JacksLatch implements AbstractLatch *)

\* The abstract call of a thread that moves, and those of the others.
LEMMA CallAfter ==
    ASSUME TypeOK, NEW t \in Threads, NEW from, NEW to,
           from \in {"idle"} \cup GetSteps \cup PostSteps,
           to \in {"idle"} \cup GetSteps \cup PostSteps,
           Goto(t, from, to)
    PROVE  /\ from = "idle" => CallOf(t) = "idle"
           /\ from \in {"get_signal", "get_unlock", "post_signal",
                        "post_unlock"} => CallOf(t) = "done"
           /\ from \in {"get_lock", "get_test", "get_sleep", "get_take",
                        "post_lock", "post_set"} => CallOf(t) = "pending"
           /\ to = "idle" => CallOf(t)' = "idle"
           /\ to \in {"get_signal", "get_unlock", "post_signal",
                      "post_unlock"} => CallOf(t)' = "done"
           /\ to \in {"get_lock", "get_test", "get_sleep", "get_take",
                      "post_lock", "post_set"} => CallOf(t)' = "pending"
           /\ \A u \in Threads \ {t} : CallOf(u)' = CallOf(u)
<1>1. pc'[t] = to /\ \A u \in Threads \ {t} : pc'[u] = pc[u]
  BY DEF TypeOK, Goto
<1>2. \A u \in Threads \ {t} : CallOf(u)' = CallOf(u)
  BY <1>1 DEF CallOf
<1> QED
  BY <1>1, <1>2 DEF CallOf, Goto, GetSteps, PostSteps

\* Every step of the latch is a step of the token, or none.
LEMMA LatchSimulates ==
    IInv /\ [Next]_vars => [Abstract!Next]_(Abstract!vars)
<1> SUFFICES ASSUME IInv, [Next]_vars PROVE [Abstract!Next]_(Abstract!vars)
  OBVIOUS
<1> USE DEF IInv, GetSteps, PostSteps
<1> DEFINE call == [t \in Threads |-> CallOf(t)]
           posted == status = POSTED
<1>0. /\ Getters \subseteq Threads
      /\ Posters \subseteq Threads
      /\ NOT_POSTED # POSTED
  BY DEF Threads, NOT_POSTED, POSTED
<1>a. ASSUME NEW t \in Threads, call[t] = "idle", CallOf(t)' = "pending",
             \A u \in Threads \ {t} : CallOf(u)' = CallOf(u), status' = status
      PROVE  Abstract!Invoke(t)
  BY <1>a DEF Abstract!Invoke
<1>b. ASSUME NEW t \in Threads, call[t] = "done", CallOf(t)' = "idle",
             \A u \in Threads \ {t} : CallOf(u)' = CallOf(u), status' = status
      PROVE  Abstract!Return(t)
  BY <1>b DEF Abstract!Return
<1>c. ASSUME NEW t \in Threads, CallOf(t)' = CallOf(t),
             \A u \in Threads \ {t} : CallOf(u)' = CallOf(u), status' = status
      PROVE  UNCHANGED Abstract!vars
  BY <1>c DEF Abstract!vars
<1>1. ASSUME NEW t \in Getters, Get(t)
      PROVE  Abstract!Next \/ UNCHANGED Abstract!vars
  <2>1. CASE GetCall(t)
    BY <1>0, <1>a, <2>1, CallAfter DEF GetCall, Abstract!Next, Abstract!Threads,
       Threads
  <2>2. CASE GetLock(t)
    BY <1>0, <1>c, <2>2, CallAfter DEF GetLock
  <2>3. CASE GetWait(t)
    BY <1>0, <1>c, <2>3, CallAfter DEF GetWait
  <2>4. CASE SpuriousWakeup(t)
    BY <2>4 DEF SpuriousWakeup, Abstract!vars, CallOf
  <2>5. CASE GetRelock(t)
    BY <1>0, <1>c, <2>5, CallAfter DEF GetRelock
  <2>6. CASE GetTest(t)
    BY <1>0, <1>c, <2>6, CallAfter DEF GetTest
  <2>7. CASE GetTake(t)
    <3>1. /\ CallOf(t) = "pending"
          /\ CallOf(t)' = "done"
          /\ \A u \in Threads \ {t} : CallOf(u)' = CallOf(u)
      BY <1>0, <2>7, CallAfter DEF GetTake
    <3>2. posted /\ posted' = FALSE
      BY <1>0, <2>7 DEF GetTake, TakeInv, Goto
    <3>3. Abstract!Take(t)
      BY <1>0, <3>1, <3>2 DEF Abstract!Take
    <3> QED
      BY <3>3 DEF Abstract!Next
  <2>8. CASE GetSignal(t)
    BY <1>0, <1>c, <2>8, CallAfter DEF GetSignal
  <2>9. CASE GetUnlock(t)
    BY <1>0, <1>b, <2>9, CallAfter DEF GetUnlock, Abstract!Next,
       Abstract!Threads, Threads
  <2> QED
    BY <1>1, <2>1, <2>2, <2>3, <2>4, <2>5, <2>6, <2>7, <2>8, <2>9 DEF Get
<1>2. ASSUME NEW t \in Posters, Post(t)
      PROVE  Abstract!Next \/ UNCHANGED Abstract!vars
  <2>1. CASE PostCall(t)
    BY <1>0, <1>a, <2>1, CallAfter DEF PostCall, Abstract!Next,
       Abstract!Threads, Threads
  <2>2. CASE PostLock(t)
    BY <1>0, <1>c, <2>2, CallAfter DEF PostLock
  <2>3. CASE PostSet(t)
    <3>1. /\ CallOf(t) = "pending"
          /\ CallOf(t)' = "done"
          /\ \A u \in Threads \ {t} : CallOf(u)' = CallOf(u)
      BY <1>0, <2>3, CallAfter DEF PostSet
    <3>2. posted' = TRUE
      BY <2>3 DEF PostSet
    <3>3. Abstract!Give(t)
      BY <1>0, <3>1, <3>2 DEF Abstract!Give
    <3> QED
      BY <3>3 DEF Abstract!Next
  <2>4. CASE PostSignal(t)
    BY <1>0, <1>c, <2>4, CallAfter DEF PostSignal
  <2>5. CASE PostUnlock(t)
    BY <1>0, <1>b, <2>5, CallAfter DEF PostUnlock, Abstract!Next,
       Abstract!Threads, Threads
  <2> QED
    BY <1>2, <2>1, <2>2, <2>3, <2>4, <2>5 DEF Post
<1>3. CASE UNCHANGED vars
  BY <1>3 DEF vars, Abstract!vars, CallOf
<1> QED
  BY <1>1, <1>2, <1>3 DEF Next

(***************************************************************************)
(* For any number of threads, JacksLatch implements a binary token: every  *)
(* JacksLatch_get that returns has taken one post, which no other get took.*)
(***************************************************************************)
THEOREM LatchImplementsToken == Spec => ImplementsLatch
<1>1. Init => Abstract!Init
  BY DEF Init, Abstract!Init, Abstract!Threads, Threads, CallOf, NOT_POSTED,
         POSTED
<1> QED
  BY <1>1, Invariance, LatchSimulates, PTL DEF Spec, ImplementsLatch,
     Abstract!Spec
=============================================================================
