----------------------------- MODULE JacksLatch -----------------------------
(***************************************************************************)
(* corelib/JacksLatch.c: a latch made of a status word, a pthread mutex    *)
(* and a pthread condition variable.  JACK's session thread blocks in      *)
(* JacksLatch_get until the script thread, completing the session event,   *)
(* calls JacksLatch_post.                                                  *)
(*                                                                         *)
(* Each pthread call and each access to the status word is one step.  The  *)
(* condition variable is the set of threads asleep on it: a signal wakes   *)
(* one of them, and POSIX allows a sleeper to wake without a signal.       *)
(***************************************************************************)

EXTENDS Naturals

CONSTANTS Getters,    \* threads that call JacksLatch_get
          Posters,    \* threads that call JacksLatch_post
          NoThread    \* value of latchlock when the mutex is free

ASSUME ThreadsAssumption == /\ Getters \cap Posters = {}
                            /\ NoThread \notin Getters \cup Posters

VARIABLES status,     \* _this_->status
          latchlock,  \* owner of _this_->latchlock
          sleepers,   \* threads asleep on _this_->latchcond
          pc          \* next step of each thread

vars == <<status, latchlock, sleepers, pc>>

Threads == Getters \cup Posters

NOT_POSTED == 0
POSTED == 1

GetSteps == {"get_lock", "get_test", "get_sleep", "get_take", "get_signal",
             "get_unlock"}
PostSteps == {"post_lock", "post_set", "post_signal", "post_unlock"}

Init == /\ status = NOT_POSTED
        /\ latchlock = NoThread
        /\ sleepers = {}
        /\ pc = [t \in Threads |-> "idle"]

Goto(t, from, to) == /\ pc[t] = from
                     /\ pc' = [pc EXCEPT ![t] = to]

\* pthread_mutex_lock and pthread_mutex_unlock
Acquire(t) == latchlock = NoThread /\ latchlock' = t
Release(t) == latchlock = t /\ latchlock' = NoThread

\* pthread_cond_signal wakes one sleeper, if there is one
Signal == IF sleepers = {}
          THEN UNCHANGED sleepers
          ELSE \E s \in sleepers : sleepers' = sleepers \ {s}
-----------------------------------------------------------------------------
(* JacksLatch_get *)

GetCall(t) == /\ Goto(t, "idle", "get_lock")
              /\ UNCHANGED <<status, latchlock, sleepers>>

GetLock(t) == /\ Goto(t, "get_lock", "get_test")
              /\ Acquire(t)
              /\ UNCHANGED <<status, sleepers>>

\* The while test fails: pthread_cond_wait releases the mutex and sleeps.
GetWait(t) == /\ status # POSTED
              /\ Goto(t, "get_test", "get_sleep")
              /\ Release(t)
              /\ sleepers' = sleepers \cup {t}
              /\ UNCHANGED status

\* A wake-up nobody signalled.
SpuriousWakeup(t) == /\ t \in sleepers
                     /\ sleepers' = sleepers \ {t}
                     /\ UNCHANGED <<status, latchlock, pc>>

\* Mutant: an if in place of the while, a woken getter does not test again.
GetRelockNoRetest(t) == /\ t \notin sleepers
                        /\ Goto(t, "get_sleep", "get_take")
                        /\ Acquire(t)
                        /\ UNCHANGED <<status, sleepers>>

\* pthread_cond_wait returns with the mutex held and the test is repeated.
GetRelock(t) == /\ t \notin sleepers
                /\ Goto(t, "get_sleep", "get_test")
                /\ Acquire(t)
                /\ UNCHANGED <<status, sleepers>>

GetTest(t) == /\ status = POSTED
              /\ Goto(t, "get_test", "get_take")
              /\ UNCHANGED <<status, latchlock, sleepers>>

GetTake(t) == /\ Goto(t, "get_take", "get_signal")
              /\ status' = NOT_POSTED
              /\ UNCHANGED <<latchlock, sleepers>>

GetSignal(t) == /\ Goto(t, "get_signal", "get_unlock")
                /\ Signal
                /\ UNCHANGED <<status, latchlock>>

GetUnlock(t) == /\ Goto(t, "get_unlock", "idle")
                /\ Release(t)
                /\ UNCHANGED <<status, sleepers>>
-----------------------------------------------------------------------------
(* JacksLatch_post *)

PostCall(t) == /\ Goto(t, "idle", "post_lock")
               /\ UNCHANGED <<status, latchlock, sleepers>>

PostLock(t) == /\ Goto(t, "post_lock", "post_set")
               /\ Acquire(t)
               /\ UNCHANGED <<status, sleepers>>

\* Mutant: post counts, as a semaphore does, instead of setting a flag.
PostSetCounting(t) == /\ Goto(t, "post_set", "post_signal")
                      /\ status' = status + 1
                      /\ UNCHANGED <<latchlock, sleepers>>

PostSet(t) == /\ Goto(t, "post_set", "post_signal")
              /\ status' = POSTED
              /\ UNCHANGED <<latchlock, sleepers>>

\* Mutant: post forgets to signal.
PostNoSignal(t) == /\ Goto(t, "post_signal", "post_unlock")
                   /\ UNCHANGED <<status, latchlock, sleepers>>

PostSignal(t) == /\ Goto(t, "post_signal", "post_unlock")
                 /\ Signal
                 /\ UNCHANGED <<status, latchlock>>

PostUnlock(t) == /\ Goto(t, "post_unlock", "idle")
                 /\ Release(t)
                 /\ UNCHANGED <<status, sleepers>>
-----------------------------------------------------------------------------
Get(t) == \/ GetCall(t) \/ GetLock(t) \/ GetWait(t) \/ SpuriousWakeup(t)
          \/ GetRelock(t) \/ GetTest(t) \/ GetTake(t) \/ GetSignal(t)
          \/ GetUnlock(t)

Post(t) == PostCall(t) \/ PostLock(t) \/ PostSet(t) \/ PostSignal(t)
           \/ PostUnlock(t)

Next == (\E t \in Getters : Get(t)) \/ (\E t \in Posters : Post(t))

Spec == Init /\ [][Next]_vars

\* Threads inside a call keep running; nobody is obliged to start a call, and
\* no spurious wake-up is ever due.
Fairness ==
    /\ \A t \in Getters :
          WF_vars(GetLock(t) \/ GetWait(t) \/ GetRelock(t) \/ GetTest(t)
                  \/ GetTake(t) \/ GetSignal(t) \/ GetUnlock(t))
    /\ \A t \in Posters :
          WF_vars(PostLock(t) \/ PostSet(t) \/ PostSignal(t) \/ PostUnlock(t))

FairSpec == Spec /\ Fairness
-----------------------------------------------------------------------------
\* Types of the variables; only a thread inside pthread_cond_wait sleeps.
TypeOK == /\ status \in {NOT_POSTED, POSTED}
          /\ latchlock \in Threads \cup {NoThread}
          /\ sleepers \in SUBSET Getters
          /\ pc \in [Threads -> {"idle"} \cup GetSteps \cup PostSteps]
          /\ \A t \in Getters : pc[t] \in {"idle"} \cup GetSteps
          /\ \A t \in Posters : pc[t] \in {"idle"} \cup PostSteps
          /\ \A t \in sleepers : pc[t] = "get_sleep"

\* Steps a thread takes while it holds the mutex.
Critical == {"get_test", "get_take", "get_signal", "get_unlock",
             "post_set", "post_signal", "post_unlock"}

\* The mutex protects the body of get and of post.
LockInv == \A t \in Threads : pc[t] \in Critical => latchlock = t

\* A getter about to reset the status still sees the post it tested.
TakeInv == \A t \in Getters : pc[t] = "get_take" => status = POSTED

(***************************************************************************)
(* No post is lost on a sleeping getter: while the latch is posted and a   *)
(* getter sleeps in pthread_cond_wait, a post has still to signal or some  *)
(* getter is awake and on its way to the test of the while loop.           *)
(***************************************************************************)
NoLostWakeup ==
    status = POSTED /\ sleepers # {} =>
        \/ \E t \in Posters : pc[t] = "post_signal"
        \/ \E t \in Getters \ sleepers :
              pc[t] \in {"get_lock", "get_sleep", "get_test", "get_take"}

(***************************************************************************)
(* A post is taken: it cannot happen for ever that the latch is posted, no *)
(* poster is in a call, and a getter waits inside JacksLatch_get.          *)
(***************************************************************************)
PostTaken ==
    ~<>[] /\ status = POSTED
          /\ \A t \in Posters : pc[t] = "idle"
          /\ \E t \in Getters : pc[t] \in {"get_lock", "get_test", "get_sleep"}

\* The inductive invariant behind the properties above.
IInv == TypeOK /\ LockInv /\ TakeInv /\ NoLostWakeup
-----------------------------------------------------------------------------
(***************************************************************************)
(* The latch implements a binary token: every return of JacksLatch_get     *)
(* takes one post, which no other get takes, and a get returns only after  *)
(* a post.  A call has taken effect once it has written the status.        *)
(***************************************************************************)
CallOf(t) == CASE pc[t] = "idle" -> "idle"
               [] pc[t] \in {"get_signal", "get_unlock", "post_signal",
                             "post_unlock"} -> "done"
               [] OTHER -> "pending"

Abstract == INSTANCE AbstractLatch WITH
               posted <- (status = POSTED),
               call <- [t \in Threads |-> CallOf(t)]

ImplementsLatch == Abstract!Spec
=============================================================================
