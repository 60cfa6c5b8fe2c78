-------------------------- MODULE SessionApiProofs --------------------------
(***************************************************************************)
(* Proofs about SessionApi: the session callback and the accessors, for    *)
(* every number of sessions and every capacity of the event queue.         *)
(***************************************************************************)
EXTENDS SessionApi, SequenceTheorems, TLAPS

USE SessionAssumption

(* The initial state.                                                      *)
LEMMA InitIInv == Init => IInv
<1> SUFFICES ASSUME Init PROVE IInv
  OBVIOUS
<1>3. TypesInv
  <2>1. /\ queue \in Seq([type : {"SESSION", "PROCESS"}, session : Nat])
        /\ event \in [type : {"SESSION", "PROCESS", "NONE"}, session : Nat]
    BY DEF Init, NoEvent, Event
  <2>2. posted \in BOOLEAN /\ method \in Methods
    BY DEF Init, Methods
  <2> QED
    BY <2>1, <2>2 DEF Init, TypesInv
<1>4. CallbackInv /\ AccessorInv
  BY DEF Init, CallbackInv, AccessorInv
<1>5. CommandInv
  BY DEF Init, CommandInv
<1>6. HandshakeInv /\ replied \subseteq answered
  BY DEF Init, HandshakeInv, InHand, NoEvent, Event
<1> QED
  BY <1>3, <1>4, <1>5, <1>6 DEF IInv

(* An event queued, or lost, keeps the type of the queue.                  *)
LEMMA EnqueueType ==
  ASSUME NEW S, queue \in Seq(S), NEW e \in S, Enqueue(e)
  PROVE  queue' \in Seq(S)
<1>1. Append(queue, e) \in Seq(S)
  OBVIOUS
<1> QED
  BY <1>1, Zenon DEF Enqueue

LEMMA NextTypes == TypesInv /\ [Next]_vars => TypesInv'
<1> SUFFICES ASSUME TypesInv, [Next]_vars PROVE TypesInv'
  OBVIOUS
<1> USE DEF TypesInv
<1>1. CASE SessionCallback
  <2>1. CASE SessionCall
    BY <2>1 DEF SessionCall, svars
  <2>2. CASE SessionEnqueue
    <3>1. Event("SESSION", session) \in [type : {"SESSION", "PROCESS"}, session : Nat]
      BY DEF Event
    <3>2. queue' \in Seq([type : {"SESSION", "PROCESS"}, session : Nat])
      BY <2>2, <3>1, EnqueueType DEF SessionEnqueue
    <3> QED
      BY <2>2, <3>2 DEF SessionEnqueue, svars
  <2>3. CASE SessionLatch
    BY <2>3 DEF SessionLatch, LatchTaken, svars
  <2>4. CASE SessionClear
    BY <2>4 DEF SessionClear, svars
  <2>5. CASE SessionReply
    BY <2>5 DEF SessionReply, svars
  <2>6. CASE SessionFree
    BY <2>6 DEF SessionFree, svars
  <2> QED
    BY <1>1, <2>1, <2>2, <2>3, <2>4, <2>5, <2>6 DEF SessionCallback
<1>2. CASE OtherCall
  <2>1. UNCHANGED <<jvars, svars, command_line, posted>>
    BY <1>2 DEF OtherCall
  <2>2. queue' \in Seq([type : {"SESSION", "PROCESS"}, session : Nat])
    <3>1. Event("PROCESS", 0) \in [type : {"SESSION", "PROCESS"}, session : Nat]
      BY DEF Event
    <3> QED
      BY <1>2, <3>1, EnqueueType DEF OtherCall
  <2> QED
    BY <2>1, <2>2 DEF svars, jvars
<1>3. CASE Script
  <2>1. CASE GetEvent
    <3>1. /\ Head(queue) \in [type : {"SESSION", "PROCESS"}, session : Nat]
          /\ Tail(queue) \in Seq([type : {"SESSION", "PROCESS"}, session : Nat])
      BY <2>1, HeadTailProperties DEF GetEvent
    <3> QED
      BY <2>1, <3>1 DEF GetEvent, jvars
  <2>2. CASE Call
    BY <2>2 DEF Call, jvars
  <2>3. CASE GetData
    BY <2>3 DEF GetData, jvars
  <2>4. CASE TestData
    BY <2>4 DEF TestData, jvars
  <2>5. CASE Access
    BY <2>5 DEF Access, jvars
  <2>6. CASE CheckException
    BY <2>6 DEF CheckException, jvars, Methods
  <2>7. CASE Complete
    <3>1. completions' \in 0 .. 2
      BY <2>7 DEF Complete
    <3>2. posted' \in BOOLEAN
      BY <2>7, Zenon DEF Complete
    <3> QED
      BY <2>7, <3>1, <3>2 DEF Complete, jvars
  <2>8. CASE NextEvent
    BY <2>8 DEF NextEvent, jvars, NoEvent, Event
  <2> QED
    BY <1>3, <2>1, <2>2, <2>3, <2>4, <2>5, <2>6, <2>7, <2>8 DEF Script, Accessor
<1>4. CASE UNCHANGED vars
  BY <1>4 DEF vars, jvars, svars
<1> QED
  BY <1>1, <1>2, <1>3, <1>4 DEF Next

(* Only the callback touches its event and the pointer to it.              *)
LEMMA NextCallback == TypesInv /\ CallbackInv /\ [Next]_vars => CallbackInv'
<1> SUFFICES ASSUME TypesInv, CallbackInv, [Next]_vars PROVE CallbackInv'
  OBVIOUS
<1> USE DEF TypesInv, CallbackInv, SetData
<1>1. CASE SessionCallback
  <2>1. CASE SessionCall
    BY <2>1 DEF SessionCall
  <2>2. CASE SessionEnqueue
    BY <2>2 DEF SessionEnqueue
  <2>3. CASE SessionLatch
    BY <2>3 DEF SessionLatch
  <2>4. CASE SessionClear
    BY <2>4 DEF SessionClear
  <2>5. CASE SessionReply
    BY <2>5 DEF SessionReply
  <2>6. CASE SessionFree
    BY <2>6 DEF SessionFree
  <2> QED
    BY <1>1, <2>1, <2>2, <2>3, <2>4, <2>5, <2>6 DEF SessionCallback
<1>2. CASE OtherCall
  BY <1>2 DEF OtherCall, jvars
<1>3. CASE Script
  <2>1. UNCHANGED jvars
    BY <1>3 DEF Script, Accessor, GetEvent, Call, GetData, TestData, Access,
                CheckException, Complete, NextEvent
  <2> QED
    BY <2>1 DEF jvars
<1>4. CASE UNCHANGED vars
  BY <1>4 DEF vars, jvars
<1> QED
  BY <1>1, <1>2, <1>3, <1>4 DEF Next

(* What the script did wrong is never forgotten.                           *)
LEMMA MisusedGrows == [Next]_vars => misused \subseteq misused'
<1> SUFFICES ASSUME [Next]_vars PROVE misused \subseteq misused'
  OBVIOUS
<1>1. CASE SessionCallback \/ OtherCall
  BY <1>1 DEF SessionCallback, SessionCall, SessionEnqueue, SessionLatch, SessionClear,
              SessionReply, SessionFree, OtherCall, svars
<1>2. CASE Script
  BY <1>2 DEF Script, Accessor, GetEvent, Call, GetData, TestData, Access,
              CheckException, Complete, NextEvent
<1>3. CASE UNCHANGED vars
  BY <1>3 DEF vars, svars
<1> QED
  BY <1>1, <1>2, <1>3 DEF Next

(* The session event is in one place.                                      *)
LEMMA NextHandshake ==
  TypesInv /\ CallbackInv /\ HandshakeInv /\ [Next]_vars /\ "completed" \notin misused'
    => HandshakeInv'
<1> SUFFICES ASSUME TypesInv, CallbackInv, HandshakeInv, [Next]_vars,
                    "completed" \notin misused'
             PROVE  HandshakeInv'
  OBVIOUS
<1> USE DEF TypesInv, HandshakeInv, InHand
<1>1. CASE SessionCallback
  <2>1. CASE SessionCall
    BY <2>1 DEF SessionCall, svars
  <2>2. CASE SessionEnqueue
    <3>1. /\ jack = "enqueue" /\ jack' = "latch" /\ ~posted /\ ~InHand /\ ~InHand'
          /\ \A k \in 1 .. Len(queue) : queue[k].type # "SESSION"
      BY <2>2 DEF SessionEnqueue, svars
    <3>2. CASE queue' = queue
      BY <2>2, <3>1, <3>2 DEF SessionEnqueue, svars
    <3>3. CASE queue' = Append(queue, Event("SESSION", session))
      <4>1. /\ Len(queue') = Len(queue) + 1
            /\ queue'[Len(queue')] = Event("SESSION", session)
            /\ \A k \in 1 .. Len(queue') :
                 k # Len(queue') => queue'[k] = queue[k] /\ k \in 1 .. Len(queue)
        BY <3>3 DEF Event
      <4>2. \A k \in 1 .. Len(queue') : queue'[k].type = "SESSION" => k = Len(queue')
        BY <3>1, <4>1
      <4> QED
        BY <2>2, <3>1, <4>1, <4>2 DEF SessionEnqueue, svars, Event
    <3> QED
      BY <2>2, <3>2, <3>3 DEF SessionEnqueue, Enqueue
  <2>3. CASE SessionLatch
    BY <2>3 DEF SessionLatch, LatchTaken, svars
  <2>4. CASE SessionClear
    BY <2>4 DEF SessionClear, svars
  <2>5. CASE SessionReply
    BY <2>5 DEF SessionReply, svars
  <2>6. CASE SessionFree
    BY <2>6 DEF SessionFree, svars
  <2> QED
    BY <1>1, <2>1, <2>2, <2>3, <2>4, <2>5, <2>6 DEF SessionCallback
<1>2. CASE OtherCall
  <2>1. CASE queue' = queue
    BY <1>2, <2>1 DEF OtherCall, svars, jvars
  <2>2. CASE queue' = Append(queue, Event("PROCESS", 0))
    <3>1. /\ Len(queue') = Len(queue) + 1
          /\ queue'[Len(queue')].type = "PROCESS"
          /\ \A k \in 1 .. Len(queue') :
               k # Len(queue') => queue'[k] = queue[k] /\ k \in 1 .. Len(queue)
      BY <2>2 DEF Event
    <3>2. UNCHANGED <<jack, session, posted, event, completions, answered>>
      BY <1>2 DEF OtherCall, svars, jvars
    <3>3. \A k \in 1 .. Len(queue') :
            queue'[k].type = "SESSION" => k \in 1 .. Len(queue) /\ queue'[k] = queue[k]
      BY <3>1
    <3> QED
      BY <3>2, <3>3
  <2> QED
    BY <1>2, <2>1, <2>2 DEF OtherCall, Enqueue
<1>3. CASE Script
  <2>1. CASE GetEvent
    <3>1. /\ event' = queue[1]
          /\ Len(queue') = Len(queue) - 1
          /\ 1 \in 1 .. Len(queue)
          /\ \A k \in 1 .. Len(queue') : queue'[k] = queue[k + 1] /\ k + 1 \in 1 .. Len(queue)
      BY <2>1 DEF GetEvent
    <3>2. completions' = 0 /\ UNCHANGED <<jack, session, posted, answered>>
      BY <2>1 DEF GetEvent, jvars
    <3>3. CASE queue[1].type = "SESSION"
      <4>1. \A k \in 1 .. Len(queue') : queue'[k].type # "SESSION"
        <5> SUFFICES ASSUME NEW k \in 1 .. Len(queue'), queue'[k].type = "SESSION"
                     PROVE  FALSE
          OBVIOUS
        <5>1. k + 1 \in 1 .. Len(queue) /\ queue[k + 1].type = "SESSION"
          BY <3>1
        <5>2. k + 1 = 1
          BY <3>1, <3>3, <5>1
        <5> QED
          BY <5>2
      <4> QED
        BY <3>1, <3>2, <3>3, <4>1
    <3>4. CASE queue[1].type # "SESSION"
      <4>1. ~InHand' /\ ~(queue[1].type = "SESSION")
        BY <3>1, <3>4
      <4>2. ASSUME NEW k \in 1 .. Len(queue'), queue'[k].type = "SESSION"
            PROVE  jack = "latch" /\ ~posted /\ queue'[k].session = session
        <5>1. k + 1 \in 1 .. Len(queue) /\ queue'[k] = queue[k + 1]
          BY <3>1
        <5> QED
          BY <4>2, <5>1
      <4>3. ASSUME NEW k \in 1 .. Len(queue'), NEW l \in 1 .. Len(queue'),
                   queue'[k].type = "SESSION", queue'[l].type = "SESSION"
            PROVE  k = l
        <5>1. /\ k + 1 \in 1 .. Len(queue) /\ queue'[k] = queue[k + 1]
              /\ l + 1 \in 1 .. Len(queue) /\ queue'[l] = queue[l + 1]
          BY <3>1
        <5>2. k + 1 = l + 1
          BY <4>3, <5>1
        <5> QED
          BY <5>2
      <4> QED
        BY <3>2, <4>1, <4>2, <4>3
    <3> QED
      BY <3>3, <3>4
  <2>2. CASE Call
    BY <2>2 DEF Call, jvars
  <2>3. CASE GetData
    BY <2>3 DEF GetData, jvars
  <2>4. CASE TestData
    BY <2>4 DEF TestData, jvars
  <2>5. CASE Access
    BY <2>5 DEF Access, jvars
  <2>6. CASE CheckException
    BY <2>6 DEF CheckException, jvars
  <2>7. CASE Complete
    <3>1. completions = 0 /\ completions' = 1 /\ UNCHANGED <<jvars, queue, event>>
      BY <2>7 DEF Complete
    <3>2. CASE event.type = "SESSION"
      BY <2>7, <3>1, <3>2 DEF Complete, jvars
    <3>3. CASE event.type # "SESSION"
      BY <2>7, <3>1, <3>3 DEF Complete, jvars
    <3> QED
      BY <3>2, <3>3
  <2>8. CASE NextEvent
    BY <2>8 DEF NextEvent, jvars, NoEvent, Event
  <2> QED
    BY <1>3, <2>1, <2>2, <2>3, <2>4, <2>5, <2>6, <2>7, <2>8 DEF Script, Accessor
<1>4. CASE UNCHANGED vars
  BY <1>4 DEF vars, jvars, svars
<1> QED
  BY <1>1, <1>2, <1>3, <1>4 DEF Next

(* A reply is sent only after the latch, for the session that was          *)
(* completed.                                                              *)
LEMMA NextReplied ==
  HandshakeInv /\ replied \subseteq answered /\ [Next]_vars => replied' \subseteq answered'
<1> SUFFICES ASSUME HandshakeInv, replied \subseteq answered, [Next]_vars
             PROVE  replied' \subseteq answered'
  OBVIOUS
<1>1. CASE SessionCallback \/ OtherCall
  BY <1>1 DEF SessionCallback, SessionCall, SessionEnqueue, SessionLatch, SessionClear,
              SessionReply, SessionFree, OtherCall, svars, jvars, HandshakeInv
<1>2. CASE Script
  BY <1>2 DEF Script, Accessor, GetEvent, Call, GetData, TestData, Access,
              CheckException, Complete, NextEvent, jvars
<1>3. CASE UNCHANGED vars
  BY <1>3 DEF vars, svars, jvars
<1> QED
  BY <1>1, <1>2, <1>3 DEF Next

(* While an accessor of a script that is not misused runs, the callback    *)
(* waits: it neither clears data nor goes on to another session.           *)
LEMMA NextAccessor == IInv /\ [Next]_vars => AccessorInv'
<1> SUFFICES ASSUME IInv, [Next]_vars PROVE AccessorInv'
  OBVIOUS
<1>0. misused \subseteq misused'
  BY MisusedGrows
<1> USE DEF IInv, TypesInv, AccessorInv, InHand
<1>1. CASE SessionCallback
  <2>1. UNCHANGED svars
    BY <1>1 DEF SessionCallback, SessionCall, SessionEnqueue, SessionLatch, SessionClear,
                SessionReply, SessionFree
  <2>2. CASE SessionCall
    BY <2>1, <2>2 DEF SessionCall, svars, HandshakeInv
  <2>3. CASE ~SessionCall
    BY <1>1, <2>1, <2>3 DEF SessionCallback, SessionEnqueue, SessionLatch, SessionClear,
                            SessionReply, SessionFree, svars
  <2> QED
    BY <2>2, <2>3
<1>2. CASE OtherCall
  BY <1>2 DEF OtherCall, svars, jvars
<1>3. CASE Script
  <2>1. CASE GetEvent
    BY <2>1 DEF GetEvent, jvars
  <2>2. CASE Call
    BY <2>2 DEF Call, Misuse, jvars
  <2>3. CASE GetData
    BY <2>3 DEF GetData, jvars, HandshakeInv, CallbackInv
  <2>4. CASE TestData
    BY <2>4 DEF TestData, jvars
  <2>5. CASE Access
    BY <2>5 DEF Access, jvars
  <2>6. CASE CheckException
    BY <2>6 DEF CheckException, jvars
  <2>7. CASE Complete
    BY <2>7 DEF Complete, jvars
  <2>8. CASE NextEvent
    BY <2>8 DEF NextEvent, jvars
  <2> QED
    BY <1>3, <2>1, <2>2, <2>3, <2>4, <2>5, <2>6, <2>7, <2>8 DEF Script, Accessor
<1>4. CASE UNCHANGED vars
  BY <1>4 DEF vars, jvars, svars
<1> QED
  BY <1>1, <1>2, <1>3, <1>4 DEF Next

(* An answer goes to the session the callback waits with, and is still     *)
(* there when it replies.                                                  *)
LEMMA NextCommand ==
  IInv /\ misused = {} /\ [Next]_vars => CommandInv'
<1> SUFFICES ASSUME IInv, misused = {}, [Next]_vars PROVE CommandInv'
  OBVIOUS
<1>0. TypesInv /\ CallbackInv /\ AccessorInv /\ HandshakeInv /\ CommandInv
  BY DEF IInv
<1> USE <1>0 DEF CommandInv
<1>1. CASE SessionCallback
  <2>1. UNCHANGED <<svars>>
    BY <1>1 DEF SessionCallback, SessionCall, SessionEnqueue, SessionLatch, SessionClear,
                SessionReply, SessionFree
  <2>2. CASE SessionCall
    <3>1. session' = session + 1 /\ session' \notin told /\ session' \notin replied
      BY <2>2 DEF SessionCall, TypesInv
    <3> QED
      BY <2>1, <2>2, <3>1 DEF SessionCall, svars, TypesInv
  <2>3. CASE SessionReply
    <3>1. session \in 1 .. session
      BY <2>3 DEF SessionReply, TypesInv
    <3> QED
      BY <2>1, <2>3, <3>1 DEF SessionReply, svars, TypesInv
  <2>4. CASE ~SessionCall /\ ~SessionReply
    BY <1>1, <2>1, <2>4 DEF SessionCallback, SessionEnqueue, SessionLatch, SessionClear,
                            SessionFree, svars
  <2> QED
    BY <2>2, <2>3, <2>4
<1>2. CASE OtherCall
  BY <1>2 DEF OtherCall, svars, jvars
<1>3. CASE Script
  <2>1. CASE Access
    <3>1. /\ jack = "latch" /\ event.session = session /\ se = session
          /\ live = {session} /\ session \in Nat
      BY <2>1 DEF Access, TypesInv, CallbackInv, AccessorInv, HandshakeInv, InHand
    <3>2. UNCHANGED <<jack, session, replied, sent>>
      BY <2>1 DEF Access, jvars
    <3>3. CASE method = "setCommandLine"
      <4>1. told' = told \cup {session} /\ command_line' = "set"
        BY <2>1, <3>1, <3>3 DEF Access
      <4>2. session \in 1 .. session /\ session \notin replied
        BY <3>1
      <4>3. sent' = told' \cap replied'
        BY <3>2, <4>1, <4>2
      <4> QED
        BY <3>1, <3>2, <4>1, <4>2, <4>3
    <3>4. CASE method # "setCommandLine"
      <4>1. told' = told /\ command_line' = command_line
        BY <2>1, <3>4 DEF Access
      <4> QED
        BY <3>2, <4>1
    <3> QED
      BY <3>3, <3>4
  <2>2. CASE ~Access
    BY <1>3, <2>2 DEF Script, Accessor, GetEvent, Call, GetData, TestData, CheckException,
                      Complete, NextEvent, jvars
  <2> QED
    BY <2>1, <2>2
<1>4. CASE UNCHANGED vars
  BY <1>4 DEF vars, svars, jvars
<1> QED
  BY <1>1, <1>2, <1>3, <1>4 DEF Next

(* The inductive invariant: where the session event is, what the accessor  *)
(* holds, and which sessions' command lines JACK has or will be sent.      *)
THEOREM Invariance == Spec => []IInv
<1>1. IInv /\ [Next]_vars => IInv'
  <2> SUFFICES ASSUME IInv, [Next]_vars PROVE IInv'
    OBVIOUS
  <2>1. TypesInv' /\ CallbackInv' /\ AccessorInv'
    BY NextTypes, NextCallback, NextAccessor DEF IInv
  <2>2. ASSUME "completed" \notin misused'
        PROVE  HandshakeInv' /\ replied' \subseteq answered'
    BY <2>2, MisusedGrows, NextHandshake, NextReplied DEF IInv
  <2>3. ASSUME misused' = {}
        PROVE  CommandInv'
    BY <2>3, MisusedGrows, NextCommand
  <2> QED
    BY <2>1, <2>2, <2>3 DEF IInv
<1> QED
  BY <1>1, InitIInv, PTL DEF Spec

(* JsEvent.getSessionDir and the other accessors follow their data pointer *)
(* only into the session event that the callback waits with, which JACK    *)
(* has not freed, for a script that asks only session events it has not    *)
(* completed and completes each once.                                      *)
THEOREM AccessIsLive == Spec => []AccessLive
<1>1. IInv => AccessLive
  BY DEF IInv, TypesInv, CallbackInv, HandshakeInv, AccessorInv, InHand, AccessLive
<1> QED
  BY Invariance, <1>1, PTL

(* jacks_session_callback replies only for a session whose event the       *)
(* script completed, unless the script completed some event twice.         *)
THEOREM RepliesWait == Spec => []WaitsForCompletion
<1>1. IInv => WaitsForCompletion
  BY DEF IInv, WaitsForCompletion
<1> QED
  BY Invariance, <1>1, PTL

(* jack_session_reply carries a command line for exactly those sessions    *)
(* for which the script called setCommandLine, for a script that asks only *)
(* session events it has not completed and completes each once.            *)
THEOREM AnswersSent == Spec => []CommandLineSent
<1>1. IInv => CommandLineSent
  BY DEF IInv, CommandInv, CommandLineSent
<1> QED
  BY Invariance, <1>1, PTL
=============================================================================
