--------------------------- MODULE JacksRbClient ----------------------------
(***************************************************************************)
(* corelib/JacksRbClient.c with the parts it is built from (JacksEvent,    *)
(* JacksRbPort, JacksLatch, the lfds queue) and the script loop that every *)
(* binding of modules/Jacks.i runs on top of it.                           *)
(*                                                                         *)
(* JACK runs the four callbacks in threads of its own, each callback at    *)
(* most once at a time; the script thread takes events from the queue.     *)
(* Queue, semaphore, latch, ring buffers and the session event's data are  *)
(* what they share.  Every step is one access to one of these.  The queue  *)
(* is what LfdsQueue is shown to implement (AbstractQueue): a sequence, to *)
(* which a callback links its event or, if another callback is at the same *)
(* point, may find that it has hung it on the element which that callback  *)
(* has not linked yet, so that nobody sees it until then.  The elements    *)
(* come from a freelist of fixed size: enqueue takes one, links it, and    *)
(* dequeue unlinks and gives back in two steps.  The latch is the binary   *)
(* token that JacksLatch is shown to implement.                            *)
(***************************************************************************)
EXTENDS JacksRbPort, Sequences, FiniteSets

CONSTANTS NPorts,     \* ports the script registers
          NFrames,    \* frames JACK passes to each process callback
          SemMax      \* SEM_VALUE_MAX

ASSUME ClientAssumption ==
    /\ NPorts \in Nat \ {0}
    /\ NFrames \in Nat \ {0}
    /\ SemMax \in Nat \ {0}
    /\ SampleSize \in Nat \ {0}
    /\ RbSize \in Nat \ {0}
    /\ Capacity \in Nat

Callbacks == {"process", "session", "shutdown", "sample_rate"}
Threads == Callbacks \cup {"script"}

\* JACKSCRIPT_EVENT_TYPE, and no event
Events == {"PROCESS", "SESSION", "SAMPLE_RATE_CHANGE", "SHUTDOWN"}
NoEvent == "none"

\* The event object each callback enqueues: one per kind, for ever reused.
EventOf(t) == CASE t = "process"     -> "PROCESS"
                [] t = "session"     -> "SESSION"
                [] t = "sample_rate" -> "SAMPLE_RATE_CHANGE"
                [] t = "shutdown"    -> "SHUTDOWN"

VARIABLES nports,      \* _this_->nports
          stored,      \* entries of _this_->ports that have been written
          activated,   \* _this_->activated
          jack,        \* JACK's view: client active, process callback set,
                       \* client thrown out after a failed process callback
          rb,          \* bytes in each port's ring
          queue,       \* _this_->event_queue, oldest event first
          behind,      \* events that hang on the element a callback is
                       \* about to link
          free,        \* elements in the queue's freelist
          sem,         \* _this_->mutex, the counting semaphore
          latch,       \* is _this_->session_latch posted?
          data,        \* does _this_->session_event carry JACK's event?
          i,           \* the process callback's loop index
          je,          \* event the script holds
          reading,     \* next port the script reads for this event
          len,         \* length() of the script's last buffer
          done,        \* will the script leave its loop?
          pc           \* next step of each thread

ports == <<nports, stored, activated, jack>>
events == <<queue, behind, free, sem>>
session == <<latch, data>>
script == <<je, reading, len, done>>
vars == <<ports, rb, events, session, i, script, pc>>

Ports == 1..NPorts

\* JacksRbClient_new: the queue gets rb_size elements beside its dummy, the
\* semaphore starts at 1.
Init == /\ nports = 0
        /\ stored = 0
        /\ activated = FALSE
        /\ jack = [active |-> FALSE, process_cb |-> FALSE, zombie |-> FALSE]
        /\ rb = [p \in Ports |-> 0]
        /\ queue = <<>>
        /\ behind = [t \in Callbacks |-> <<>>]
        /\ free = RbSize
        /\ sem = 1
        /\ latch = FALSE
        /\ data = FALSE
        /\ i = 1
        /\ je = NoEvent
        /\ reading = 1
        /\ len = 0
        /\ done = FALSE
        /\ pc = [t \in Threads |-> IF t = "script" THEN "run" ELSE "idle"]

Goto(t, from, to) == /\ pc[t] = from
                     /\ pc' = [pc EXCEPT ![t] = to]

\* Once JACK has called the shutdown callback it calls no other (external).
ServerUp == pc["shutdown"] = "idle"
-----------------------------------------------------------------------------
(* queue_enqueue and sem_post, the tail that all four callbacks share *)

\* What a callback does next once it has posted the semaphore.
AfterPost(t) == CASE t = "process"     -> "loop"
                  [] t = "session"     -> "latch"
                  [] t = "sample_rate" -> "idle"
                  [] t = "shutdown"    -> "returned"

\* queue_internal_new_element_from_freelist succeeds
PopElement(t) == /\ free > 0
                 /\ Goto(t, "enqueue", "link")
                 /\ free' = free - 1
                 /\ UNCHANGED <<ports, rb, queue, behind, sem, session, i, script>>

\* Mutant: the process callback does not look at the result either.
FullUnnoticed(t) == /\ free = 0
                    /\ Goto(t, "enqueue", "post")
                    /\ UNCHANGED <<ports, rb, events, session, i, script>>

\* The freelist is empty and queue_enqueue returns 0.  The process callback
\* returns -1, on which JACK drops the client (external); the others do not
\* look at the result and post the semaphore all the same.
QueueFull(t) ==
    /\ free = 0
    /\ IF t = "process"
       THEN /\ Goto(t, "enqueue", "idle")
            /\ jack' = [jack EXCEPT !.zombie = TRUE]
            /\ i' = 1
            /\ UNCHANGED <<nports, stored, activated>>
       ELSE /\ Goto(t, "enqueue", "post")
            /\ UNCHANGED <<ports, i>>
    /\ UNCHANGED <<rb, events, session, script>>

\* queue_internal_queue: the event and all that hangs on it become visible.
Link(t) == /\ Goto(t, "link", "post")
           /\ queue' = queue \o <<EventOf(t)>> \o behind[t]
           /\ behind' = [behind EXCEPT ![t] = <<>>]
           /\ UNCHANGED <<ports, rb, free, sem, session, i, script>>

\* The tail that queue_internal_queue has read is by now the element another
\* callback has taken and not linked: the event hangs on that one.
LinkBehind(t, u) ==
    /\ pc[u] = "link"
    /\ Goto(t, "link", "post")
    /\ behind' = [behind EXCEPT ![u] = @ \o <<EventOf(t)>> \o behind[t],
                                ![t] = <<>>]
    /\ UNCHANGED <<ports, rb, queue, free, sem, session, i, script>>

\* Mutant: only the process callback posts.
PostIfProcess(t) == /\ Goto(t, "post", AfterPost(t))
                    /\ sem' = IF t = "process" /\ sem < SemMax THEN sem + 1
                                                               ELSE sem
                    /\ i' = IF t = "process" THEN i + 1 ELSE i
                    /\ UNCHANGED <<ports, rb, queue, behind, free, session, script>>

\* sem_post fails at SEM_VALUE_MAX, and nobody looks.
SemPost(t) == /\ Goto(t, "post", AfterPost(t))
              /\ sem' = IF sem < SemMax THEN sem + 1 ELSE sem
              /\ i' = IF t = "process" THEN i + 1 ELSE i
              /\ UNCHANGED <<ports, rb, queue, behind, free, session, script>>

Notify(t) == \/ PopElement(t) \/ QueueFull(t) \/ Link(t) \/ SemPost(t)
             \/ \E u \in Callbacks \ {t} : LinkBehind(t, u)
-----------------------------------------------------------------------------
(* _process_cb *)

ProcessCall == /\ jack.active /\ jack.process_cb /\ ~jack.zombie /\ ServerUp
               /\ Goto("process", "idle", "loop")
               /\ i' = 1
               /\ UNCHANGED <<ports, rb, events, session, script>>

\* i is a local variable; it is 1 where it has no value.
ProcessReturn == /\ i > nports
                 /\ Goto("process", "loop", "idle")
                 /\ i' = 1
                 /\ UNCHANGED <<ports, rb, events, session, script>>

ProcessWrite == /\ i <= nports
                /\ LET w == WriteToRingbuffer(rb[i], NFrames)
                   IN  /\ rb' = [rb EXCEPT ![i] = w.rb]
                       /\ jack' = [jack EXCEPT !.zombie = (w.rc # 0)]
                       /\ IF w.rc # 0
                          THEN Goto("process", "loop", "idle") /\ i' = 1
                          ELSE Goto("process", "loop", "enqueue") /\ UNCHANGED i
                /\ UNCHANGED <<nports, stored, activated, events, session, script>>
-----------------------------------------------------------------------------
(* _session_cb, _shutdown_cb and _sample_rate_change_cb *)

\* JacksEvent_set_data(session_event, event)
SessionCall == /\ ServerUp
               /\ Goto("session", "idle", "enqueue")
               /\ data' = TRUE
               /\ UNCHANGED <<ports, rb, events, latch, i, script>>

\* Mutant: the callback does not wait for the script.
SessionNoLatch == /\ Goto("session", "latch", "reply")
                  /\ latch' = FALSE
                  /\ data' = FALSE
                  /\ UNCHANGED <<ports, rb, events, i, script>>

\* JacksLatch_get, which returns once the latch is posted.
SessionLatch == /\ latch
                /\ Goto("session", "latch", "clear")
                /\ latch' = FALSE
                /\ UNCHANGED <<ports, rb, events, data, i, script>>

SessionClear == /\ Goto("session", "clear", "reply")
                /\ data' = FALSE
                /\ UNCHANGED <<ports, rb, events, latch, i, script>>

\* jack_session_reply, then jack_session_event_free: the event is gone.
SessionReply == /\ Goto("session", "reply", "idle")
                /\ UNCHANGED <<ports, rb, events, session, i, script>>

SampleRateCall == /\ ServerUp
                  /\ Goto("sample_rate", "idle", "enqueue")
                  /\ UNCHANGED <<ports, rb, events, session, i, script>>

ShutdownCall == /\ Goto("shutdown", "idle", "enqueue")
                /\ UNCHANGED <<ports, rb, events, session, i, script>>
-----------------------------------------------------------------------------
(* The script: JsClient_registerPort and JsClient_activate *)

\* ports[nports] = jp
RegisterStore == /\ nports < NPorts
                 /\ Goto("script", "run", "register")
                 /\ stored' = nports + 1
                 /\ UNCHANGED <<nports, activated, jack, rb, events, session, i,
                                script>>

\* nports++
RegisterCount == /\ Goto("script", "register", "run")
                 /\ nports' = nports + 1
                 /\ UNCHANGED <<stored, activated, jack, rb, events, session, i,
                                script>>

\* Mutant: the port is counted before it is stored.
CountThenStore == \/ /\ nports < NPorts
                     /\ Goto("script", "run", "register")
                     /\ nports' = nports + 1
                     /\ UNCHANGED <<stored, activated, jack, rb, events,
                                    session, i, script>>
                  \/ /\ Goto("script", "register", "run")
                     /\ stored' = nports
                     /\ UNCHANGED <<nports, activated, jack, rb, events,
                                    session, i, script>>

\* JacksRbClient_registerPort
RegisterPort == RegisterStore \/ RegisterCount

\* JsClient keeps process_audio, set by the first registerPort.
ProcessAudio == nports > 0

\* JacksRbClient_activate.  JACK refuses to set a callback of an active client
\* (external), and the result is ignored.  A client without ports may activate
\* again and again; one with ports returns early from then on.
Activate == /\ ~activated
            /\ pc["script"] = "run"
            /\ activated' = ProcessAudio
            /\ jack' = [jack EXCEPT !.active = TRUE,
                                    !.process_cb = @ \/ (ProcessAudio /\ ~jack.active)]
            /\ UNCHANGED <<nports, stored, rb, events, session, i, script, pc>>
-----------------------------------------------------------------------------
(* JacksRbClient_get_event *)

GetEvent == /\ Goto("script", "run", "dequeue")
            /\ UNCHANGED <<ports, rb, events, session, i, script>>

\* queue_dequeue unlinks the event; its element is not free yet.
Dequeue == /\ queue # <<>>
           /\ Goto("script", "dequeue", "release")
           /\ je' = Head(queue)
           /\ queue' = Tail(queue)
           /\ UNCHANGED <<ports, rb, behind, free, sem, session, i, reading, len,
                          done>>

DequeueEmpty == /\ queue = <<>>
                /\ Goto("script", "dequeue", "wait")
                /\ UNCHANGED <<ports, rb, events, session, i, script>>

\* Mutant: the element is given back twice.
ReleaseTwice == /\ Goto("script", "release", "handle")
                /\ free' = free + 2
                /\ UNCHANGED <<ports, rb, queue, behind, sem, session, i, script>>

\* freelist_push
ReleaseElement == /\ Goto("script", "release", "handle")
                  /\ free' = free + 1
                  /\ UNCHANGED <<ports, rb, queue, behind, sem, session, i, script>>

SemWait == /\ sem > 0
           /\ Goto("script", "wait", "dequeue")
           /\ sem' = sem - 1
           /\ UNCHANGED <<ports, rb, queue, behind, free, session, i, script>>

\* A signal handler interrupts sem_wait; its result is not looked at.
SemInterrupted == /\ Goto("script", "wait", "dequeue")
                  /\ UNCHANGED <<ports, rb, events, session, i, script>>
-----------------------------------------------------------------------------
(* The body of the script's loop *)

HandleProcess == /\ je = "PROCESS"
                 /\ Goto("script", "handle", "read")
                 /\ reading' = 1
                 /\ UNCHANGED <<ports, rb, events, session, i, je, len, done>>

\* JsPort_getBuffer on the script's ports, one after the other
ReadPort == /\ reading <= nports
            /\ pc["script"] = "read"
            /\ LET r == ReadFromRingbuffer(rb[reading])
               IN  /\ rb' = [rb EXCEPT ![reading] = r.rb]
                   /\ len' = r.len
            /\ reading' = reading + 1
            /\ UNCHANGED <<ports, events, session, i, je, done, pc>>

\* The loop over the ports is over, and so is its variable.
ReadDone == /\ reading > nports
            /\ Goto("script", "read", "complete")
            /\ reading' = 1
            /\ UNCHANGED <<ports, rb, events, session, i, je, len, done>>

\* capture_client.pl asks for the uuid by getUuid, which no binding defines
\* (the method is getClientUuid): the script dies and completes nothing.
SessionDies == /\ je = "SESSION"
               /\ Goto("script", "handle", "ended")
               /\ je' = NoEvent
               /\ UNCHANGED <<ports, rb, events, session, i, reading, len, done>>

\* A script that does not, such as capture_client.lua, goes on to complete the
\* event; it may leave its loop on JackSessionSaveAndQuit.  The getters and
\* setters it calls are SessionApi's.
HandleSession == /\ je = "SESSION"
                 /\ Goto("script", "handle", "complete")
                 /\ \E quit \in BOOLEAN : done' = quit
                 /\ UNCHANGED <<ports, rb, events, session, i, je, reading, len>>

HandleSampleRate == /\ je = "SAMPLE_RATE_CHANGE"
                    /\ Goto("script", "handle", "complete")
                    /\ UNCHANGED <<ports, rb, events, session, i, script>>

HandleShutdown == /\ je = "SHUTDOWN"
                  /\ Goto("script", "handle", "complete")
                  /\ done' = TRUE
                  /\ UNCHANGED <<ports, rb, events, session, i, je, reading, len>>

\* Mutant: complete does not run the completion token.
CompleteNoToken == /\ Goto("script", "complete", IF done THEN "ended" ELSE "run")
                   /\ je' = NoEvent
                   /\ len' = 0
                   /\ UNCHANGED <<ports, rb, events, session, i, reading, done>>

\* JacksEvent_complete: only the session event has a completion token.
Complete == /\ Goto("script", "complete", IF done THEN "ended" ELSE "run")
            /\ latch' = (latch \/ je = "SESSION")
            /\ je' = NoEvent
            /\ len' = 0
            /\ UNCHANGED <<ports, rb, events, data, i, reading, done>>
-----------------------------------------------------------------------------
Process == ProcessCall \/ ProcessReturn \/ ProcessWrite \/ Notify("process")

Session == SessionCall \/ Notify("session") \/ SessionLatch \/ SessionClear
           \/ SessionReply

Shutdown == ShutdownCall \/ Notify("shutdown")

SampleRate == SampleRateCall \/ Notify("sample_rate")

\* Steps of the script that no other thread can hold up for ever
ScriptLoop == \/ GetEvent \/ Dequeue \/ DequeueEmpty \/ ReleaseElement \/ SemWait
              \/ HandleProcess \/ ReadPort \/ ReadDone \/ HandleSession
              \/ SessionDies \/ HandleSampleRate \/ HandleShutdown \/ Complete

Script == ScriptLoop \/ RegisterPort \/ Activate \/ SemInterrupted

Next == Process \/ Session \/ Shutdown \/ SampleRate \/ Script

Spec == Init /\ [][Next]_vars

\* A callback once called runs on, and so does the script between the events
\* it waits for.  JACK is not obliged to call back.
Fairness == /\ WF_vars(ProcessReturn \/ ProcessWrite \/ Notify("process"))
            /\ WF_vars(Notify("session") \/ SessionLatch \/ SessionClear
                       \/ SessionReply)
            /\ WF_vars(Notify("shutdown"))
            /\ WF_vars(Notify("sample_rate"))
            /\ WF_vars(ScriptLoop \/ RegisterCount)

FairSpec == Spec /\ Fairness
-----------------------------------------------------------------------------
\* Steps each thread can be at
NotifySteps == {"idle", "enqueue", "link", "post"}
ProcessSteps == NotifySteps \cup {"loop"}
SessionSteps == NotifySteps \cup {"latch", "clear", "reply"}
ShutdownSteps == NotifySteps \cup {"returned"}
ScriptSteps == {"run", "register", "dequeue", "release", "wait", "handle",
                "read", "complete", "ended"}

PcOK == /\ pc \in [Threads -> ProcessSteps \cup SessionSteps
                                \cup ShutdownSteps \cup ScriptSteps]
        /\ pc["process"] \in ProcessSteps
        /\ pc["session"] \in SessionSteps
        /\ pc["sample_rate"] \in NotifySteps
        /\ pc["shutdown"] \in ShutdownSteps
        /\ pc["script"] \in ScriptSteps

\* Types of the variables.  No ring holds more than JACK made room for, no
\* freelist more than queue_new gave it, and the queue never outgrows it.
TypeOK == /\ nports \in 0..NPorts
          /\ stored \in 0..NPorts
          /\ activated \in BOOLEAN
          /\ jack \in [active : BOOLEAN, process_cb : BOOLEAN, zombie : BOOLEAN]
          /\ rb \in [Ports -> 0..Capacity]
          /\ queue \in Seq(Events)
          /\ Len(queue) <= RbSize
          /\ behind \in [Callbacks -> Seq(Events)]
          /\ free \in 0..RbSize
          /\ sem \in 0..SemMax
          /\ latch \in BOOLEAN
          /\ data \in BOOLEAN
          /\ i \in 1..(NPorts + 1)
          /\ je \in Events \cup {NoEvent}
          /\ reading \in 1..(NPorts + 1)
          /\ len \in 0..FramebufSize
          /\ done \in BOOLEAN
          /\ PcOK

\* How often an event occurs in a sequence
Count(s, e) == Cardinality({k \in 1..Len(s) : s[k] = e})

\* Events that hang on an element not yet linked, and all that were enqueued
\* and not yet dequeued, whether they can be seen or not
Hidden(e) == Count(behind["process"], e) + Count(behind["session"], e)
             + Count(behind["sample_rate"], e) + Count(behind["shutdown"], e)
Accepted(e) == Count(queue, e) + Hidden(e)
Queued(e) == Accepted(e) > 0

\* Nothing hangs on a callback's element but while it is about to link it.
HiddenByCalls == \A t \in Callbacks : behind[t] # <<>> => pc[t] = "link"

(***************************************************************************)
(* No lost wake-up: whenever the script blocks in sem_wait of              *)
(* JacksRbClient_get_event although an event can be seen in the queue, the *)
(* semaphore lets it go on, or a callback that has linked its event is yet *)
(* to post it.                                                             *)
(***************************************************************************)
NoLostWakeup ==
    pc["script"] = "wait" /\ queue # <<>> =>
        sem > 0 \/ \E t \in Callbacks : pc[t] = "post"

(***************************************************************************)
(* The session event belongs to one side at a time: while it is enqueued,  *)
(* to be seen or not, in the script's hands, or completed but not yet      *)
(* noticed, the callback is before the end of JacksLatch_get, so that the  *)
(* data the script reads is there and JACK has not freed it; a completion  *)
(* never survives into the next session callback.                          *)
(***************************************************************************)
SessionHandshake ==
    Queued("SESSION") \/ je = "SESSION" \/ latch =>
        data /\ pc["session"] \in {"post", "latch"}

(***************************************************************************)
(* The process callback never uses a slot of ports[] that registerPort has *)
(* not filled, although the script may register ports while JACK runs.     *)
(***************************************************************************)
PortsStored == pc["process"] = "loop" /\ i <= nports => i <= stored

(***************************************************************************)
(* No audio is left behind: when the script has nothing to do but wait,    *)
(* and no process callback runs, all rings are empty, unless JACK has      *)
(* dropped the client.  One event per port and cycle and one read of every *)
(* port per event must suffice however far the script lags behind.  The    *)
(* one exception is the queue's: process events may have been enqueued     *)
(* behind an event of another callback that is about to link it, and then  *)
(* to post the semaphore; no ring holds more than their reads will take.   *)
(***************************************************************************)
NoStrandedAudio ==
    pc["script"] = "wait" /\ queue = <<>> /\ pc["process"] = "idle"
    /\ ~jack.zombie
        => /\ \A p \in Ports : rb[p] <= RbSize * Hidden("PROCESS")
           /\ HiddenByCalls

(***************************************************************************)
(* Rings hold whole samples until an overrun makes JACK drop the client.   *)
(***************************************************************************)
WholeSamples == ~jack.zombie => \A p \in Ports : rb[p] % SampleSize = 0

(***************************************************************************)
(* A session callback whose event went into the queue gets its answer,     *)
(* unless the script has left its loop before: JACK's session thread does  *)
(* not hang in JacksLatch_get.                                             *)
(***************************************************************************)
SessionAnswered ==
    Queued("SESSION") ~> pc["session"] = "idle" \/ pc["script"] = "ended"

\* A queued shutdown event ends the script.
ShutdownDelivered == Queued("SHUTDOWN") ~> pc["script"] = "ended"
-----------------------------------------------------------------------------
(* The inductive invariant behind the safety properties *)

\* Elements of the queue that a thread holds
HeldBy(t) == IF pc[t] = "link" THEN 1 ELSE 0
HeldByScript == IF pc["script"] = "release" THEN 1 ELSE 0

\* Elements behind those that the callbacks hold
Hanging == Len(behind["process"]) + Len(behind["session"])
           + Len(behind["sample_rate"]) + Len(behind["shutdown"])

\* No element of the event queue is lost or made up.
ElementsConserved ==
    free + (Len(queue) + Hanging) + HeldBy("process") + HeldBy("session")
         + HeldBy("sample_rate") + HeldBy("shutdown") + HeldByScript = RbSize

\* The process callback's index is in range once it has written a port, and
\* only while a registerPort is between its two steps do stored and nports
\* differ.
IndexInv == /\ pc["process"] \in {"enqueue", "link", "post"} => i <= nports
            /\ stored = nports + (IF pc["script"] = "register" THEN 1 ELSE 0)

\* The script holds an event only between dequeue and complete.
ScriptInv == pc["script"] \in {"run", "register", "dequeue", "wait", "ended"}
                => je = NoEvent

\* The session event carries data while the callback is at work on it.
DataInv == pc["session"] \in {"enqueue", "link", "post", "latch", "clear"} => data

\* There is one session event: it is enqueued once, or held by the script, or
\* completed.
SessionUnique == Accepted("SESSION") + (IF je = "SESSION" THEN 1 ELSE 0)
                    + (IF latch THEN 1 ELSE 0) <= 1

IInv == /\ TypeOK /\ HiddenByCalls /\ ElementsConserved /\ IndexInv /\ ScriptInv
        /\ DataInv /\ NoLostWakeup /\ SessionHandshake /\ SessionUnique
-----------------------------------------------------------------------------
(* The inductive invariant behind what is said of the audio *)

\* JACK drops a client whose process callback failed, which has returned; and
\* nothing is in a ring the callback does not know of.
DroppedInv == /\ jack.zombie => pc["process"] = "idle"
              /\ \A p \in Ports : p > nports => rb[p] = 0

\* Has the script a process event for which it is yet to read port p?
ScriptOwes(p) == IF \/ pc["script"] \in {"release", "handle"} /\ je = "PROCESS"
                    \/ pc["script"] = "read" /\ reading <= p THEN 1 ELSE 0

\* Has the callback written to port p, and not yet linked the event for it?
CallbackOwes(p) == IF pc["process"] \in {"enqueue", "link"} /\ i = p THEN 1 ELSE 0

\* Every read takes RbSize bytes if they are there, and reads enough are owed
\* to empty every ring.
OwedInv == ~jack.zombie =>
    \A p \in Ports :
        rb[p] <= RbSize * (Accepted("PROCESS") + ScriptOwes(p) + CallbackOwes(p))

AudioInv == DroppedInv /\ OwedInv
=============================================================================
