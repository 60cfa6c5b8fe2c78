----------------------------- MODULE SessionApi -----------------------------
(***************************************************************************)
(* The session part of JsEvent: the accessors through which a script reads *)
(* and answers a JACK session event, against the session callback that     *)
(* hands the event over, waits for complete(), takes it back, replies and  *)
(* frees it.  Every accessor reads the event's data pointer, records an    *)
(* exception when it is NULL, and follows it; the wrapper around each call *)
(* clears the exception before and looks for it after.                     *)
(*                                                                         *)
(* The event queue, which JacksRbClient and LfdsQueue model, is a sequence *)
(* here, and the latch, which JacksLatch models, a flag.                   *)
(***************************************************************************)
EXTENDS Naturals, Sequences

CONSTANTS
  NULL,
  MaxSessions, \* session events JACK sends
  MaxQueue     \* events queued at a time

ASSUME SessionAssumption ==
  /\ NULL \notin Nat /\ NULL # "set"
  /\ MaxSessions \in Nat
  /\ MaxQueue \in Nat

VARIABLES
  jack,         \* where the session callback is
  session,      \* the session event it was called with, counted from 1
  live,         \* session events that are not freed
  data,         \* data of the client's session JacksEvent
  posted,       \* its completion latch
  queue,        \* queued events
  script,       \* where the script is
  event,        \* the event it holds
  completions,  \* its calls of complete() for that event, up to two
  method,       \* the accessor it calls
  se,           \* local variable of the accessor
  command_line, \* of the session event: NULL or "set"
  error_status, \* the recorded exception
  answered,     \* history: sessions the script completed,
  told,         \* sessions it set the command line of,
  replied,      \* sessions JACK was replied to,
  sent,         \* those of them replied to with a command line,
  misused       \* and what the script did that the example clients do not

jvars == <<jack, session, live, data, replied, sent>>
svars == <<script, event, completions, method, se, error_status, answered, told,
           misused>>
vars == <<jvars, svars, command_line, posted, queue>>

(* An event: its type and, for the history, the session it was queued for. *)
Event(type, n) == [type |-> type, session |-> n]
NoEvent == Event("NONE", 0)

(* The setter of the command line, and the other accessors                 *)
Methods == {"setCommandLine", "other"}

Init ==
  /\ jack = "idle" /\ session = 0 /\ live = {} /\ data = NULL
  /\ replied = {} /\ sent = {}
  /\ posted = FALSE
  /\ queue = <<>>
  /\ script = "get_event" /\ event = NoEvent /\ completions = 0
  /\ method = "other" /\ command_line = NULL
  /\ se = NULL /\ error_status = 0 /\ answered = {} /\ told = {} /\ misused = {}

-----------------------------------------------------------------------------
(* JACK's threads.                                                         *)

\* A crash of the script ends JACK's threads too.
Running == script # "crashed"

\* JacksEvent_set_data of the session event
SetData(d) == data' = d

(* JACK leaves the command line of a new session event to the client.      *)
SessionCall ==
  /\ Running /\ jack = "idle"
  /\ session < MaxSessions
  /\ session' = session + 1
  /\ live' = live \cup {session'}
  /\ SetData(session')
  /\ command_line' = NULL
  /\ jack' = "enqueue"
  /\ UNCHANGED <<replied, sent, svars, posted, queue>>

\* queue_enqueue, whose result the callback ignores: on a full queue the event
\* is lost and the callback waits all the same.
Enqueue(e) == queue' = IF Len(queue) < MaxQueue THEN Append(queue, e) ELSE queue

\* Mutant: the callback takes its data back at once.
SessionEnqueueClears ==
  /\ Running /\ jack = "enqueue"
  /\ Enqueue(Event("SESSION", session))
  /\ SetData(NULL)
  /\ jack' = "latch"
  /\ UNCHANGED <<session, live, replied, sent, svars, command_line, posted>>

\* Mutant: the callback does not wait.
SessionEnqueueNoWait ==
  /\ Running /\ jack = "enqueue"
  /\ Enqueue(Event("SESSION", session))
  /\ jack' = "clear"
  /\ UNCHANGED <<session, live, data, replied, sent, svars, command_line, posted>>

SessionEnqueue ==
  /\ Running /\ jack = "enqueue"
  /\ Enqueue(Event("SESSION", session))
  /\ jack' = "latch"
  /\ UNCHANGED <<session, live, data, replied, sent, svars, command_line, posted>>

\* Mutant: the latch stays posted.
LatchKept == posted /\ UNCHANGED posted

LatchTaken == posted /\ posted' = FALSE

SessionLatch ==
  /\ Running /\ jack = "latch"
  /\ LatchTaken
  /\ jack' = "clear"
  /\ UNCHANGED <<session, live, data, replied, sent, svars, command_line, queue>>

SessionClear ==
  /\ Running /\ jack = "clear"
  /\ SetData(NULL)
  /\ jack' = "reply"
  /\ UNCHANGED <<session, live, replied, sent, svars, command_line, posted, queue>>

SessionReply ==
  /\ Running /\ jack = "reply"
  /\ replied' = replied \cup {session}
  /\ sent' = IF command_line # NULL THEN sent \cup {session} ELSE sent
  /\ jack' = "free"
  /\ UNCHANGED <<session, live, data, svars, command_line, posted, queue>>

SessionFree ==
  /\ Running /\ jack = "free"
  /\ live' = live \ {session}
  /\ jack' = "idle"
  /\ UNCHANGED <<session, data, replied, sent, svars, command_line, posted, queue>>

(* Some other callback queues its event, or loses it to a full queue.      *)
OtherCall ==
  /\ Running
  /\ Enqueue(Event("PROCESS", 0))
  /\ UNCHANGED <<jvars, svars, command_line, posted>>

-----------------------------------------------------------------------------
(* The script.                                                             *)

GetEvent ==
  /\ script = "get_event"
  /\ queue # <<>>
  /\ event' = Head(queue)
  /\ queue' = Tail(queue)
  /\ script' = "handle"
  /\ completions' = 0
  /\ UNCHANGED <<jvars, posted, method, se, command_line, error_status,
                 answered, told, misused>>

(* The example clients ask only session events, and none that is           *)
(* completed.                                                              *)
Misuse == IF event.type = "SESSION" /\ completions = 0 THEN {} ELSE {"asked"}

(* The script calls an accessor; the wrapper clears the exception.         *)
Call ==
  /\ script = "handle"
  /\ error_status' = 0
  /\ method' \in Methods
  /\ misused' = misused \cup Misuse
  /\ script' = "get_data"
  /\ UNCHANGED <<jvars, posted, queue, event, completions, se, command_line,
                 answered, told>>

(* Only the session event ever has data.                                   *)
GetData ==
  /\ script = "get_data"
  /\ se' = IF event.type = "SESSION" THEN data ELSE NULL
  /\ script' = "test"
  /\ UNCHANGED <<jvars, posted, queue, event, completions, method, command_line, error_status,
                 answered, told, misused>>

(* throw_exception records the exception, and returns.                     *)
ThrowException == error_status' = 1

TestData ==
  /\ script = "test"
  /\ IF se = NULL THEN ThrowException ELSE UNCHANGED error_status
  /\ script' = "access"
  /\ UNCHANGED <<jvars, posted, queue, event, completions, method, se, command_line,
                 answered, told, misused>>

(* The accessor reads or writes *se; a NULL pointer ends the program, and  *)
(* what is written to a freed session event is lost.                       *)
Access ==
  /\ script = "access"
  /\ script' = IF se = NULL THEN "crashed" ELSE "check"
  /\ command_line' = IF method = "setCommandLine" /\ se \in live
                     THEN "set" ELSE command_line
  /\ told' = IF method = "setCommandLine" /\ se # NULL
             THEN told \cup {event.session} ELSE told
  /\ UNCHANGED <<jvars, posted, queue, event, completions, method, se, error_status,
                 answered, misused>>

\* check_exception
Recorded == error_status = 1

(* The wrapper raises the exception, of which the script may make what it  *)
(* likes, or returns.                                                      *)
CheckException ==
  /\ script = "check"
  /\ se' = NULL
  /\ method' = "other"
  /\ script' = IF Recorded THEN "raised" ELSE "handle"
  /\ UNCHANGED <<jvars, posted, queue, event, completions, command_line, error_status,
                 answered, told, misused>>

(* JacksEvent_complete: the session event's token is JacksLatch_post.  The *)
(* example clients complete an event once.                                 *)
Complete ==
  /\ script = "handle"
  /\ completions < 2
  /\ completions' = completions + 1
  /\ misused' = IF completions = 0 THEN misused ELSE misused \cup {"completed"}
  /\ IF event.type = "SESSION"
     THEN posted' = TRUE /\ answered' = answered \cup {event.session}
     ELSE UNCHANGED <<posted, answered>>
  /\ UNCHANGED <<jvars, queue, script, event, method, se, command_line, error_status,
                 told>>

(* On to the next event.                                                   *)
NextEvent ==
  /\ script = "handle"
  /\ completions > 0
  /\ script' = "get_event"
  /\ event' = NoEvent
  /\ UNCHANGED <<jvars, posted, queue, completions, method, se, command_line, error_status,
                 answered, told, misused>>

SessionCallback == \/ SessionCall \/ SessionEnqueue \/ SessionLatch
                   \/ SessionClear \/ SessionReply \/ SessionFree
Accessor == Call \/ GetData \/ TestData \/ Access \/ CheckException
Script == GetEvent \/ Accessor \/ Complete \/ NextEvent
Next == SessionCallback \/ OtherCall \/ Script

Spec == Init /\ [][Next]_vars

-----------------------------------------------------------------------------
(* An accessor follows its pointer only into a session event that JACK has *)
(* not freed, and it is the one the callback waits for: a script that      *)
(* completes each event once and asks only session events it has not       *)
(* completed never meets a NULL pointer or freed memory, although the      *)
(* callback clears data and frees the event in another thread.             *)
AccessLive == script = "access" /\ misused = {} => se \in live /\ se = session

(* "jack will wait in the background until you set the completion token on *)
(* the event" (jacks.pod.in): a session is replied to only after the       *)
(* script has completed that very session's event, whatever the script     *)
(* asks of which event, unless it completed some event twice.              *)
WaitsForCompletion == "completed" \notin misused => replied \subseteq answered

(* "tell jackd how to restart us" (capture_client.pl): JACK is replied to  *)
(* with a command line for exactly those sessions for which the script     *)
(* called setCommandLine, although the callback replies and frees the      *)
(* event in another thread and the next session may have begun: an answer  *)
(* is neither lost nor given for another session.  The script is one that  *)
(* asks only session events, before it completes them, once.               *)
CommandLineSent == misused = {} => sent = told \cap replied

-----------------------------------------------------------------------------
(* The inductive invariant behind these.                                   *)

TypesInv ==
  /\ jack \in {"idle", "enqueue", "latch", "clear", "reply", "free"}
  /\ session \in Nat
  /\ posted \in BOOLEAN
  /\ queue \in Seq([type : {"SESSION", "PROCESS"}, session : Nat])
  /\ event \in [type : {"SESSION", "PROCESS", "NONE"}, session : Nat]
  /\ completions \in 0 .. 2
  /\ script \in {"get_event", "handle", "get_data", "test", "access", "check",
                "raised", "crashed"}
  /\ method \in Methods
  /\ command_line \in {NULL, "set"}

(* JACK's event exists while the callback runs, and the JacksEvent points  *)
(* at it until the callback has its answer.                                *)
CallbackInv ==
  /\ live = IF jack = "idle" THEN {} ELSE {session}
  /\ data = IF jack \in {"enqueue", "latch", "clear"} THEN session ELSE NULL

(* The script has the session event and has not completed it.              *)
InHand == event.type = "SESSION" /\ completions = 0

(* The session event is in one place: queued once, in the script's hands,  *)
(* or completed, and all this while the callback waits for it.             *)
HandshakeInv ==
  /\ \A k \in 1 .. Len(queue) : queue[k].type = "SESSION" =>
       /\ jack = "latch" /\ ~posted /\ ~InHand
       /\ queue[k].session = session
  /\ \A k, l \in 1 .. Len(queue) :
       queue[k].type = "SESSION" /\ queue[l].type = "SESSION" => k = l
  /\ InHand => jack = "latch" /\ ~posted /\ event.session = session
  /\ posted => jack = "latch"
  /\ posted \/ jack \in {"clear", "reply", "free"} => session \in answered

(* An accessor that is not misused asks the event in hand.                 *)
AccessorInv ==
  /\ script \in {"get_data", "test", "access"} /\ "asked" \notin misused => InHand
  /\ script \in {"test", "access"} /\ misused = {} => se = session

(* Until the reply, the live event has a command line when the script has  *)
(* set that very session's.                                                *)
CommandInv ==
  /\ jack # "idle" => session > 0
  /\ told \subseteq 1 .. session /\ replied \subseteq 1 .. session
  /\ jack \in {"enqueue", "latch", "clear", "reply"} =>
       session \notin replied /\ (command_line # NULL <=> session \in told)
  /\ sent = told \cap replied

IInv ==
  /\ TypesInv /\ CallbackInv /\ AccessorInv
  /\ "completed" \notin misused => HandshakeInv /\ replied \subseteq answered
  /\ misused = {} => CommandInv
=============================================================================
