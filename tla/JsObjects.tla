------------------------------ MODULE JsObjects ------------------------------
(***************************************************************************)
(* The life cycle of the objects behind the bindings of modules/Jacks.i.   *)
(* A script holds proxies.  A proxy refers to a holder (JsClient, JsEvent, *)
(* JsPort...), and the holder to what the library allocated: the client,   *)
(* its latch and its four events, ports.  SWIG keeps a flag for each proxy *)
(* that says whether it owns its holder: the results of constructors are   *)
(* owned, all others are not.  When the interpreter collects an owned      *)
(* proxy the destructor of Jacks.i runs, and it frees the library's object *)
(* too.  JACK's threads use the same objects until the client is closed.   *)
(*                                                                         *)
(* The flag is %OWNER in Perl, own in Python and Lua, dfree in Ruby; Perl  *)
(* and Python let a script change it and call a destructor.  A holder has  *)
(* the name of its proxy.  "jack" stands for what JACK allocates for the   *)
(* client.  One program opens one client, as the example clients do.  The  *)
(* sample rate and shutdown callbacks, which only queue their event, are   *)
(* left out.                                                               *)
(***************************************************************************)
EXTENDS Naturals, Sequences, FiniteSets

CONSTANTS NULL,
          Languages,  \* of the bindings that were built
          Ports,      \* JacksRbPort objects
          Proxies,    \* proxies that exist at a time
          MaxQueue,   \* events queued at a time
          MaxMisused  \* ways in which one script goes wrong

VARIABLES language,
          mem,        \* "unused", "live" or "freed", for each object
          proxy,      \* kind, impl and ownership of each proxy
          ports,      \* ports[] of the client, nports long
          activated,  \* of the client
          jack,       \* JACK's view: client active, callbacks that are set
          queue,      \* event_queue of the client
          posted,     \* is its latch posted?
          pc, i,      \* of the process and the session callback
          closing,    \* the proxy whose JacksRbClient_free runs
          bad,        \* history: memory used that was not allocated, and by whom,
          twice,      \* memory freed twice,
          misused     \* and what the script did that the example clients do not

callbacks == <<pc, i>>
client == <<ports, activated, jack, queue, posted>>
history == <<bad, twice, misused>>
vars == <<language, mem, proxy, client, callbacks, closing, history>>

EventObjects == {"process_event", "session_event", "sample_rate_event",
                 "shutdown_event"}
ClientObjects == EventObjects \cup {"client", "latch"}
Objects == ClientObjects \cup {"jack"} \cup Ports \cup Proxies

\* Different objects are at different addresses, and none at NULL.
ASSUME ObjectsAssumption ==
    /\ Languages \subseteq {"perl", "python", "ruby", "lua"}
    /\ MaxQueue \in Nat
    /\ MaxMisused \in Nat
    /\ NULL \notin Objects
    /\ Ports \cap Proxies = {}
    /\ (ClientObjects \cup {"jack"}) \cap (Ports \cup Proxies) = {}

\* A JsLatencyRange or a StringList is a value: it refers to nothing else.
Kinds == {"JsClient", "JsEvent", "JsPort", "JsPortBuffer", "value"}
NoProxy == [kind |-> "none"]

NoCallbacks == [active |-> FALSE, process_cb |-> FALSE, latency_arg |-> NULL]

Init == /\ language \in Languages
        /\ mem = [o \in Objects |-> "unused"]
        /\ proxy = [x \in Proxies |-> NoProxy]
        /\ ports = <<>> /\ activated = FALSE /\ jack = NoCallbacks
        /\ queue = <<>> /\ posted = FALSE
        /\ pc = [process |-> "idle", session |-> "idle"]
        /\ i = 1
        /\ closing = NULL
        /\ bad = {} /\ twice = {} /\ misused = {}
-----------------------------------------------------------------------------
(* Memory *)

Alloc(objects) == mem' = [o \in Objects |-> IF o \in objects THEN "live" ELSE mem[o]]

Free(objects) ==
    /\ mem' = [o \in Objects |-> IF o \in objects THEN "freed" ELSE mem[o]]
    /\ twice' = twice \cup {o \in objects : mem[o] = "freed"}

Dead(objects) == {o \in objects : mem[o] # "live"}

\* A thread other than the script's reads or writes objects.
JackTouches(objects) == /\ bad' = bad \cup ({"jack"} \X Dead(objects))
                        /\ UNCHANGED <<twice, misused>>
-----------------------------------------------------------------------------
(* SWIG's runtime and wrappers *)

\* SWIG_NewPointerObj: the result of a method becomes a proxy.
NewPointerObj(x, kind, impl, own) ==
    /\ proxy[x] = NoProxy
    /\ proxy' = [proxy EXCEPT ![x] = [kind |-> kind, impl |-> impl, own |-> own]]

Holds(x, kind) == proxy[x].kind = kind

\* A wrapper converts its proxy to the holder and calls the method, which uses
\* some objects.  The script calls no method of what it has destroyed, and none
\* at all once it has destroyed its client.
Call(x, objects) ==
    /\ closing = NULL
    /\ mem[x] = "live" /\ mem["client"] = "live"
    /\ bad' = bad \cup ({"script"} \X Dead(objects))
    /\ UNCHANGED twice

\* A method that changes nothing here: it only uses objects.
Use(x, kind, objects) ==
    /\ Holds(x, kind)
    /\ Call(x, objects)
    /\ UNCHANGED <<language, mem, proxy, client, callbacks, closing, misused>>

UseClient(x) == Use(x, "JsClient", {"client", "jack"})
UsePort(x)   == Use(x, "JsPort", {proxy[x].impl, "jack"})
UseEvent(x)  == Use(x, "JsEvent", {proxy[x].impl})
UseBuffer(x) == Use(x, "JsPortBuffer", {proxy[x].impl})
UseValue(x)  == Use(x, "value", {})
-----------------------------------------------------------------------------
(* Methods that allocate or change the state of the client *)

NewClient(x) == /\ closing = NULL
                /\ mem["client"] = "unused"
                /\ Alloc(ClientObjects \cup {"jack", x})
                /\ NewPointerObj(x, "JsClient", "client", TRUE)
                /\ UNCHANGED <<language, client, callbacks, closing, history>>

\* JacksRbClient_registerPort: the number of ports is not tested.
StorePort(o) == ports' = Append(ports, o)

RegisterPort(c, x, o) ==
    /\ Holds(c, "JsClient") /\ mem[o] = "unused"
    /\ Call(c, {"client", "jack"})
    /\ Alloc({o, x})
    /\ StorePort(o)
    /\ NewPointerObj(x, "JsPort", o, FALSE)
    /\ UNCHANGED <<language, activated, jack, queue, posted, callbacks, closing, misused>>

\* A port found by name gets a JacksRbPort of its own.
GetPort(c, x, o) ==
    /\ Holds(c, "JsClient") /\ mem[o] = "unused"
    /\ Call(c, {"client", "jack"})
    /\ Alloc({o, x})
    /\ NewPointerObj(x, "JsPort", o, FALSE)
    /\ UNCHANGED <<language, client, callbacks, closing, misused>>

GetPortNames(c, x) ==
    /\ Holds(c, "JsClient")
    /\ Call(c, {"client", "jack"})
    /\ Alloc({x})
    /\ NewPointerObj(x, "value", NULL, FALSE)
    /\ UNCHANGED <<language, client, callbacks, closing, misused>>

\* Mutant: getEvent declared to return a new object.
GetEventOwned(c, x) ==
    /\ Holds(c, "JsClient") /\ queue # <<>>
    /\ Call(c, {"client"})
    /\ Alloc({x})
    /\ queue' = Tail(queue)
    /\ NewPointerObj(x, "JsEvent", Head(queue), TRUE)
    /\ UNCHANGED <<language, ports, activated, jack, posted, callbacks, closing, misused>>

GetEvent(c, x) ==
    /\ Holds(c, "JsClient") /\ queue # <<>>
    /\ Call(c, {"client"})
    /\ Alloc({x})
    /\ queue' = Tail(queue)
    /\ NewPointerObj(x, "JsEvent", Head(queue), FALSE)
    /\ UNCHANGED <<language, ports, activated, jack, posted, callbacks, closing, misused>>

\* JACK sets no callback of an active client (external), and the result is
\* ignored.  registerPort has set process_audio.
Activate(c) ==
    /\ Holds(c, "JsClient") /\ ~activated
    /\ LET process_audio == ports # <<>>
       IN  /\ activated' = process_audio
           /\ jack' = [jack EXCEPT !.active = TRUE,
                          !.process_cb = @ \/ (process_audio /\ ~jack.active)]
    /\ Call(c, {"client", "jack"})
    /\ UNCHANGED <<language, mem, proxy, ports, queue, posted, callbacks, closing, misused>>

\* The buffer's holder points to the framebuf of the port.
GetBuffer(p, x) ==
    /\ Holds(p, "JsPort")
    /\ Call(p, {proxy[p].impl})
    /\ Alloc({x})
    /\ NewPointerObj(x, "JsPortBuffer", proxy[p].impl, FALSE)
    /\ UNCHANGED <<language, client, callbacks, closing, misused>>

GetLatencyRange(p, x) ==
    /\ Holds(p, "JsPort")
    /\ Call(p, {proxy[p].impl, "jack"})
    /\ Alloc({x})
    /\ NewPointerObj(x, "value", NULL, FALSE)
    /\ UNCHANGED <<language, client, callbacks, closing, misused>>

\* jack_set_latency_callback with the port as argument
InitLatencyListener(p) ==
    /\ Holds(p, "JsPort")
    /\ Call(p, {proxy[p].impl, "client", "jack"})
    /\ jack' = IF jack.active THEN jack
                              ELSE [jack EXCEPT !.latency_arg = proxy[p].impl]
    /\ UNCHANGED <<language, mem, proxy, ports, activated, queue, posted, callbacks,
                   closing, misused>>

\* JacksEvent_complete: the session event's token posts the latch.
Complete(e) ==
    /\ Holds(e, "JsEvent")
    /\ IF proxy[e].impl = "session_event"
       THEN Call(e, {"session_event", "latch"}) /\ posted' = TRUE
       ELSE Call(e, {proxy[e].impl}) /\ UNCHANGED posted
    /\ UNCHANGED <<language, mem, proxy, ports, activated, jack, queue, callbacks,
                   closing, misused>>
-----------------------------------------------------------------------------
(* Destruction *)

Members(seq) == {seq[k] : k \in DOMAIN seq}

\* JACK's threads may use port o.
InUse(o) == mem["jack"] = "live" /\ o \in Members(ports) \cup {jack.latency_arg}

\* The script holds a buffer of port o.
HasBuffer(o) == \E x \in Proxies : proxy[x].kind = "JsPortBuffer" /\ proxy[x].impl = o

\* Mutant: the destructor of a buffer frees the samples too.
FreesSamples(x) == IF proxy[x].kind \in {"JsEvent", "JsPort", "JsPortBuffer"}
                   THEN {proxy[x].impl, x} ELSE {x}

\* What a destructor of Jacks.i frees.
Frees(x) == IF proxy[x].kind \in {"JsEvent", "JsPort"} THEN {proxy[x].impl, x} ELSE {x}

\* The destructor of the client takes several steps, from here to FreeClient.
Destroy(x) ==
    LET kind == proxy[x].kind
        impl == proxy[x].impl
    IN  IF kind = "JsClient"
        THEN closing' = x /\ UNCHANGED <<mem, history>>
        ELSE /\ Free(Frees(x))
             /\ misused' = misused \cup
                   {m \in {"freed_event"} : kind = "JsEvent"} \cup
                   {m \in {"freed_port"} : kind = "JsPort" /\ InUse(impl)} \cup
                   {m \in {"freed_buffer"} : kind = "JsPort" /\ HasBuffer(impl)}
             /\ UNCHANGED <<closing, bad>>

\* Languages in which a script can reach the ownership flag and destructors.
Explicit == language \in {"perl", "python"}

\* ACQUIRE and DISOWN in Perl, thisown in Python
Acquire(x) == /\ Explicit /\ closing = NULL /\ proxy[x] # NoProxy
              /\ mem[x] = "live"
              /\ \E own \in BOOLEAN : proxy' = [proxy EXCEPT ![x].own = own]
              /\ UNCHANGED <<language, mem, client, callbacks, closing, history>>

\* Mutant: the wrapper of the destructor leaves the ownership as it is.
DeleteOwned(x) == /\ Explicit /\ closing = NULL /\ proxy[x] # NoProxy
                  /\ mem[x] = "live"
                  /\ Destroy(x)
                  /\ UNCHANGED <<language, proxy, client, callbacks>>

\* The wrapper of a destructor converts its argument with SWIG_POINTER_DISOWN.
Delete(x) == /\ Explicit /\ closing = NULL /\ proxy[x] # NoProxy
             /\ mem[x] = "live"
             /\ proxy' = [proxy EXCEPT ![x].own = FALSE]
             /\ Destroy(x)
             /\ UNCHANGED <<language, client, callbacks>>

\* The interpreter collects a proxy, at any time and in any order.  A holder that
\* is not owned is never freed; its name is free for another.
Collect(x) ==
    /\ closing = NULL /\ proxy[x] # NoProxy
    /\ proxy' = [proxy EXCEPT ![x] = NoProxy]
    /\ IF proxy[x].own THEN Destroy(x)
                       ELSE /\ mem' = [mem EXCEPT ![x] = "unused"]
                            /\ UNCHANGED <<closing, history>>
    /\ UNCHANGED <<language, client, callbacks>>

\* Mutant: the events and the latch go before the client is closed.
FreeThenClose ==
    \/ /\ closing # NULL /\ mem["client"] # "freed"
       /\ Free(ClientObjects \cup {closing})
       /\ UNCHANGED <<language, proxy, client, callbacks, closing, bad, misused>>
    \/ /\ closing # NULL /\ mem["client"] = "freed"
       /\ pc = [process |-> "idle", session |-> "idle"]
       /\ Free({"jack"})
       /\ closing' = NULL
       /\ UNCHANGED <<language, proxy, client, callbacks, bad, misused>>

\* jack_client_close (external): no callback starts any more, those that run come
\* to an end, and one that waits is cancelled.
CloseJack == /\ closing # NULL /\ mem["jack"] = "live"
             /\ pc.process = "idle" /\ pc.session \in {"idle", "latch"}
             /\ pc' = [pc EXCEPT !.session = "idle"]
             /\ Free({"jack"})
             /\ UNCHANGED <<language, proxy, client, i, closing, bad, misused>>

\* The queue, ports[] and the ports remain allocated, but out of reach.
FreeClient == /\ closing # NULL /\ mem["jack"] = "freed"
              /\ Free(ClientObjects \cup {closing})
              /\ ports' = <<>> /\ activated' = FALSE /\ jack' = NoCallbacks
              /\ queue' = <<>> /\ posted' = FALSE
              /\ closing' = NULL
              /\ UNCHANGED <<language, proxy, callbacks, bad, misused>>

\* JacksRbClient_free, and the holder
ClientFree == CloseJack \/ FreeClient
-----------------------------------------------------------------------------
(* JACK's threads *)

JackRuns == mem["jack"] = "live" /\ jack.active

HasRoom == Len(queue) < MaxQueue

\* queue_enqueue, which loses the event when there is no room
Enqueue(event) == queue' = IF HasRoom THEN Append(queue, event) ELSE queue

ProcessCall == /\ JackRuns /\ jack.process_cb /\ closing = NULL
               /\ pc.process = "idle"
               /\ pc' = [pc EXCEPT !.process = "loop"]
               /\ i' = 1
               /\ UNCHANGED <<language, mem, proxy, client, closing, history>>

\* Mutant: the loop goes one port too far.
ProcessPortOneMore ==
    /\ pc.process = "loop" /\ i <= Len(ports) + 1
    /\ JackTouches({"client", "jack"} \cup {ports[k] : k \in {i} \cap DOMAIN ports})
    /\ Enqueue("process_event")
    /\ IF HasRoom THEN i' = i + 1 /\ UNCHANGED pc
                  ELSE i' = 1 /\ pc' = [pc EXCEPT !.process = "idle"]
    /\ UNCHANGED <<language, mem, proxy, ports, activated, jack, posted, closing>>

\* The audio of one port, and its event, which is stored and not used.  If there
\* is no room for it the callback returns.  The index is a local variable: it is 1
\* where it has no value.
ProcessPort ==
    /\ pc.process = "loop" /\ i <= Len(ports)
    /\ JackTouches({"client", "jack", ports[i]})
    /\ Enqueue("process_event")
    /\ IF HasRoom THEN i' = i + 1 /\ UNCHANGED pc
                  ELSE i' = 1 /\ pc' = [pc EXCEPT !.process = "idle"]
    /\ UNCHANGED <<language, mem, proxy, ports, activated, jack, posted, closing>>

ProcessReturn == /\ pc.process = "loop" /\ i > Len(ports)
                 /\ JackTouches({"client"})
                 /\ pc' = [pc EXCEPT !.process = "idle"]
                 /\ i' = 1
                 /\ UNCHANGED <<language, mem, proxy, client, closing>>

\* The callback waits for its answer also when its event was lost.
SessionCall == /\ JackRuns /\ closing = NULL
               /\ pc.session = "idle"
               /\ JackTouches({"client", "session_event"})
               /\ Enqueue("session_event")
               /\ pc' = [pc EXCEPT !.session = "latch"]
               /\ UNCHANGED <<language, mem, proxy, ports, activated, jack, posted, i,
                              closing>>

SessionLatch == /\ pc.session = "latch" /\ posted
                /\ JackTouches({"client", "latch"})
                /\ posted' = FALSE
                /\ pc' = [pc EXCEPT !.session = "reply"]
                /\ UNCHANGED <<language, mem, proxy, ports, activated, jack, queue, i,
                               closing>>

SessionReply == /\ pc.session = "reply"
                /\ JackTouches({"client", "session_event", "jack"})
                /\ pc' = [pc EXCEPT !.session = "idle"]
                /\ UNCHANGED <<language, mem, proxy, client, i, closing>>

LatencyCall == /\ JackRuns /\ closing = NULL /\ jack.latency_arg # NULL
               /\ JackTouches({jack.latency_arg})
               /\ UNCHANGED <<language, mem, proxy, client, callbacks, closing>>
-----------------------------------------------------------------------------
Method(x) == \/ UseClient(x) \/ UsePort(x) \/ UseEvent(x) \/ UseBuffer(x) \/ UseValue(x)
             \/ NewClient(x) \/ Activate(x) \/ InitLatencyListener(x)
             \/ Complete(x)
             \/ \E y \in Proxies : \/ GetPortNames(x, y) \/ GetEvent(x, y)
                                   \/ GetBuffer(x, y) \/ GetLatencyRange(x, y)
             \/ \E y \in Proxies, o \in Ports : RegisterPort(x, y, o) \/ GetPort(x, y, o)

Script == \E x \in Proxies : Method(x) \/ Acquire(x) \/ Delete(x) \/ Collect(x)

Jack == \/ ProcessCall \/ ProcessPort \/ ProcessReturn
        \/ SessionCall \/ SessionLatch \/ SessionReply
        \/ LatencyCall

\* What follows a use of freed memory is undefined, and not modelled; nor is what
\* follows when a script destroys an event, which belongs to the client.  One
\* script goes wrong in few ways.
Defined == /\ bad = {} /\ twice = {}
           /\ "freed_event" \notin misused
           /\ Cardinality(misused) <= MaxMisused

Next == Defined /\ (Script \/ ClientFree \/ Jack)

Spec == Init /\ [][Next]_vars
-----------------------------------------------------------------------------
\* Types of the variables.
TypeOK ==
    /\ language \in Languages
    /\ mem \in [Objects -> {"unused", "live", "freed"}]
    /\ \A x \in Proxies : \/ proxy[x] = NoProxy
                          \/ /\ proxy[x].kind \in Kinds
                             /\ proxy[x].impl \in Objects \cup {NULL}
                             /\ proxy[x].own \in BOOLEAN
    /\ Members(ports) \subseteq Ports
    /\ Members(queue) \subseteq EventObjects
    /\ i \in 1..(Len(ports) + 1)
    /\ closing \in Proxies \cup {NULL}
    /\ misused \subseteq {"freed_event", "freed_port", "freed_buffer"}

(***************************************************************************)
(* JACK's threads never use freed memory, whenever the script drops its    *)
(* proxies or destroys its client, in whatever order, unless it destroys a *)
(* JsEvent, or the JsPort of a port that the callbacks know.  In           *)
(* particular the session callback waits on a latch that exists.           *)
(***************************************************************************)
CallbacksSafe ==
    misused \cap {"freed_event", "freed_port"} = {} =>
        /\ \A o \in Objects : <<"jack", o>> \notin bad
        /\ pc.session = "latch" => mem["latch"] = "live"

(***************************************************************************)
(* A script that destroys no JsEvent, no port that JACK knows and none of  *)
(* which it keeps a buffer never meets freed memory: taking ownership of   *)
(* buffers, ranges, lists and ports found by name is safe.                 *)
(***************************************************************************)
ScriptSafe == misused = {} => bad = {}

(***************************************************************************)
(* Nothing is freed twice by a destructor that the script calls and the    *)
(* collection of the same proxy, or by two holders of one object, unless   *)
(* the script destroys a JsEvent, whose object belongs to the client too.  *)
(***************************************************************************)
FreedOnce == "freed_event" \notin misused => twice = {}

(***************************************************************************)
(* In Ruby and Lua, where only the collector runs destructors, a script    *)
(* that keeps its client and makes events and ports only through it can do *)
(* no harm: no event and no port is destroyed that something else refers   *)
(* to, neither the script nor JACK ever meets freed memory, and nothing is *)
(* freed twice.                                                            *)
(***************************************************************************)
CollectorSafe ==
    language \in {"ruby", "lua"} => misused = {} /\ bad = {} /\ twice = {}
-----------------------------------------------------------------------------
(* The inductive invariant behind these *)

HeapTypes ==
    /\ language \in Languages
    /\ mem \in [Objects -> {"unused", "live", "freed"}]
    /\ proxy \in [Proxies -> {NoProxy} \cup
                      [kind : Kinds, impl : Objects \cup {NULL}, own : BOOLEAN]]
    /\ closing \in Proxies \cup {NULL}
    /\ misused \subseteq {"freed_event", "freed_port", "freed_buffer"}

ClientTypes ==
    /\ ports \in Seq(Ports) /\ queue \in Seq(EventObjects)
    /\ activated \in BOOLEAN /\ posted \in BOOLEAN
    /\ jack \in [active : BOOLEAN, process_cb : BOOLEAN, latency_arg : Ports \cup {NULL}]
    /\ pc \in [process : {"idle", "loop"}, session : {"idle", "latch", "reply"}]
    /\ i \in 1..(Len(ports) + 1)
    /\ pc.process = "idle" => i = 1

TypesInv == HeapTypes /\ ClientTypes

\* The client's objects are allocated and freed together, what JACK has for it is
\* freed before them, and no callback runs without it.
ClientInv ==
    /\ \A o \in ClientObjects : mem[o] = mem["client"]
    /\ closing = NULL => mem["jack"] = mem["client"]
    /\ closing # NULL => mem["client"] = "live" /\ mem[closing] = "live"
    /\ mem["jack"] # "live" => pc = [process |-> "idle", session |-> "idle"]
    /\ mem["client"] # "live" => ports = <<>> /\ jack = NoCallbacks

IsProxy(x) == proxy[x] # NoProxy

\* An owned holder is allocated, that of the client no longer than the client is,
\* and that of a port no longer than the port is.
HolderInv(x) ==
    /\ IsProxy(x) /\ proxy[x].own => mem[x] = "live"
    /\ Holds(x, "JsClient") => /\ mem["client"] # "unused"
                               /\ mem[x] = "live" => mem["client"] = "live"
                               /\ closing # NULL => x = closing
    /\ Holds(x, "JsEvent") => proxy[x].impl \in EventObjects
    /\ Holds(x, "JsPort") => /\ proxy[x].impl \in Ports
                             /\ mem[proxy[x].impl] # "unused"
                             /\ mem[x] = "live" => mem[proxy[x].impl] = "live"
    /\ Holds(x, "JsPortBuffer") => proxy[x].impl \in Ports
    /\ IsProxy(x) /\ x = closing => Holds(x, "JsClient") /\ ~proxy[x].own

\* One proxy is the client's, and one at most is of a port.
UnsharedInv ==
    \A x, y \in Proxies :
        /\ Holds(x, "JsClient") /\ Holds(y, "JsClient") => x = y
        /\ Holds(x, "JsPort") /\ Holds(y, "JsPort") /\ proxy[x].impl = proxy[y].impl => x = y

ProxyInv == UnsharedInv /\ \A x \in Proxies : HolderInv(x)

\* What JACK's threads and buffers refer to is allocated, unless a port was freed
\* under them.
PortsInv ==
    /\ "freed_port" \notin misused => \A o \in Ports : InUse(o) => mem[o] = "live"
    /\ "freed_buffer" \notin misused =>
          \A x \in Proxies : Holds(x, "JsPortBuffer") => mem[proxy[x].impl] = "live"

\* Without access to the ownership flag only the client is owned.
CollectInv ==
    ~Explicit => /\ misused = {}
                 /\ \A x \in Proxies : IsProxy(x) /\ proxy[x].own => Holds(x, "JsClient")

SafeInv == CallbacksSafe /\ ScriptSafe /\ FreedOnce

\* After the script has destroyed an event nothing more is claimed.
IInv == /\ TypesInv /\ CollectInv /\ SafeInv
        /\ "freed_event" \notin misused => ClientInv /\ ProxyInv /\ PortsInv
=============================================================================
