--------------------------- MODULE JsObjectsProofs ---------------------------
(***************************************************************************)
(* Proofs about JsObjects: the life cycle of the objects behind a script's *)
(* proxies, for every number of proxies and ports, every capacity of the   *)
(* event queue and any number of ways in which one script goes wrong.      *)
(***************************************************************************)
EXTENDS JsObjects, SequenceTheorems, TLAPS

(***************************************************************************)
(* Objects of different kinds are different.                               *)
(***************************************************************************)
LEMMA Distinct ==
    /\ "client" \in ClientObjects /\ "latch" \in ClientObjects
    /\ EventObjects \subseteq ClientObjects
    /\ "session_event" \in EventObjects /\ "process_event" \in EventObjects
    /\ "jack" \in Objects /\ "jack" \notin ClientObjects
    /\ \A o \in ClientObjects : o \in Objects /\ o \notin Ports /\ o \notin Proxies /\ o # NULL
    /\ \A o \in Ports : o \in Objects /\ o \notin ClientObjects /\ o \notin Proxies /\ o # NULL /\ o # "jack"
    /\ \A x \in Proxies : x \in Objects /\ x \notin ClientObjects /\ x \notin Ports /\ x # NULL /\ x # "jack"
BY ObjectsAssumption DEF Objects, ClientObjects, EventObjects

LEMMA MembersEmpty == \A o : o \notin Members(<<>>)
BY DEF Members

LEMMA MembersAppend ==
    ASSUME NEW s \in Seq(Ports), NEW o \in Ports
    PROVE  Members(Append(s, o)) = Members(s) \cup {o}
<1>1. /\ DOMAIN s = 1..Len(s) /\ Len(s) \in Nat
      /\ DOMAIN Append(s, o) = 1..(Len(s) + 1)
      /\ \A k \in 1..Len(s) : Append(s, o)[k] = s[k]
      /\ Append(s, o)[Len(s) + 1] = o
  OBVIOUS
<1> QED
  BY <1>1 DEF Members

\* What kind a proxy has, and which fields.
LEMMA ProxyFacts ==
    ASSUME TypesInv, NEW x \in Proxies
    PROVE  /\ IsProxy(x) => proxy[x] \in [kind : Kinds, impl : Objects \cup {NULL}, own : BOOLEAN]
           /\ \A k \in Kinds : Holds(x, k) => IsProxy(x)
<1>1. NoProxy.kind \notin Kinds
  BY DEF NoProxy, Kinds
<1> QED
  BY <1>1 DEF TypesInv, HeapTypes, ClientTypes, IsProxy, Holds

(***************************************************************************)
(* The steps that leave the memory and the proxies alone: methods that     *)
(* only use objects, and JACK's callbacks.                                 *)
(***************************************************************************)
Calm == /\ UNCHANGED <<language, mem, proxy, ports, closing>>
        /\ pc' = pc \/ mem["jack"] = "live"
        /\ jack' = jack \/ mem["client"] = "live"
        /\ \/ jack'.latency_arg = jack.latency_arg
           \/ \E p \in Proxies : /\ Holds(p, "JsPort") /\ mem[p] = "live"
                                 /\ jack'.latency_arg = proxy[p].impl
        /\ misused' = misused

CalmMethod(x) == \/ UseClient(x) \/ UsePort(x) \/ UseEvent(x) \/ UseBuffer(x) \/ UseValue(x)
                 \/ Activate(x) \/ InitLatencyListener(x) \/ Complete(x)

(***************************************************************************)
(* The methods that return a proxy x the script does not own; a new port   *)
(* may be allocated with it.                                               *)
(***************************************************************************)
Adds(x, kind, impl, new) ==
    /\ closing = NULL /\ mem["client"] = "live" /\ proxy[x] = NoProxy
    /\ new \subseteq Ports /\ \A o \in new : mem[o] = "unused"
    /\ mem' = [o \in Objects |-> IF o \in new \cup {x} THEN "live" ELSE mem[o]]
    /\ proxy' = [proxy EXCEPT ![x] = [kind |-> kind, impl |-> impl, own |-> FALSE]]
    /\ kind \in {"JsEvent", "JsPort", "JsPortBuffer", "value"}
    /\ impl \in Objects \cup {NULL}
    /\ kind = "JsEvent" => impl \in EventObjects
    /\ kind = "JsPort" => impl \in new
    /\ kind = "JsPortBuffer" => impl \in Ports /\ mem[impl] = "live"
    /\ ports' = ports \/ \E o \in new : ports' = Append(ports, o)
    /\ UNCHANGED <<language, jack, callbacks, closing, misused>>

AddsProxy == \E x \in Proxies, kind \in Kinds, impl \in Objects \cup {NULL}, new \in SUBSET Ports :
                Adds(x, kind, impl, new)

MethodAdds(x, y) == \/ GetPortNames(x, y) \/ GetEvent(x, y) \/ GetBuffer(x, y)
                    \/ GetLatencyRange(x, y)
                    \/ \E o \in Ports : RegisterPort(x, y, o) \/ GetPort(x, y, o)

LEMMA CalmMethods ==
    ASSUME TypesInv, NEW x \in Proxies, CalmMethod(x)
    PROVE  Calm
<1>1. CASE UseClient(x) \/ UsePort(x) \/ UseEvent(x) \/ UseBuffer(x) \/ UseValue(x)
  BY <1>1 DEF UseClient, UsePort, UseEvent, UseBuffer, UseValue, Use, Calm, client, callbacks
<1>2. CASE Activate(x)
  <2>1. jack'.latency_arg = jack.latency_arg
    BY <1>2 DEF Activate, TypesInv, HeapTypes, ClientTypes
  <2> QED
    BY <1>2, <2>1 DEF Activate, Call, Calm, callbacks
<1>3. CASE InitLatencyListener(x)
  <2>1. \/ jack'.latency_arg = jack.latency_arg
        \/ jack'.latency_arg = proxy[x].impl
    BY <1>3 DEF InitLatencyListener, TypesInv, HeapTypes, ClientTypes
  <2> QED
    BY <1>3, <2>1 DEF InitLatencyListener, Call, Calm, callbacks
<1>4. CASE Complete(x)
  BY <1>4 DEF Complete, Calm, callbacks
<1> QED
  BY <1>1, <1>2, <1>3, <1>4 DEF CalmMethod

LEMMA CalmJack ==
    ASSUME TypesInv, ClientInv, Jack
    PROVE  Calm
<1>1. pc.process # "idle" \/ pc.session # "idle" => mem["jack"] = "live"
  BY DEF ClientInv
<1>2. CASE ProcessCall
  BY <1>2 DEF ProcessCall, JackRuns, Calm, client, history
<1>3. CASE ProcessPort
  BY <1>1, <1>3 DEF ProcessPort, JackTouches, Calm
<1>4. CASE ProcessReturn
  BY <1>1, <1>4 DEF ProcessReturn, JackTouches, Calm, client
<1>5. CASE SessionCall
  BY <1>5 DEF SessionCall, JackRuns, JackTouches, Calm
<1>6. CASE SessionLatch
  BY <1>1, <1>6 DEF SessionLatch, JackTouches, Calm
<1>7. CASE SessionReply
  BY <1>1, <1>7 DEF SessionReply, JackTouches, Calm, client
<1>8. CASE LatencyCall
  BY <1>8 DEF LatencyCall, JackTouches, Calm, client, callbacks
<1> QED
  BY <1>2, <1>3, <1>4, <1>5, <1>6, <1>7, <1>8 DEF Jack

LEMMA AddsMethods ==
    ASSUME TypesInv, ProxyInv, NEW x \in Proxies, NEW y \in Proxies, MethodAdds(x, y)
    PROVE  AddsProxy
<1> USE DEF NewPointerObj, Call, Alloc, client, callbacks
<1>0. \A a \in {"JsEvent", "JsPort", "JsPortBuffer", "value"} : a \in Kinds
  BY DEF Kinds
<1>1. CASE GetPortNames(x, y)
  <2>1. Adds(y, "value", NULL, {})
    BY <1>1 DEF GetPortNames, Adds
  <2> QED
    BY <1>0, <2>1 DEF AddsProxy
<1>2. CASE GetEvent(x, y)
  <2>1. Head(queue) \in EventObjects
    BY <1>2, HeadTailProperties DEF GetEvent, TypesInv, HeapTypes, ClientTypes
  <2>2. Head(queue) \in Objects
    BY <2>1, Distinct
  <2>3. Adds(y, "JsEvent", Head(queue), {})
    BY <1>2, <2>1, <2>2 DEF GetEvent, Adds
  <2> QED
    BY <1>0, <2>2, <2>3 DEF AddsProxy
<1>3. CASE GetBuffer(x, y)
  <2>1. proxy[x].impl \in Ports /\ mem[proxy[x].impl] = "live" /\ proxy[x].impl \in Objects
    BY <1>3, Distinct DEF GetBuffer, ProxyInv, HolderInv, UnsharedInv
  <2>2. Adds(y, "JsPortBuffer", proxy[x].impl, {})
    BY <1>3, <2>1 DEF GetBuffer, Adds
  <2> QED
    BY <1>0, <2>1, <2>2 DEF AddsProxy
<1>4. CASE GetLatencyRange(x, y)
  <2>1. Adds(y, "value", NULL, {})
    BY <1>4 DEF GetLatencyRange, Adds
  <2> QED
    BY <1>0, <2>1 DEF AddsProxy
<1>5. ASSUME NEW o \in Ports, RegisterPort(x, y, o) \/ GetPort(x, y, o)
      PROVE  AddsProxy
  <2>1. o \in Objects
    BY Distinct
  <2>2. Adds(y, "JsPort", o, {o})
    <3>1. CASE RegisterPort(x, y, o)
      BY <2>1, <3>1 DEF RegisterPort, StorePort, Adds
    <3>2. CASE GetPort(x, y, o)
      BY <2>1, <3>2 DEF GetPort, Adds
    <3> QED
      BY <1>5, <3>1, <3>2
  <2> QED
    BY <1>0, <2>1, <2>2 DEF AddsProxy
<1> QED
  BY <1>1, <1>2, <1>3, <1>4, <1>5 DEF MethodAdds

(***************************************************************************)
(* What a destructor does: of the client, it begins to close it; of any    *)
(* other proxy, it frees the holder, and the port or event of a JsPort or  *)
(* a JsEvent.  A proxy that is not owned is only forgotten.                *)
(***************************************************************************)
Drops(x) == \/ proxy' = [proxy EXCEPT ![x] = NoProxy]
            \/ proxy' = [proxy EXCEPT ![x].own = FALSE]

ClosesClient(x) ==
    /\ closing = NULL /\ Holds(x, "JsClient") /\ mem[x] = "live"
    /\ Drops(x) /\ closing' = x
    /\ UNCHANGED <<language, mem, client, callbacks, history>>

FreesHolder(x) ==
    /\ closing = NULL /\ IsProxy(x) /\ ~Holds(x, "JsClient") /\ mem[x] = "live"
    /\ Explicit \/ proxy[x].own
    /\ Drops(x) /\ Free(Frees(x))
    /\ misused \subseteq misused'
    /\ misused' \subseteq misused \cup {"freed_event", "freed_port", "freed_buffer"}
    /\ Holds(x, "JsEvent") => "freed_event" \in misused'
    /\ Holds(x, "JsPort") /\ InUse(proxy[x].impl) => "freed_port" \in misused'
    /\ Holds(x, "JsPort") /\ HasBuffer(proxy[x].impl) => "freed_buffer" \in misused'
    /\ UNCHANGED <<language, client, callbacks, closing, bad>>

Forgets(x) ==
    /\ closing = NULL /\ IsProxy(x)
    /\ proxy' = [proxy EXCEPT ![x] = NoProxy]
    /\ mem' = [mem EXCEPT ![x] = "unused"]
    /\ UNCHANGED <<language, client, callbacks, closing, history>>

LEMMA Destructors ==
    ASSUME TypesInv, ProxyInv, NEW x \in Proxies, Delete(x) \/ Collect(x)
    PROVE  ClosesClient(x) \/ FreesHolder(x) \/ Forgets(x)
<1>1. ASSUME Destroy(x), IsProxy(x), mem[x] = "live", closing = NULL, Drops(x),
             Explicit \/ proxy[x].own, UNCHANGED <<language, client, callbacks>>
      PROVE  ClosesClient(x) \/ FreesHolder(x)
  <2>1. CASE Holds(x, "JsClient")
    BY <1>1, <2>1 DEF Destroy, ClosesClient, Holds
  <2>2. CASE ~Holds(x, "JsClient")
    <3>1. /\ Free(Frees(x)) /\ UNCHANGED <<closing, bad>>
          /\ misused' = misused \cup
                   {m \in {"freed_event"} : proxy[x].kind = "JsEvent"} \cup
                   {m \in {"freed_port"} : proxy[x].kind = "JsPort" /\ InUse(proxy[x].impl)} \cup
                   {m \in {"freed_buffer"} : proxy[x].kind = "JsPort" /\ HasBuffer(proxy[x].impl)}
      BY <1>1, <2>2 DEF Destroy, Holds
    <3> QED
      BY <1>1, <2>2, <3>1 DEF FreesHolder, Holds
  <2> QED
    BY <2>1, <2>2
<1>2. CASE Delete(x)
  BY <1>1, <1>2 DEF Delete, Drops, IsProxy
<1>3. CASE Collect(x) /\ proxy[x].own
  BY <1>1, <1>3 DEF Collect, Drops, IsProxy, ProxyInv, HolderInv, UnsharedInv
<1>4. CASE Collect(x) /\ ~proxy[x].own
  BY <1>4 DEF Collect, Forgets, IsProxy
<1> QED
  BY <1>2, <1>3, <1>4

LEMMA DropsFacts ==
    ASSUME TypesInv, NEW x \in Proxies, IsProxy(x), Drops(x)
    PROVE  /\ proxy' \in [Proxies -> {NoProxy} \cup
                             [kind : Kinds, impl : Objects \cup {NULL}, own : BOOLEAN]]
           /\ \A y \in Proxies : y # x => proxy'[y] = proxy[y]
           /\ \/ proxy'[x] = NoProxy
              \/ /\ proxy'[x].kind = proxy[x].kind /\ proxy'[x].impl = proxy[x].impl
                 /\ proxy'[x].own = FALSE
<1>1. /\ proxy \in [Proxies -> {NoProxy} \cup
                       [kind : Kinds, impl : Objects \cup {NULL}, own : BOOLEAN]]
      /\ proxy[x] \in [kind : Kinds, impl : Objects \cup {NULL}, own : BOOLEAN]
  BY ProxyFacts DEF TypesInv, HeapTypes, ClientTypes
<1>2. CASE proxy' = [proxy EXCEPT ![x] = NoProxy]
  BY <1>1, <1>2
<1>3. CASE proxy' = [proxy EXCEPT ![x].own = FALSE]
  <2>1. proxy' = [proxy EXCEPT ![x] = [proxy[x] EXCEPT !.own = FALSE]]
    BY <1>3
  <2>2. /\ [proxy[x] EXCEPT !.own = FALSE] \in [kind : Kinds, impl : Objects \cup {NULL}, own : BOOLEAN]
        /\ [proxy[x] EXCEPT !.own = FALSE].kind = proxy[x].kind
        /\ [proxy[x] EXCEPT !.own = FALSE].impl = proxy[x].impl
        /\ [proxy[x] EXCEPT !.own = FALSE].own = FALSE
    BY <1>1
  <2> QED
    BY <1>1, <2>1, <2>2
<1> QED
  BY <1>2, <1>3 DEF Drops

LEMMA FreesFacts ==
    ASSUME TypesInv, ProxyInv, NEW x \in Proxies, FreesHolder(x), "freed_event" \notin misused'
    PROVE  /\ mem' \in [Objects -> {"unused", "live", "freed"}]
           /\ Frees(x) = IF Holds(x, "JsPort") THEN {proxy[x].impl, x} ELSE {x}
           /\ \A o \in Objects : mem'[o] = IF o \in Frees(x) THEN "freed" ELSE mem[o]
           /\ Frees(x) \subseteq Ports \cup Proxies
           /\ twice' = twice
<1>1. Frees(x) = IF Holds(x, "JsPort") THEN {proxy[x].impl, x} ELSE {x}
  BY DEF FreesHolder, Frees, Holds
<1>2. Frees(x) \subseteq Ports \cup Proxies /\ \A o \in Frees(x) : mem[o] = "live"
  <2>1. HolderInv(x) /\ mem[x] = "live"
    BY DEF FreesHolder, ProxyInv
  <2> QED
    BY <1>1, <2>1 DEF HolderInv
<1>3. Frees(x) \subseteq Objects
  BY <1>2, Distinct
<1>4. /\ mem' = [o \in Objects |-> IF o \in Frees(x) THEN "freed" ELSE mem[o]]
      /\ twice' = twice \cup {o \in Frees(x) : mem[o] = "freed"}
  BY DEF FreesHolder, Free
<1> QED
  BY <1>1, <1>2, <1>3, <1>4 DEF TypesInv, HeapTypes, ClientTypes

LEMMA AddsFacts ==
    ASSUME TypesInv, NEW x \in Proxies, NEW kind \in Kinds, NEW impl \in Objects \cup {NULL},
           NEW new \in SUBSET Ports, Adds(x, kind, impl, new)
    PROVE  /\ mem' \in [Objects -> {"unused", "live", "freed"}]
           /\ \A o \in Objects : mem'[o] = IF o \in new \cup {x} THEN "live" ELSE mem[o]
           /\ proxy' \in [Proxies -> {NoProxy} \cup
                             [kind : Kinds, impl : Objects \cup {NULL}, own : BOOLEAN]]
           /\ \A y \in Proxies : y # x => proxy'[y] = proxy[y]
           /\ proxy'[x].kind = kind /\ proxy'[x].impl = impl /\ proxy'[x].own = FALSE
<1>1. /\ mem \in [Objects -> {"unused", "live", "freed"}]
      /\ mem' = [o \in Objects |-> IF o \in new \cup {x} THEN "live" ELSE mem[o]]
  BY DEF Adds, TypesInv, HeapTypes
<1>2. /\ proxy \in [Proxies -> {NoProxy} \cup
                       [kind : Kinds, impl : Objects \cup {NULL}, own : BOOLEAN]]
      /\ proxy' = [proxy EXCEPT ![x] = [kind |-> kind, impl |-> impl, own |-> FALSE]]
  BY DEF Adds, TypesInv, HeapTypes
<1> QED
  BY <1>1, <1>2

LEMMA NewClientFacts ==
    ASSUME TypesInv, NEW x \in Proxies, NewClient(x)
    PROVE  /\ mem' \in [Objects -> {"unused", "live", "freed"}]
           /\ \A o \in Objects : mem'[o] = IF o \in ClientObjects \cup {"jack", x}
                                           THEN "live" ELSE mem[o]
           /\ proxy' \in [Proxies -> {NoProxy} \cup
                             [kind : Kinds, impl : Objects \cup {NULL}, own : BOOLEAN]]
           /\ \A y \in Proxies : y # x => proxy'[y] = proxy[y]
           /\ proxy'[x].kind = "JsClient" /\ proxy'[x].own = TRUE
<1>1. /\ mem \in [Objects -> {"unused", "live", "freed"}]
      /\ mem' = [o \in Objects |-> IF o \in ClientObjects \cup {"jack", x} THEN "live" ELSE mem[o]]
  BY DEF NewClient, Alloc, TypesInv, HeapTypes
<1>2. /\ proxy \in [Proxies -> {NoProxy} \cup
                       [kind : Kinds, impl : Objects \cup {NULL}, own : BOOLEAN]]
      /\ proxy' = [proxy EXCEPT ![x] = [kind |-> "JsClient", impl |-> "client", own |-> TRUE]]
  BY DEF NewClient, NewPointerObj, TypesInv, HeapTypes
<1>3. "JsClient" \in Kinds /\ "client" \in Objects
  BY Distinct DEF Kinds
<1> QED
  BY <1>1, <1>2, <1>3

LEMMA AcquireFacts ==
    ASSUME TypesInv, NEW x \in Proxies, Acquire(x)
    PROVE  /\ proxy' \in [Proxies -> {NoProxy} \cup
                             [kind : Kinds, impl : Objects \cup {NULL}, own : BOOLEAN]]
           /\ \A y \in Proxies : y # x => proxy'[y] = proxy[y]
           /\ proxy'[x].kind = proxy[x].kind /\ proxy'[x].impl = proxy[x].impl
           /\ mem[x] = "live" /\ closing = NULL /\ Explicit
           /\ UNCHANGED <<language, mem, client, callbacks, closing, history>>
<1>1. /\ proxy \in [Proxies -> {NoProxy} \cup
                       [kind : Kinds, impl : Objects \cup {NULL}, own : BOOLEAN]]
      /\ proxy[x] \in [kind : Kinds, impl : Objects \cup {NULL}, own : BOOLEAN]
  BY ProxyFacts DEF Acquire, IsProxy, TypesInv, HeapTypes
<1>2. PICK own \in BOOLEAN : proxy' = [proxy EXCEPT ![x] = [proxy[x] EXCEPT !.own = own]]
  BY DEF Acquire
<1>3. /\ [proxy[x] EXCEPT !.own = own] \in [kind : Kinds, impl : Objects \cup {NULL}, own : BOOLEAN]
      /\ [proxy[x] EXCEPT !.own = own].kind = proxy[x].kind
      /\ [proxy[x] EXCEPT !.own = own].impl = proxy[x].impl
  BY <1>1
<1>4. mem[x] = "live" /\ closing = NULL /\ Explicit
      /\ UNCHANGED <<language, mem, client, callbacks, closing, history>>
  BY DEF Acquire
<1> QED
  BY <1>1, <1>2, <1>3, <1>4

(***************************************************************************)
(* Every step is of one of these kinds.                                    *)
(***************************************************************************)
LEMMA Steps ==
    ASSUME IInv, Next
    PROVE  /\ Defined /\ ClientInv /\ ProxyInv /\ PortsInv
           /\ \/ Calm
              \/ \E x \in Proxies : \/ NewClient(x) \/ Acquire(x)
                                    \/ ClosesClient(x) \/ FreesHolder(x) \/ Forgets(x)
              \/ AddsProxy
              \/ CloseJack \/ FreeClient
<1>1. Defined /\ ClientInv /\ ProxyInv /\ PortsInv /\ TypesInv
  BY DEF Next, Defined, IInv
<1>2. CASE Script
  <2> PICK x \in Proxies : Method(x) \/ Acquire(x) \/ Delete(x) \/ Collect(x)
    BY <1>2 DEF Script
  <2>1. CASE Method(x)
    <3>1. CalmMethod(x) \/ NewClient(x) \/ \E y \in Proxies : MethodAdds(x, y)
      BY <2>1 DEF Method, CalmMethod, MethodAdds
    <3> QED
      BY <1>1, <3>1, CalmMethods, AddsMethods
  <2> QED
    BY <1>1, <2>1, Destructors
<1>3. CASE Jack
  BY <1>1, <1>3, CalmJack
<1> QED
  BY <1>1, <1>2, <1>3 DEF Next, ClientFree

(***************************************************************************)
(* The initial state.                                                      *)
(***************************************************************************)
LEMMA InitIInv == Init => IInv
<1> SUFFICES ASSUME Init PROVE IInv
  OBVIOUS
<1> USE DEF Init
<1>0. /\ \A o \in Objects : mem[o] = "unused"
      /\ \A x \in Proxies : ~IsProxy(x) /\ proxy[x] = NoProxy
      /\ \A x \in Proxies, k \in Kinds : ~Holds(x, k)
  BY DEF IsProxy, Holds, NoProxy, Kinds
<1>1. HeapTypes
  BY DEF HeapTypes
<1>2. ClientTypes
  <2>1. ports \in Seq(Ports) /\ queue \in Seq(EventObjects) /\ i \in 1..(Len(ports) + 1)
    OBVIOUS
  <2>2. jack \in [active : BOOLEAN, process_cb : BOOLEAN, latency_arg : Ports \cup {NULL}]
    BY DEF NoCallbacks
  <2>3. activated \in BOOLEAN /\ posted \in BOOLEAN
    OBVIOUS
  <2> QED
    BY <2>1, <2>2, <2>3 DEF ClientTypes
<1>3. CollectInv
  BY <1>0 DEF CollectInv, NoCallbacks
<1>4. SafeInv
  BY DEF SafeInv, CallbacksSafe, ScriptSafe, FreedOnce
<1>5. ClientInv
  BY <1>0, Distinct DEF ClientInv
<1>6. ProxyInv
  BY <1>0 DEF ProxyInv, HolderInv, UnsharedInv, Kinds
<1>7. PortsInv
  BY <1>0, Distinct DEF PortsInv, InUse, Kinds
<1> QED
  BY <1>1, <1>2, <1>3, <1>4, <1>5, <1>6, <1>7 DEF IInv, TypesInv

(***************************************************************************)
(* The types.                                                              *)
(***************************************************************************)
LEMMA NextHeapTypes == IInv /\ Next => HeapTypes'
<1> SUFFICES ASSUME IInv, Next PROVE HeapTypes'
  OBVIOUS
<1>0. TypesInv /\ HeapTypes
  BY DEF IInv, TypesInv
<1> USE <1>0
<1>1. CASE Calm
  BY <1>1 DEF Calm, HeapTypes
<1>2. ASSUME NEW x \in Proxies, NewClient(x) PROVE HeapTypes'
  BY <1>2, NewClientFacts DEF NewClient, HeapTypes, history
<1>3. ASSUME NEW x \in Proxies, Acquire(x) PROVE HeapTypes'
  BY <1>3, AcquireFacts DEF HeapTypes, history
<1>4. ASSUME NEW x \in Proxies, ClosesClient(x) PROVE HeapTypes'
  <2>1. IsProxy(x)
    BY <1>4, ProxyFacts DEF ClosesClient, Kinds
  <2> QED
    BY <1>4, <2>1, DropsFacts DEF ClosesClient, HeapTypes, history
<1>5. ASSUME NEW x \in Proxies, FreesHolder(x) PROVE HeapTypes'
  <2>1. proxy' \in [Proxies -> {NoProxy} \cup
                       [kind : Kinds, impl : Objects \cup {NULL}, own : BOOLEAN]]
    BY <1>5, DropsFacts DEF FreesHolder
  <2>2. mem' \in [Objects -> {"unused", "live", "freed"}]
    BY <1>5 DEF FreesHolder, Free, HeapTypes
  <2>3. UNCHANGED <<language, closing>>
        /\ misused' \subseteq misused \cup {"freed_event", "freed_port", "freed_buffer"}
    BY <1>5 DEF FreesHolder
  <2> QED
    BY <2>1, <2>2, <2>3 DEF HeapTypes
<1>6. ASSUME NEW x \in Proxies, Forgets(x) PROVE HeapTypes'
  BY <1>6 DEF Forgets, HeapTypes, history
<1>7. CASE AddsProxy
  <2> PICK x \in Proxies, kind \in Kinds, impl \in Objects \cup {NULL}, new \in SUBSET Ports :
             Adds(x, kind, impl, new)
    BY <1>7 DEF AddsProxy
  <2>a. TypesInv /\ Adds(x, kind, impl, new)
    OBVIOUS
  <2>1. UNCHANGED <<language, closing, misused>>
    BY DEF Adds
  <2> QED
    BY <2>1, AddsFacts DEF HeapTypes
<1>8. CASE CloseJack
  BY <1>8 DEF CloseJack, Free, HeapTypes
<1>9. CASE FreeClient
  BY <1>9 DEF FreeClient, Free, HeapTypes
<1> QED
  BY <1>1, <1>2, <1>3, <1>4, <1>5, <1>6, <1>7, <1>8, <1>9, Steps

LEMMA NextClientTypes == IInv /\ Next => ClientTypes'
<1> SUFFICES ASSUME IInv, Next PROVE ClientTypes'
  OBVIOUS
<1>0. ClientTypes /\ TypesInv /\ ClientInv /\ ProxyInv
  BY Steps DEF IInv, TypesInv
<1> USE <1>0
<1>1. ASSUME UNCHANGED <<client, callbacks>> PROVE ClientTypes'
  BY <1>1 DEF ClientTypes, client, callbacks
<1>2. ASSUME NEW x \in Proxies, Method(x) PROVE ClientTypes'
  <2>1. CASE \/ UseClient(x) \/ UsePort(x) \/ UseEvent(x) \/ UseBuffer(x) \/ UseValue(x)
             \/ NewClient(x)
    BY <1>1, <2>1 DEF UseClient, UsePort, UseEvent, UseBuffer, UseValue, Use, NewClient
  <2>2. CASE Activate(x)
    <3>1. jack' \in [active : BOOLEAN, process_cb : BOOLEAN, latency_arg : Ports \cup {NULL}]
      BY <2>2 DEF Activate, ClientTypes
    <3>2. activated' \in BOOLEAN
      BY <2>2 DEF Activate
    <3> QED
      BY <2>2, <3>1, <3>2 DEF Activate, ClientTypes, callbacks
  <2>3. CASE InitLatencyListener(x)
    <3>1. proxy[x].impl \in Ports
      BY <2>3 DEF InitLatencyListener, ProxyInv, HolderInv, UnsharedInv
    <3> QED
      BY <2>3, <3>1 DEF InitLatencyListener, ClientTypes, callbacks
  <2>4. CASE Complete(x)
    <3>1. posted' \in BOOLEAN
      BY <2>4, Zenon DEF Complete, ClientTypes
    <3> QED
      BY <2>4, <3>1 DEF Complete, ClientTypes, callbacks
  <2>5. ASSUME NEW y \in Proxies,
               GetPortNames(x, y) \/ GetBuffer(x, y) \/ GetLatencyRange(x, y)
        PROVE  ClientTypes'
    BY <1>1, <2>5 DEF GetPortNames, GetBuffer, GetLatencyRange
  <2>6. ASSUME NEW y \in Proxies, GetEvent(x, y) PROVE ClientTypes'
    <3>1. queue' \in Seq(EventObjects)
      BY <2>6, HeadTailProperties DEF GetEvent, ClientTypes
    <3> QED
      BY <2>6, <3>1 DEF GetEvent, ClientTypes, callbacks
  <2>7. ASSUME NEW y \in Proxies, NEW o \in Ports, RegisterPort(x, y, o) PROVE ClientTypes'
    <3>1. ports' \in Seq(Ports) /\ Len(ports') = Len(ports) + 1
      BY <2>7, AppendProperties DEF RegisterPort, StorePort, ClientTypes
    <3>2. i \in 1..(Len(ports') + 1)
      BY <3>1 DEF ClientTypes
    <3> QED
      BY <2>7, <3>1, <3>2 DEF RegisterPort, ClientTypes, callbacks
  <2>8. ASSUME NEW y \in Proxies, NEW o \in Ports, GetPort(x, y, o) PROVE ClientTypes'
    BY <1>1, <2>8 DEF GetPort
  <2> QED
    BY <1>2, <2>1, <2>2, <2>3, <2>4, <2>5, <2>6, <2>7, <2>8 DEF Method
<1>3. ASSUME NEW x \in Proxies, Acquire(x) \/ Delete(x) \/ Collect(x) PROVE ClientTypes'
  BY <1>1, <1>3 DEF Acquire, Delete, Collect
<1>4. CASE CloseJack
  BY <1>4 DEF CloseJack, ClientTypes, client
<1>5. CASE FreeClient
  <2>1. i = 1
    BY <1>5 DEF FreeClient, ClientInv, ClientTypes
  <2>2. NoCallbacks \in [active : BOOLEAN, process_cb : BOOLEAN, latency_arg : Ports \cup {NULL}]
    BY DEF NoCallbacks
  <2>3. ports' \in Seq(Ports) /\ queue' \in Seq(EventObjects) /\ Len(ports') = 0
    BY <1>5 DEF FreeClient
  <2>4. activated' \in BOOLEAN /\ posted' \in BOOLEAN
    BY <1>5 DEF FreeClient
  <2> QED
    BY <1>5, <2>1, <2>2, <2>3, <2>4 DEF FreeClient, ClientTypes, callbacks
<1>6. CASE Jack
  <2>1. CASE ProcessCall
    BY <2>1 DEF ProcessCall, ClientTypes, client
  <2>2. CASE ProcessPort
    <3>1. queue' \in Seq(EventObjects)
      <4>1. Append(queue, "process_event") \in Seq(EventObjects)
        BY AppendProperties, Distinct DEF ClientTypes
      <4> QED
        BY <2>2, <4>1 DEF ProcessPort, Enqueue, ClientTypes
    <3>2. /\ pc' \in [process : {"idle", "loop"}, session : {"idle", "latch", "reply"}]
          /\ i' \in 1..(Len(ports) + 1) /\ (pc'.process = "idle" => i' = 1)
      <4>1. CASE HasRoom
        BY <2>2, <4>1 DEF ProcessPort, ClientTypes
      <4>2. CASE ~HasRoom
        BY <2>2, <4>2 DEF ProcessPort, ClientTypes
      <4> QED
        BY <4>1, <4>2
    <3> QED
      BY <2>2, <3>1, <3>2 DEF ProcessPort, ClientTypes
  <2>3. CASE ProcessReturn
    BY <2>3 DEF ProcessReturn, ClientTypes, client
  <2>4. CASE SessionCall
    <3>1. queue' \in Seq(EventObjects)
      <4>1. Append(queue, "session_event") \in Seq(EventObjects)
        BY AppendProperties, Distinct DEF ClientTypes
      <4> QED
        BY <2>4, <4>1 DEF SessionCall, Enqueue, ClientTypes
    <3> QED
      BY <2>4, <3>1 DEF SessionCall, ClientTypes
  <2>5. CASE SessionLatch
    BY <2>5 DEF SessionLatch, ClientTypes
  <2>6. CASE SessionReply
    BY <2>6 DEF SessionReply, ClientTypes, client
  <2>7. CASE LatencyCall
    BY <1>1, <2>7 DEF LatencyCall
  <2> QED
    BY <1>6, <2>1, <2>2, <2>3, <2>4, <2>5, <2>6, <2>7 DEF Jack
<1> QED
  BY <1>2, <1>3, <1>4, <1>5, <1>6 DEF Next, Script, ClientFree

(***************************************************************************)
(* The client and what JACK has for it.                                    *)
(***************************************************************************)
LEMMA NextClient == IInv /\ Next /\ "freed_event" \notin misused' => ClientInv'
<1> SUFFICES ASSUME IInv, Next, "freed_event" \notin misused' PROVE ClientInv'
  OBVIOUS
<1>0. TypesInv /\ HeapTypes /\ ClientInv /\ ProxyInv
  BY Steps DEF IInv, TypesInv
<1> USE <1>0
<1>1. CASE Calm
  <2>1. mem["jack"] = "live" => mem["client"] = "live"
    BY DEF ClientInv
  <2> QED
    BY <1>1, <2>1 DEF Calm, ClientInv
<1>2. ASSUME NEW x \in Proxies, NewClient(x) PROVE ClientInv'
  <2>1. /\ \A o \in ClientObjects : mem'[o] = "live"
        /\ mem'["jack"] = "live"
    BY <1>2, NewClientFacts, Distinct
  <2> QED
    BY <1>2, <2>1, Distinct DEF NewClient, ClientInv
<1>3. ASSUME NEW x \in Proxies, Acquire(x) PROVE ClientInv'
  BY <1>3, AcquireFacts DEF ClientInv, client, callbacks
<1>4. ASSUME NEW x \in Proxies, ClosesClient(x) PROVE ClientInv'
  BY <1>4, Distinct DEF ClosesClient, ClientInv, ProxyInv, HolderInv, UnsharedInv, client, callbacks
<1>5. ASSUME NEW x \in Proxies, FreesHolder(x) PROVE ClientInv'
  <2>1. \A o \in ClientObjects \cup {"jack"} : mem'[o] = mem[o]
    BY <1>5, FreesFacts, Distinct
  <2> QED
    BY <1>5, <2>1, Distinct DEF FreesHolder, ClientInv, client, callbacks
<1>6. ASSUME NEW x \in Proxies, Forgets(x) PROVE ClientInv'
  <2>1. \A o \in ClientObjects \cup {"jack"} : mem'[o] = mem[o]
    BY <1>6, Distinct DEF Forgets, HeapTypes
  <2> QED
    BY <1>6, <2>1, Distinct DEF Forgets, ClientInv, client, callbacks
<1>7. CASE AddsProxy
  <2> PICK x \in Proxies, kind \in Kinds, impl \in Objects \cup {NULL}, new \in SUBSET Ports :
             Adds(x, kind, impl, new)
    BY <1>7 DEF AddsProxy
  <2>a. TypesInv /\ Adds(x, kind, impl, new)
    OBVIOUS
  <2>0. \A o \in Objects : mem'[o] = IF o \in new \cup {x} THEN "live" ELSE mem[o]
    BY DEF Adds
  <2>1. \A o \in ClientObjects \cup {"jack"} : mem'[o] = mem[o]
    BY <2>0, Distinct
  <2>2. closing = NULL /\ mem["client"] = "live" /\ UNCHANGED <<pc, closing>>
    BY DEF Adds, callbacks
  <2> QED
    BY <2>1, <2>2, Distinct DEF ClientInv
<1>8. CASE CloseJack
  <2>1. \A o \in Objects : mem'[o] = IF o = "jack" THEN "freed" ELSE mem[o]
    BY <1>8 DEF CloseJack, Free
  <2>2. pc' = [process |-> "idle", session |-> "idle"]
    BY <1>8 DEF CloseJack, TypesInv, ClientTypes
  <2> QED
    BY <1>8, <2>1, <2>2, Distinct DEF CloseJack, ClientInv, HeapTypes, client
<1>9. CASE FreeClient
  <2>1. \A o \in Objects : mem'[o] = IF o \in ClientObjects \cup {closing} THEN "freed" ELSE mem[o]
    BY <1>9 DEF FreeClient, Free
  <2>2. mem'["jack"] = "freed" /\ \A o \in ClientObjects : mem'[o] = "freed"
    BY <1>9, <2>1, Distinct DEF FreeClient, HeapTypes
  <2> QED
    BY <1>9, <2>2, Distinct DEF FreeClient, ClientInv, callbacks
<1> QED
  BY <1>1, <1>2, <1>3, <1>4, <1>5, <1>6, <1>7, <1>8, <1>9, Steps

(***************************************************************************)
(* Proxies, their holders and what those refer to.                         *)
(***************************************************************************)
LEMMA UnsharedKept ==
    ASSUME UnsharedInv,
           \A y \in Proxies : \/ proxy'[y].kind = proxy[y].kind /\ proxy'[y].impl = proxy[y].impl
                             \/ proxy'[y].kind \notin {"JsClient", "JsPort"}
    PROVE  UnsharedInv'
BY DEF UnsharedInv, Holds

LEMMA NextProxy == IInv /\ Next /\ "freed_event" \notin misused' => ProxyInv'
<1> SUFFICES ASSUME IInv, Next, "freed_event" \notin misused' PROVE ProxyInv'
  OBVIOUS
<1>0. TypesInv /\ HeapTypes /\ ClientInv /\ ProxyInv
  BY Steps DEF IInv, TypesInv
<1>k. {"JsClient", "JsEvent", "JsPort", "JsPortBuffer"} \subseteq Kinds
  BY DEF Kinds
<1>n. /\ \A k \in Kinds : NoProxy.kind # k
      /\ \A x \in Proxies, k \in Kinds : Holds(x, k) => IsProxy(x)
  BY <1>0, ProxyFacts DEF NoProxy, Kinds
<1> USE <1>0
<1>1. CASE Calm
  BY <1>1 DEF Calm, ProxyInv, HolderInv, UnsharedInv, Holds, IsProxy
<1>2. ASSUME NEW x \in Proxies, NewClient(x) PROVE ProxyInv'
  <2>1. /\ \A o \in Objects : mem'[o] = IF o \in ClientObjects \cup {"jack", x}
                                        THEN "live" ELSE mem[o]
        /\ \A y \in Proxies : y # x => proxy'[y] = proxy[y]
        /\ proxy'[x].kind = "JsClient" /\ proxy'[x].own = TRUE
    BY <1>2, NewClientFacts
  <2>2. mem["client"] = "unused" /\ closing' = NULL
    BY <1>2 DEF NewClient
  <2>3. /\ mem'["client"] = "live"
        /\ \A y \in Proxies : mem'[y] = IF y = x THEN "live" ELSE mem[y]
        /\ \A o \in Ports : mem'[o] = mem[o]
    BY <2>1, Distinct
  <2>4. \A y \in Proxies : ~Holds(y, "JsClient")
    BY <2>2 DEF ProxyInv, HolderInv
  <2>h. ASSUME NEW y \in Proxies PROVE HolderInv(y)'
    <3>1. HolderInv(y)
      BY DEF ProxyInv
    <3>2. CASE y = x
      BY <1>k, <1>n, <2>1, <2>2, <2>3, <2>4, Distinct, <3>1, <3>2 DEF HolderInv, Holds, IsProxy
    <3>3. CASE y # x
      BY <1>k, <1>n, <2>1, <2>2, <2>3, <2>4, Distinct, <3>1, <3>3 DEF HolderInv, Holds, IsProxy
    <3> QED
      BY <3>2, <3>3
  <2>u. UnsharedInv'
    <3> SUFFICES ASSUME NEW y \in Proxies, NEW z \in Proxies
                 PROVE  /\ Holds(y, "JsClient")' /\ Holds(z, "JsClient")' => y = z
                        /\ Holds(y, "JsPort")' /\ Holds(z, "JsPort")'
                              /\ proxy'[y].impl = proxy'[z].impl => y = z
      BY DEF UnsharedInv
    <3>1. /\ Holds(y, "JsClient")' => y = x
          /\ Holds(z, "JsClient")' => z = x
      BY <2>1, <2>4 DEF Holds
    <3>2. /\ Holds(y, "JsPort")' => Holds(y, "JsPort") /\ proxy'[y].impl = proxy[y].impl
          /\ Holds(z, "JsPort")' => Holds(z, "JsPort") /\ proxy'[z].impl = proxy[z].impl
      BY <2>1 DEF Holds
    <3> QED
      BY <3>1, <3>2 DEF ProxyInv, UnsharedInv
  <2> QED
    BY <2>h, <2>u DEF ProxyInv
<1>3. ASSUME NEW x \in Proxies, Acquire(x) PROVE ProxyInv'
  <2>1. /\ \A y \in Proxies : y # x => proxy'[y] = proxy[y]
        /\ proxy'[x].kind = proxy[x].kind /\ proxy'[x].impl = proxy[x].impl
        /\ mem[x] = "live" /\ closing = NULL /\ UNCHANGED <<mem, closing>>
    BY <1>3, AcquireFacts
  <2>2. \A y \in Proxies : proxy'[y].kind = proxy[y].kind /\ proxy'[y].impl = proxy[y].impl
    BY <2>1
  <2>h. ASSUME NEW y \in Proxies PROVE HolderInv(y)'
    <3>1. HolderInv(y)
      BY DEF ProxyInv
    <3>2. CASE y = x
      BY <1>k, <1>n, <2>1, <2>2, Distinct, <3>1, <3>2 DEF HolderInv, Holds, IsProxy
    <3>3. CASE y # x
      BY <1>k, <1>n, <2>1, <2>2, Distinct, <3>1, <3>3 DEF HolderInv, Holds, IsProxy
    <3> QED
      BY <3>2, <3>3
  <2>u. UnsharedInv'
    BY <2>2, UnsharedKept DEF ProxyInv
  <2> QED
    BY <2>h, <2>u DEF ProxyInv
<1>4. ASSUME NEW x \in Proxies, ClosesClient(x) PROVE ProxyInv'
  <2>1. IsProxy(x)
    BY <1>4, <1>k, <1>n DEF ClosesClient
  <2>2. /\ \A y \in Proxies : y # x => proxy'[y] = proxy[y]
        /\ \/ proxy'[x] = NoProxy
           \/ /\ proxy'[x].kind = proxy[x].kind /\ proxy'[x].impl = proxy[x].impl
              /\ proxy'[x].own = FALSE
    BY <1>4, <2>1, DropsFacts DEF ClosesClient
  <2>3. Holds(x, "JsClient") /\ closing' = x /\ UNCHANGED mem
    BY <1>4 DEF ClosesClient
  <2>h. ASSUME NEW y \in Proxies PROVE HolderInv(y)'
    <3>1. HolderInv(y)
      BY DEF ProxyInv
    <3>2. CASE y = x
      BY <1>k, <1>n, <2>2, <2>3, Distinct, <3>1, <3>2 DEF HolderInv, Holds, IsProxy
    <3>3. CASE y # x
      <4>1. ~Holds(y, "JsClient")
        BY <2>3, <3>3 DEF ProxyInv, UnsharedInv
      <4> QED
        BY <2>2, <2>3, <3>1, <3>3, <4>1 DEF HolderInv, Holds, IsProxy
    <3> QED
      BY <3>2, <3>3
  <2>u. UnsharedInv'
    BY <1>k, <1>n, <2>2, <2>3, Distinct DEF ProxyInv, UnsharedInv, Holds
  <2> QED
    BY <2>h, <2>u DEF ProxyInv
<1>5. ASSUME NEW x \in Proxies, FreesHolder(x) PROVE ProxyInv'
  <2>1. /\ \A y \in Proxies : y # x => proxy'[y] = proxy[y]
        /\ \/ proxy'[x] = NoProxy
           \/ /\ proxy'[x].kind = proxy[x].kind /\ proxy'[x].impl = proxy[x].impl
              /\ proxy'[x].own = FALSE
    BY <1>5, DropsFacts DEF FreesHolder
  <2>2. /\ Frees(x) = IF Holds(x, "JsPort") THEN {proxy[x].impl, x} ELSE {x}
        /\ \A o \in Objects : mem'[o] = IF o \in Frees(x) THEN "freed" ELSE mem[o]
    BY <1>5, FreesFacts
  <2>3. closing = NULL /\ closing' = NULL /\ ~Holds(x, "JsClient")
    BY <1>5 DEF FreesHolder
  <2>i. Holds(x, "JsPort") => proxy[x].impl \in Ports
    BY DEF ProxyInv, HolderInv
  <2>4. /\ mem'["client"] = mem["client"]
        /\ \A y \in Proxies : mem'[y] = IF y = x THEN "freed" ELSE mem[y]
        /\ \A o \in Ports : IF Holds(x, "JsPort") /\ o = proxy[x].impl
                            THEN mem'[o] = "freed" ELSE mem'[o] = mem[o]
    <3>1. "client" \in Objects /\ "client" \notin Frees(x)
      BY <2>2, <2>i, Distinct
    <3>2. ASSUME NEW y \in Proxies PROVE mem'[y] = IF y = x THEN "freed" ELSE mem[y]
      BY <2>2, <2>i, Distinct
    <3>3. ASSUME NEW o \in Ports
          PROVE  IF Holds(x, "JsPort") /\ o = proxy[x].impl
                 THEN mem'[o] = "freed" ELSE mem'[o] = mem[o]
      BY <2>2, <2>i, Distinct
    <3> QED
      BY <2>2, <3>1, <3>2, <3>3
  <2>h. ASSUME NEW y \in Proxies PROVE HolderInv(y)'
    <3>1. HolderInv(y)
      BY DEF ProxyInv
    <3>2. CASE y = x
      BY <1>k, <1>n, <2>1, <2>3, <2>4, <2>i, Distinct, <3>1, <3>2 DEF HolderInv, Holds, IsProxy
    <3>3. CASE y # x
      <4>1. proxy'[y] = proxy[y] /\ mem'[y] = mem[y]
        BY <2>1, <2>4, <3>3
      <4>2. Holds(y, "JsPort") => mem'[proxy[y].impl] = mem[proxy[y].impl]
        BY <2>4, <3>1, <3>3 DEF ProxyInv, UnsharedInv, HolderInv
      <4> QED
        BY <2>3, <2>4, <3>1, <4>1, <4>2 DEF HolderInv, Holds, IsProxy
    <3> QED
      BY <3>2, <3>3
  <2>u. UnsharedInv'
    <3>1. proxy'[x] = NoProxy => proxy'[x].kind \notin {"JsClient", "JsPort"}
      BY <1>k, <1>n
    <3> QED
      BY <2>1, <3>1, UnsharedKept DEF ProxyInv
  <2> QED
    BY <2>h, <2>u DEF ProxyInv
<1>6. ASSUME NEW x \in Proxies, Forgets(x) PROVE ProxyInv'
  <2>1. /\ proxy'[x] = NoProxy
        /\ \A y \in Proxies : y # x => proxy'[y] = proxy[y] /\ mem'[y] = mem[y]
        /\ mem'["client"] = mem["client"]
        /\ \A o \in Ports : mem'[o] = mem[o]
        /\ closing' = closing
    BY <1>6, Distinct DEF Forgets, HeapTypes
  <2>h. ASSUME NEW y \in Proxies PROVE HolderInv(y)'
    <3>1. HolderInv(y)
      BY DEF ProxyInv
    <3>2. CASE y = x
      BY <1>k, <1>n, <2>1, Distinct, <3>1, <3>2 DEF HolderInv, Holds, IsProxy
    <3>3. CASE y # x
      BY <1>k, <1>n, <2>1, Distinct, <3>1, <3>3 DEF HolderInv, Holds, IsProxy
    <3> QED
      BY <3>2, <3>3
  <2>u. UnsharedInv'
    BY <1>k, <1>n, <2>1, Distinct DEF ProxyInv, UnsharedInv, Holds
  <2> QED
    BY <2>h, <2>u DEF ProxyInv
<1>7. CASE AddsProxy
  <2> PICK x \in Proxies, kind \in Kinds, impl \in Objects \cup {NULL}, new \in SUBSET Ports :
             Adds(x, kind, impl, new)
    BY <1>7 DEF AddsProxy
  <2>a. TypesInv /\ Adds(x, kind, impl, new)
    OBVIOUS
  <2>1. /\ \A o \in Objects : mem'[o] = IF o \in new \cup {x} THEN "live" ELSE mem[o]
        /\ closing = NULL /\ closing' = NULL
        /\ kind # "JsClient"
        /\ kind = "JsEvent" => impl \in EventObjects
        /\ kind = "JsPort" => impl \in new
        /\ kind = "JsPortBuffer" => impl \in Ports
        /\ \A o \in new : mem[o] = "unused" /\ o \in Ports
    BY DEF Adds
  <2>p. /\ x \in Proxies
        /\ proxy \in [Proxies -> {NoProxy} \cup
                         [kind : Kinds, impl : Objects \cup {NULL}, own : BOOLEAN]]
        /\ proxy' = [proxy EXCEPT ![x] = [kind |-> kind, impl |-> impl, own |-> FALSE]]
    BY <2>a DEF Adds, TypesInv, HeapTypes
  <2>2. /\ \A y \in Proxies : y # x => proxy'[y] = proxy[y]
        /\ proxy'[x].kind = kind /\ proxy'[x].impl = impl /\ proxy'[x].own = FALSE
    BY ONLY <2>p
  <2>3. /\ mem'["client"] = mem["client"]
        /\ \A y \in Proxies : mem'[y] = IF y = x THEN "live" ELSE mem[y]
        /\ \A o \in Ports : mem'[o] = IF o \in new THEN "live" ELSE mem[o]
    BY <2>1, Distinct
  <2>h. ASSUME NEW y \in Proxies PROVE HolderInv(y)'
    <3>1. HolderInv(y)
      BY DEF ProxyInv
    <3>2. CASE y = x
      BY <1>k, <1>n, <2>1, <2>2, <2>3, Distinct, <3>1, <3>2 DEF HolderInv, Holds, IsProxy
    <3>3. CASE y # x
      BY <1>k, <1>n, <2>1, <2>2, <2>3, Distinct, <3>1, <3>3 DEF HolderInv, Holds, IsProxy
    <3> QED
      BY <3>2, <3>3
  <2>u. UnsharedInv'
    <3>1. ASSUME NEW y \in Proxies
          PROVE  /\ Holds(y, "JsClient")' => Holds(y, "JsClient")
                 /\ Holds(y, "JsPort")' => \/ y = x /\ proxy'[y].impl \in new
                                           \/ /\ Holds(y, "JsPort") /\ proxy'[y].impl = proxy[y].impl
                                              /\ proxy'[y].impl \notin new
      <4>1. CASE y = x
        BY <2>1, <2>2, <4>1 DEF Holds
      <4>2. CASE y # x
        <5>1. HolderInv(y) /\ proxy'[y] = proxy[y]
          BY <2>2, <4>2 DEF ProxyInv
        <5>2. Holds(y, "JsPort") => proxy[y].impl \notin new
          BY <2>1, <5>1 DEF HolderInv
        <5> QED
          BY <5>1, <5>2 DEF Holds
      <4> QED
        BY <4>1, <4>2
    <3> QED
      BY <3>1 DEF ProxyInv, UnsharedInv
  <2> QED
    BY <2>h, <2>u DEF ProxyInv
<1>8. CASE CloseJack
  <2>1. \A o \in Objects : mem'[o] = IF o = "jack" THEN "freed" ELSE mem[o]
    BY <1>8 DEF CloseJack, Free
  <2>2. /\ mem'["client"] = mem["client"]
        /\ \A o \in Ports \cup Proxies : mem'[o] = mem[o]
        /\ UNCHANGED <<proxy, closing>>
    BY <1>8, <2>1, Distinct DEF CloseJack
  <2> QED
    BY <2>2 DEF ProxyInv, HolderInv, UnsharedInv, Holds, IsProxy
<1>9. CASE FreeClient
  <2>1. \A o \in Objects : mem'[o] = IF o \in ClientObjects \cup {closing} THEN "freed" ELSE mem[o]
    BY <1>9 DEF FreeClient, Free
  <2>2. /\ mem'["client"] = "freed"
        /\ closing \in Proxies /\ closing' = NULL /\ proxy' = proxy
        /\ \A y \in Proxies : mem'[y] = IF y = closing THEN "freed" ELSE mem[y]
        /\ \A o \in Ports : mem'[o] = mem[o]
    BY <1>9, <2>1, Distinct DEF FreeClient, HeapTypes
  <2>h. ASSUME NEW y \in Proxies PROVE HolderInv(y)'
    <3>1. HolderInv(y) /\ closing # NULL /\ y # NULL
      BY <1>9, Distinct DEF FreeClient, ProxyInv
    <3>2. CASE y = closing
      BY <2>2, <3>1, <3>2 DEF HolderInv, Holds, IsProxy
    <3>3. CASE y # closing
      BY <2>2, <3>1, <3>3 DEF HolderInv, Holds, IsProxy
    <3> QED
      BY <3>2, <3>3
  <2>u. UnsharedInv'
    BY <2>2, UnsharedKept DEF ProxyInv
  <2> QED
    BY <2>h, <2>u DEF ProxyInv
<1> QED
  BY <1>1, <1>2, <1>3, <1>4, <1>5, <1>6, <1>7, <1>8, <1>9, Steps

(***************************************************************************)
(* Ports that JACK's threads or buffers refer to.                          *)
(***************************************************************************)
LEMMA MisusedGrows == IInv /\ Next => misused \subseteq misused'
<1> SUFFICES ASSUME IInv, Next PROVE misused \subseteq misused'
  OBVIOUS
<1>1. CASE Calm
  BY <1>1 DEF Calm
<1>2. ASSUME NEW x \in Proxies,
             NewClient(x) \/ Acquire(x) \/ ClosesClient(x) \/ FreesHolder(x) \/ Forgets(x)
      PROVE  misused \subseteq misused'
  BY <1>2 DEF NewClient, Acquire, ClosesClient, FreesHolder, Forgets, history
<1>3. CASE AddsProxy
  BY <1>3 DEF AddsProxy, Adds
<1>4. CASE CloseJack \/ FreeClient
  BY <1>4 DEF CloseJack, FreeClient
<1> QED
  BY <1>1, <1>2, <1>3, <1>4, Steps

\* Ports stay as they are when no port is freed or made and what refers to them
\* does not grow.
LEMMA PortsKept ==
    ASSUME PortsInv, misused \subseteq misused',
           \A o \in Ports : mem[o] = "live" => mem'[o] = "live",
           \A o \in Ports : InUse(o)' => InUse(o) \/ mem'[o] = "live",
           \A y \in Proxies : Holds(y, "JsPortBuffer")' =>
              \/ Holds(y, "JsPortBuffer") /\ proxy[y].impl \in Ports /\ proxy'[y].impl = proxy[y].impl
              \/ mem'[proxy'[y].impl] = "live"
    PROVE  PortsInv'
<1>1. ASSUME "freed_port" \notin misused', NEW o \in Ports, InUse(o)' PROVE mem'[o] = "live"
  BY <1>1 DEF PortsInv
<1>2. ASSUME "freed_buffer" \notin misused', NEW y \in Proxies, Holds(y, "JsPortBuffer")'
      PROVE  mem'[proxy'[y].impl] = "live"
  BY <1>2 DEF PortsInv
<1> QED
  BY <1>1, <1>2 DEF PortsInv

LEMMA NextPorts == IInv /\ Next /\ "freed_event" \notin misused' => PortsInv'
<1> SUFFICES ASSUME IInv, Next, "freed_event" \notin misused' PROVE PortsInv'
  OBVIOUS
<1>0. TypesInv /\ HeapTypes /\ ClientTypes /\ ClientInv /\ ProxyInv /\ PortsInv
      /\ misused \subseteq misused'
  BY Steps, MisusedGrows DEF IInv, TypesInv
<1>k. "JsPortBuffer" \in Kinds /\ NoProxy.kind \notin Kinds
  BY DEF Kinds, NoProxy
<1>i. \A y \in Proxies : Holds(y, "JsPortBuffer") => proxy[y].impl \in Ports
  BY <1>0 DEF ProxyInv, HolderInv
<1> USE <1>0
<1>1. CASE Calm
  <2>1. UNCHANGED <<mem, proxy, ports>>
    BY <1>1 DEF Calm
  <2>2. ASSUME NEW o \in Ports, InUse(o)' PROVE InUse(o) \/ mem'[o] = "live"
    <3>1. CASE jack'.latency_arg = jack.latency_arg
      BY <2>1, <2>2, <3>1 DEF InUse, Members
    <3>2. CASE \E p \in Proxies : /\ Holds(p, "JsPort") /\ mem[p] = "live"
                                  /\ jack'.latency_arg = proxy[p].impl
      <4>1. mem[jack'.latency_arg] = "live"
        BY <3>2 DEF ProxyInv, HolderInv
      <4> QED
        BY <2>1, <2>2, <4>1 DEF InUse, Members
    <3> QED
      BY <1>1, <3>1, <3>2 DEF Calm
  <2> QED
    BY <1>i, <2>1, <2>2, PortsKept DEF Holds
<1>2. ASSUME NEW x \in Proxies, NewClient(x) PROVE PortsInv'
  <2>1. /\ \A o \in Objects : mem'[o] = IF o \in ClientObjects \cup {"jack", x}
                                        THEN "live" ELSE mem[o]
        /\ \A y \in Proxies : y # x => proxy'[y] = proxy[y]
        /\ proxy'[x].kind = "JsClient"
    BY <1>2, NewClientFacts
  <2>2. \A o \in Ports : mem'[o] = mem[o]
    BY <2>1, Distinct
  <2>3. ports = <<>> /\ ports' = ports /\ jack' = jack /\ jack = NoCallbacks
    BY <1>2 DEF NewClient, ClientInv, client
  <2>4. \A o \in Ports : ~InUse(o)'
    <3>1. (\A o : o \notin Members(ports')) /\ jack'.latency_arg = NULL
      <4>1. \A o : o \notin Members(ports')
        BY <2>3, MembersEmpty
      <4> QED
        BY <2>3, <4>1 DEF NoCallbacks
    <3> QED
      BY <3>1, Distinct DEF InUse
  <2>5. \A y \in Proxies : Holds(y, "JsPortBuffer")' =>
          Holds(y, "JsPortBuffer") /\ proxy'[y].impl = proxy[y].impl
    BY <2>1 DEF Holds
  <2> QED
    BY <1>i, <2>2, <2>4, <2>5, PortsKept
<1>3. ASSUME NEW x \in Proxies, Acquire(x) PROVE PortsInv'
  <2>1. /\ \A y \in Proxies : y # x => proxy'[y] = proxy[y]
        /\ proxy'[x].kind = proxy[x].kind /\ proxy'[x].impl = proxy[x].impl
        /\ UNCHANGED <<mem, ports, jack>>
    BY <1>3, AcquireFacts DEF client
  <2>2. \A y \in Proxies : proxy'[y].kind = proxy[y].kind /\ proxy'[y].impl = proxy[y].impl
    BY <2>1
  <2>3. \A o \in Ports : InUse(o)' <=> InUse(o)
    BY <2>1 DEF InUse, Members
  <2> QED
    BY <1>i, <2>1, <2>2, <2>3, PortsKept DEF Holds
<1>4. ASSUME NEW x \in Proxies, ClosesClient(x) PROVE PortsInv'
  <2>1. Holds(x, "JsClient") /\ IsProxy(x) /\ UNCHANGED <<mem, ports, jack>>
    BY <1>4, ProxyFacts DEF ClosesClient, client, Kinds
  <2>2. /\ \A y \in Proxies : y # x => proxy'[y] = proxy[y]
        /\ proxy'[x] = NoProxy \/ proxy'[x].kind = proxy[x].kind
    BY <1>4, <2>1, DropsFacts DEF ClosesClient
  <2>3. \A o \in Ports : InUse(o)' <=> InUse(o)
    BY <2>1 DEF InUse, Members
  <2>4. \A y \in Proxies : Holds(y, "JsPortBuffer")' =>
          Holds(y, "JsPortBuffer") /\ proxy'[y].impl = proxy[y].impl
    BY <1>k, <2>1, <2>2 DEF Holds
  <2> QED
    BY <1>i, <2>1, <2>3, <2>4, PortsKept
<1>5. ASSUME NEW x \in Proxies, FreesHolder(x) PROVE PortsInv'
  <2>1. /\ \A y \in Proxies : y # x => proxy'[y] = proxy[y]
        /\ \/ proxy'[x] = NoProxy
           \/ /\ proxy'[x].kind = proxy[x].kind /\ proxy'[x].impl = proxy[x].impl
              /\ proxy'[x].own = FALSE
    BY <1>5, DropsFacts DEF FreesHolder
  <2>2. /\ Frees(x) = IF Holds(x, "JsPort") THEN {proxy[x].impl, x} ELSE {x}
        /\ \A o \in Objects : mem'[o] = IF o \in Frees(x) THEN "freed" ELSE mem[o]
        /\ Frees(x) \subseteq Ports \cup Proxies
    BY <1>5, FreesFacts
  <2>3. /\ mem'["jack"] = mem["jack"] /\ UNCHANGED <<ports, jack>>
        /\ \A o \in Ports : mem'[o] = mem[o] \/ (Holds(x, "JsPort") /\ o = proxy[x].impl)
    BY <1>5, <2>2, Distinct DEF FreesHolder, client
  <2>4. \A o \in Ports : InUse(o)' <=> InUse(o)
    BY <2>3 DEF InUse, Members
  <2>5. \A y \in Proxies : Holds(y, "JsPortBuffer")' =>
          Holds(y, "JsPortBuffer") /\ proxy'[y].impl = proxy[y].impl
    BY <1>k, <2>1 DEF Holds
  <2>6. ASSUME "freed_port" \notin misused', NEW o \in Ports, InUse(o)' PROVE mem'[o] = "live"
    <3>1. ~(Holds(x, "JsPort") /\ o = proxy[x].impl)
      BY <1>5, <2>4, <2>6 DEF FreesHolder
    <3> QED
      BY <2>3, <2>4, <2>6, <3>1 DEF PortsInv
  <2>7. ASSUME "freed_buffer" \notin misused', NEW y \in Proxies, Holds(y, "JsPortBuffer")'
        PROVE  mem'[proxy'[y].impl] = "live"
    <3>1. /\ Holds(y, "JsPortBuffer") /\ proxy'[y].impl = proxy[y].impl /\ proxy[y].impl \in Ports
          /\ mem[proxy[y].impl] = "live"
      BY <1>i, <2>5, <2>7 DEF PortsInv
    <3>2. ~(Holds(x, "JsPort") /\ proxy[y].impl = proxy[x].impl)
      BY <1>5, <2>7, <3>1 DEF FreesHolder, HasBuffer, Holds
    <3> QED
      BY <2>3, <3>1, <3>2
  <2> QED
    BY <2>6, <2>7 DEF PortsInv
<1>6. ASSUME NEW x \in Proxies, Forgets(x) PROVE PortsInv'
  <2>1. /\ proxy'[x] = NoProxy
        /\ \A y \in Proxies : y # x => proxy'[y] = proxy[y]
        /\ mem'["jack"] = mem["jack"]
        /\ \A o \in Ports : mem'[o] = mem[o]
        /\ UNCHANGED <<ports, jack>>
    BY <1>6, Distinct DEF Forgets, HeapTypes, client
  <2>2. \A o \in Ports : InUse(o)' <=> InUse(o)
    BY <2>1 DEF InUse, Members
  <2>3. \A y \in Proxies : Holds(y, "JsPortBuffer")' =>
          Holds(y, "JsPortBuffer") /\ proxy'[y].impl = proxy[y].impl
    BY <1>k, <2>1 DEF Holds
  <2> QED
    BY <1>i, <2>1, <2>2, <2>3, PortsKept
<1>7. CASE AddsProxy
  <2> PICK x \in Proxies, kind \in Kinds, impl \in Objects \cup {NULL}, new \in SUBSET Ports :
             Adds(x, kind, impl, new)
    BY <1>7 DEF AddsProxy
  <2>a. TypesInv /\ Adds(x, kind, impl, new)
    OBVIOUS
  <2>1. /\ \A o \in Objects : mem'[o] = IF o \in new \cup {x} THEN "live" ELSE mem[o]
        /\ kind = "JsPortBuffer" => impl \in Ports /\ mem[impl] = "live"
        /\ ports' = ports \/ \E o \in new : ports' = Append(ports, o)
        /\ jack' = jack
    BY DEF Adds
  <2>p. /\ x \in Proxies
        /\ proxy \in [Proxies -> {NoProxy} \cup
                         [kind : Kinds, impl : Objects \cup {NULL}, own : BOOLEAN]]
        /\ proxy' = [proxy EXCEPT ![x] = [kind |-> kind, impl |-> impl, own |-> FALSE]]
    BY <2>a DEF Adds, TypesInv, HeapTypes
  <2>2. /\ \A y \in Proxies : y # x => proxy'[y] = proxy[y]
        /\ proxy'[x].kind = kind /\ proxy'[x].impl = impl /\ proxy'[x].own = FALSE
    BY ONLY <2>p
  <2>3. /\ mem'["jack"] = mem["jack"]
        /\ \A o \in Ports : mem'[o] = IF o \in new THEN "live" ELSE mem[o]
    BY <2>1, Distinct
  <2>4. Members(ports') \subseteq Members(ports) \cup new
    <3>1. CASE ports' = ports
      BY <3>1 DEF Members
    <3>2. ASSUME NEW o \in new, ports' = Append(ports, o)
          PROVE  Members(ports') \subseteq Members(ports) \cup new
      <4>1. Members(Append(ports, o)) = Members(ports) \cup {o}
        BY MembersAppend DEF ClientTypes
      <4> QED
        BY <3>2, <4>1
    <3> QED
      BY <2>1, <3>1, <3>2
  <2>5. ASSUME NEW o \in Ports, InUse(o)' PROVE InUse(o) \/ mem'[o] = "live"
    BY <2>1, <2>3, <2>4, <2>5 DEF InUse
  <2>6. ASSUME NEW y \in Proxies, Holds(y, "JsPortBuffer")'
        PROVE  \/ Holds(y, "JsPortBuffer") /\ proxy'[y].impl = proxy[y].impl
               \/ mem'[proxy'[y].impl] = "live"
    BY <2>1, <2>2, <2>3, <2>6 DEF Holds
  <2> QED
    BY <1>i, <2>3, <2>5, <2>6, PortsKept
<1>8. CASE CloseJack
  <2>1. \A o \in Objects : mem'[o] = IF o = "jack" THEN "freed" ELSE mem[o]
    BY <1>8 DEF CloseJack, Free
  <2>2. mem'["jack"] = "freed" /\ proxy' = proxy /\ \A o \in Ports : mem'[o] = mem[o]
    BY <1>8, <2>1, Distinct DEF CloseJack
  <2>3. \A o \in Ports : ~InUse(o)'
    BY <2>2 DEF InUse
  <2> QED
    BY <1>i, <2>2, <2>3, PortsKept DEF Holds
<1>9. CASE FreeClient
  <2>1. \A o \in Objects : mem'[o] = IF o \in ClientObjects \cup {closing} THEN "freed" ELSE mem[o]
    BY <1>9 DEF FreeClient, Free
  <2>2. mem'["jack"] = "freed" /\ proxy' = proxy /\ \A o \in Ports : mem'[o] = mem[o]
    BY <1>9, <2>1, Distinct DEF FreeClient, HeapTypes
  <2>3. \A o \in Ports : ~InUse(o)'
    BY <2>2 DEF InUse
  <2> QED
    BY <1>i, <2>2, <2>3, PortsKept DEF Holds
<1> QED
  BY <1>1, <1>2, <1>3, <1>4, <1>5, <1>6, <1>7, <1>8, <1>9, Steps

(***************************************************************************)
(* Ownership without access to the flag.                                   *)
(***************************************************************************)
LEMMA NextCollect == IInv /\ Next => CollectInv'
<1> SUFFICES ASSUME IInv, Next, ~Explicit'
             PROVE  /\ misused' = {}
                    /\ \A y \in Proxies : IsProxy(y)' /\ proxy'[y].own => Holds(y, "JsClient")'
  BY DEF CollectInv
<1>0. TypesInv /\ HeapTypes /\ CollectInv /\ ProxyInv
  BY Steps DEF IInv, TypesInv
<1>k. "JsClient" \in Kinds
  BY DEF Kinds
<1> USE <1>0
<1>1. CASE Calm
  BY <1>1 DEF Calm, CollectInv, Explicit, IsProxy, Holds
<1>2. ASSUME NEW x \in Proxies, NewClient(x)
      PROVE  /\ misused' = {}
             /\ \A y \in Proxies : IsProxy(y)' /\ proxy'[y].own => Holds(y, "JsClient")'
  <2>1. /\ \A y \in Proxies : y # x => proxy'[y] = proxy[y]
        /\ proxy'[x].kind = "JsClient" /\ proxy'[x].own = TRUE
    BY <1>2, NewClientFacts
  <2>2. UNCHANGED <<language, misused>>
    BY <1>2 DEF NewClient, history
  <2> QED
    BY <2>1, <2>2 DEF CollectInv, Explicit, IsProxy, Holds
<1>3. ASSUME NEW x \in Proxies, Acquire(x) PROVE FALSE
  BY <1>3 DEF Acquire, Explicit
<1>4. ASSUME NEW x \in Proxies, ClosesClient(x)
      PROVE  /\ misused' = {}
             /\ \A y \in Proxies : IsProxy(y)' /\ proxy'[y].own => Holds(y, "JsClient")'
  <2>1. IsProxy(x)
    BY <1>4, <1>k, ProxyFacts DEF ClosesClient
  <2>2. /\ \A y \in Proxies : y # x => proxy'[y] = proxy[y]
        /\ proxy'[x] = NoProxy \/ proxy'[x].own = FALSE
    BY <1>4, <2>1, DropsFacts DEF ClosesClient
  <2>3. UNCHANGED <<language, misused>>
    BY <1>4 DEF ClosesClient, history
  <2> QED
    BY <2>2, <2>3 DEF CollectInv, Explicit, IsProxy, Holds
<1>5. ASSUME NEW x \in Proxies, FreesHolder(x) PROVE FALSE
  BY <1>5 DEF FreesHolder, CollectInv, Explicit
<1>6. ASSUME NEW x \in Proxies, Forgets(x)
      PROVE  /\ misused' = {}
             /\ \A y \in Proxies : IsProxy(y)' /\ proxy'[y].own => Holds(y, "JsClient")'
  <2>1. /\ \A y \in Proxies : y # x => proxy'[y] = proxy[y]
        /\ proxy'[x] = NoProxy
    BY <1>6 DEF Forgets, HeapTypes
  <2>2. UNCHANGED <<language, misused>>
    BY <1>6 DEF Forgets, history
  <2> QED
    BY <2>1, <2>2 DEF CollectInv, Explicit, IsProxy, Holds
<1>7. CASE AddsProxy
  <2> PICK x \in Proxies, kind \in Kinds, impl \in Objects \cup {NULL}, new \in SUBSET Ports :
             Adds(x, kind, impl, new)
    BY <1>7 DEF AddsProxy
  <2>a. TypesInv /\ Adds(x, kind, impl, new)
    OBVIOUS
  <2>p. /\ x \in Proxies
        /\ proxy \in [Proxies -> {NoProxy} \cup
                         [kind : Kinds, impl : Objects \cup {NULL}, own : BOOLEAN]]
        /\ proxy' = [proxy EXCEPT ![x] = [kind |-> kind, impl |-> impl, own |-> FALSE]]
    BY <2>a DEF Adds, TypesInv, HeapTypes
  <2>1. /\ \A y \in Proxies : y # x => proxy'[y] = proxy[y]
        /\ proxy'[x].kind = kind /\ proxy'[x].impl = impl /\ proxy'[x].own = FALSE
    BY ONLY <2>p
  <2>2. UNCHANGED <<language, misused>>
    BY DEF Adds
  <2> QED
    BY <2>1, <2>2 DEF CollectInv, Explicit, IsProxy, Holds
<1>8. CASE CloseJack \/ FreeClient
  BY <1>8 DEF CloseJack, FreeClient, CollectInv, Explicit, IsProxy, Holds
<1> QED
  BY <1>1, <1>2, <1>3, <1>4, <1>5, <1>6, <1>7, <1>8, Steps

(***************************************************************************)
(* What a step uses is allocated, and nothing is freed twice.              *)
(***************************************************************************)

\* The script meets freed memory only through a buffer of a freed port.
LEMMA ScriptUses ==
    ASSUME IInv, Next, bad = {}, NEW x \in Proxies, NEW objects, Call(x, objects),
           \A o \in objects : \/ o \in ClientObjects \cup {"jack"}
                              \/ mem[o] = "live" \/ "freed_buffer" \in misused
    PROVE  /\ "freed_buffer" \notin misused => bad' = {}
           /\ \A o \in Objects : <<"jack", o>> \notin bad'
           /\ twice' = twice
<1>1. \A o \in ClientObjects \cup {"jack"} : mem[o] = "live"
  BY Steps DEF Call, ClientInv
<1>2. bad' = {"script"} \X Dead(objects) /\ twice' = twice
  BY DEF Call
<1>3. "freed_buffer" \notin misused => Dead(objects) = {}
  BY <1>1 DEF Dead
<1> QED
  BY <1>2, <1>3

\* JACK's threads meet it only through a port that was freed under them.
LEMMA JackUses ==
    ASSUME IInv, Next, bad = {}, mem["jack"] = "live", NEW objects, JackTouches(objects),
           \A o \in objects : \/ o \in ClientObjects \cup {"jack"}
                              \/ mem[o] = "live" \/ "freed_port" \in misused
    PROVE  "freed_port" \notin misused => bad' = {}
<1>1. \A o \in ClientObjects \cup {"jack"} : mem[o] = "live"
  BY Steps DEF ClientInv
<1>2. "freed_port" \notin misused => Dead(objects) = {}
  BY <1>1 DEF Dead
<1>3. bad' = {"jack"} \X Dead(objects)
  BY DEF JackTouches
<1> QED
  BY <1>2, <1>3

LEMMA NextSafe == IInv /\ Next => SafeInv'
<1> SUFFICES ASSUME IInv, Next PROVE SafeInv'
  OBVIOUS
<1>0. /\ TypesInv /\ HeapTypes /\ ClientTypes /\ ClientInv /\ ProxyInv /\ PortsInv
      /\ bad = {} /\ twice = {} /\ misused \subseteq misused'
      /\ HeapTypes'
  BY Steps, MisusedGrows, NextHeapTypes DEF IInv, TypesInv, Defined
<1> USE <1>0
<1>a. ASSUME "freed_event" \notin misused', pc'.session = "latch" PROVE mem'["latch"] = "live"
  <2>1. ClientInv'
    BY <1>a, NextClient
  <2>2. mem'["jack"] = "live"
    <3>1. mem'["jack"] # "live" => pc' = [process |-> "idle", session |-> "idle"]
      BY <2>1 DEF ClientInv
    <3>2. [process |-> "idle", session |-> "idle"].session # "latch"
      OBVIOUS
    <3> QED
      BY <1>a, <3>1, <3>2
  <2>3. mem'["client"] = "live" /\ "latch" \in ClientObjects
    BY <2>1, <2>2, Distinct DEF ClientInv
  <2> QED
    BY <2>1, <2>3 DEF ClientInv
<1>b. ASSUME /\ "freed_event" \notin misused' => twice' = {}
             /\ misused' \cap {"freed_event", "freed_port"} = {} =>
                   \A o \in Objects : <<"jack", o>> \notin bad'
             /\ misused' = {} => bad' = {}
      PROVE  SafeInv'
  BY <1>a, <1>b DEF SafeInv, CallbacksSafe, ScriptSafe, FreedOnce
<1>c. ASSUME NEW x \in Proxies, NEW objects, Call(x, objects),
             \A o \in objects : \/ o \in ClientObjects \cup {"jack"}
                                \/ mem[o] = "live" \/ "freed_buffer" \in misused
      PROVE  SafeInv'
  <2>1. /\ "freed_buffer" \notin misused => bad' = {}
        /\ \A o \in Objects : <<"jack", o>> \notin bad'
        /\ twice' = twice
    BY <1>c, ScriptUses
  <2> QED
    BY <1>b, <2>1
<1>d. ASSUME NEW objects, JackTouches(objects), mem["jack"] = "live",
             \A o \in objects : \/ o \in ClientObjects \cup {"jack"}
                                \/ mem[o] = "live" \/ "freed_port" \in misused
      PROVE  SafeInv'
  <2>1. "freed_port" \notin misused => bad' = {}
    BY <1>d, JackUses
  <2>2. twice' = twice /\ misused' = misused
    BY <1>d DEF JackTouches
  <2> QED
    BY <1>b, <2>1, <2>2
<1>e. ASSUME UNCHANGED <<bad, twice>> PROVE SafeInv'
  BY <1>b, <1>e
<1>f. ASSUME NEW x \in Proxies, Holds(x, "JsPort"), mem[x] = "live"
      PROVE  mem[proxy[x].impl] = "live"
  BY <1>f DEF ProxyInv, HolderInv
<1>1. ASSUME NEW x \in Proxies, CalmMethod(x) PROVE SafeInv'
  <2>1. CASE UseClient(x)
    <3>1. Call(x, {"client", "jack"})
      BY <2>1 DEF UseClient, Use
    <3> QED
      BY <1>c, <3>1, Distinct
  <2>2. CASE UsePort(x)
    <3>1. Call(x, {proxy[x].impl, "jack"}) /\ mem[proxy[x].impl] = "live"
      BY <1>f, <2>2 DEF UsePort, Use, Call
    <3> QED
      BY <1>c, <3>1
  <2>3. CASE UseEvent(x)
    <3>1. Call(x, {proxy[x].impl}) /\ proxy[x].impl \in ClientObjects
      BY <2>3, Distinct DEF UseEvent, Use, ProxyInv, HolderInv
    <3> QED
      BY <1>c, <3>1
  <2>4. CASE UseBuffer(x)
    <3>1. /\ Call(x, {proxy[x].impl})
          /\ mem[proxy[x].impl] = "live" \/ "freed_buffer" \in misused
      BY <2>4 DEF UseBuffer, Use, PortsInv
    <3> QED
      BY <1>c, <3>1
  <2>5. CASE UseValue(x)
    <3>1. Call(x, {})
      BY <2>5 DEF UseValue, Use
    <3>2. bad' = bad /\ twice' = twice
      BY <3>1 DEF Call, Dead
    <3> QED
      BY <1>e, <3>2
  <2>6. CASE Activate(x)
    BY <1>c, <2>6, Distinct DEF Activate
  <2>7. CASE InitLatencyListener(x)
    <3>1. Call(x, {proxy[x].impl, "client", "jack"}) /\ mem[proxy[x].impl] = "live"
      BY <1>f, <2>7 DEF InitLatencyListener, Call
    <3> QED
      BY <1>c, <3>1, Distinct
  <2>8. CASE Complete(x)
    <3>1. \/ Call(x, {"session_event", "latch"})
          \/ Call(x, {proxy[x].impl})
      BY <2>8 DEF Complete
    <3>2. proxy[x].impl \in ClientObjects
      BY <2>8, Distinct DEF Complete, ProxyInv, HolderInv
    <3> QED
      BY <1>c, <3>1, <3>2, Distinct
  <2> QED
    BY <1>1, <2>1, <2>2, <2>3, <2>4, <2>5, <2>6, <2>7, <2>8 DEF CalmMethod
<1>2. ASSUME NEW x \in Proxies, NEW y \in Proxies, MethodAdds(x, y) PROVE SafeInv'
  <2>1. CASE GetPortNames(x, y)
    BY <1>c, <2>1, Distinct DEF GetPortNames
  <2>2. CASE GetEvent(x, y)
    BY <1>c, <2>2, Distinct DEF GetEvent
  <2>3. CASE GetBuffer(x, y)
    <3>1. Call(x, {proxy[x].impl}) /\ mem[proxy[x].impl] = "live"
      BY <1>f, <2>3 DEF GetBuffer, Call
    <3> QED
      BY <1>c, <3>1
  <2>4. CASE GetLatencyRange(x, y)
    <3>1. Call(x, {proxy[x].impl, "jack"}) /\ mem[proxy[x].impl] = "live"
      BY <1>f, <2>4 DEF GetLatencyRange, Call
    <3> QED
      BY <1>c, <3>1
  <2>5. ASSUME NEW o \in Ports, RegisterPort(x, y, o) \/ GetPort(x, y, o) PROVE SafeInv'
    <3>1. Call(x, {"client", "jack"})
      BY <2>5 DEF RegisterPort, GetPort
    <3> QED
      BY <1>c, <3>1, Distinct
  <2> QED
    BY <1>2, <2>1, <2>2, <2>3, <2>4, <2>5 DEF MethodAdds
<1>3. ASSUME NEW x \in Proxies, NewClient(x) \/ Acquire(x) PROVE SafeInv'
  BY <1>e, <1>3 DEF NewClient, Acquire, history
<1>4. ASSUME NEW x \in Proxies, Delete(x) \/ Collect(x) PROVE SafeInv'
  <2>1. CASE ClosesClient(x) \/ Forgets(x)
    BY <1>e, <2>1 DEF ClosesClient, Forgets, history
  <2>2. CASE FreesHolder(x)
    <3>1. "freed_event" \notin misused' => twice' = twice
      BY <2>2, FreesFacts
    <3>2. bad' = {}
      BY <2>2 DEF FreesHolder
    <3> QED
      BY <1>b, <3>1, <3>2
  <2> QED
    BY <1>4, <2>1, <2>2, Destructors
<1>5. CASE CloseJack
  <2>1. twice' = {} /\ bad' = bad
    BY <1>5 DEF CloseJack, Free
  <2> QED
    BY <1>e, <2>1
<1>6. CASE FreeClient
  <2>1. \A o \in ClientObjects \cup {closing} : mem[o] = "live"
    BY <1>6 DEF FreeClient, ClientInv
  <2>2. twice' = {} /\ bad' = bad
    BY <1>6, <2>1 DEF FreeClient, Free
  <2> QED
    BY <1>e, <2>2
<1>7. CASE Jack
  <2>0. pc.process # "idle" \/ pc.session # "idle" => mem["jack"] = "live"
    BY DEF ClientInv
  <2>1. CASE ProcessCall
    BY <1>e, <2>1 DEF ProcessCall, history
  <2>2. CASE ProcessPort
    <3>1. mem["jack"] = "live" /\ JackTouches({"client", "jack", ports[i]}) /\ i \in DOMAIN ports
      BY <2>0, <2>2 DEF ProcessPort, ClientTypes
    <3>2. ports[i] \in Ports /\ ports[i] \in Members(ports)
      BY <3>1 DEF Members, ClientTypes
    <3>3. mem[ports[i]] = "live" \/ "freed_port" \in misused
      BY <3>1, <3>2 DEF PortsInv, InUse
    <3> QED
      BY <1>d, <3>1, <3>3, Distinct
  <2>3. CASE ProcessReturn
    BY <1>d, <2>0, <2>3, Distinct DEF ProcessReturn
  <2>4. CASE SessionCall
    BY <1>d, <2>4, Distinct DEF SessionCall, JackRuns
  <2>5. CASE SessionLatch
    BY <1>d, <2>0, <2>5, Distinct DEF SessionLatch
  <2>6. CASE SessionReply
    BY <1>d, <2>0, <2>6, Distinct DEF SessionReply
  <2>7. CASE LatencyCall
    <3>1. mem["jack"] = "live" /\ jack.latency_arg \in Ports /\ JackTouches({jack.latency_arg})
      BY <2>7 DEF LatencyCall, JackRuns, ClientTypes
    <3>2. mem[jack.latency_arg] = "live" \/ "freed_port" \in misused
      BY <3>1 DEF PortsInv, InUse
    <3> QED
      BY <1>d, <3>1, <3>2
  <2> QED
    BY <1>7, <2>1, <2>2, <2>3, <2>4, <2>5, <2>6, <2>7 DEF Jack
<1>8. ASSUME NEW x \in Proxies, Method(x) PROVE SafeInv'
  <2>1. CalmMethod(x) \/ NewClient(x) \/ \E y \in Proxies : MethodAdds(x, y)
    BY <1>8 DEF Method, CalmMethod, MethodAdds
  <2> QED
    BY <1>1, <1>2, <1>3, <2>1
<1> QED
  BY <1>3, <1>4, <1>5, <1>6, <1>7, <1>8 DEF Next, Script, ClientFree

(***************************************************************************)
(* The inductive invariant holds in every reachable state.                 *)
(***************************************************************************)
THEOREM Invariance == Spec => []IInv
<1>1. IInv /\ [Next]_vars => IInv'
  <2> SUFFICES ASSUME IInv, [Next]_vars PROVE IInv'
    OBVIOUS
  <2>1. CASE Next
    <3>1. TypesInv' /\ CollectInv' /\ SafeInv'
      BY <2>1, NextHeapTypes, NextClientTypes, NextCollect, NextSafe DEF TypesInv
    <3>2. "freed_event" \notin misused' => ClientInv' /\ ProxyInv' /\ PortsInv'
      BY <2>1, NextClient, NextProxy, NextPorts
    <3> QED
      BY <3>1, <3>2 DEF IInv
  <2>2. CASE UNCHANGED vars
    <3>0. UNCHANGED <<language, mem, proxy, ports, activated, jack, queue, posted, pc, i, closing,
                      bad, twice, misused>>
      BY <2>2 DEF vars, client, callbacks, history
    <3>1. TypesInv'
      BY <3>0 DEF IInv, TypesInv, HeapTypes, ClientTypes
    <3>2. CollectInv'
      BY <3>0 DEF IInv, CollectInv, Explicit, IsProxy, Holds
    <3>3. SafeInv'
      BY <3>0 DEF IInv, SafeInv, CallbacksSafe, ScriptSafe, FreedOnce
    <3>4. ClientInv => ClientInv'
      BY <3>0 DEF ClientInv
    <3>5. ProxyInv => ProxyInv'
      BY <3>0 DEF ProxyInv, HolderInv, UnsharedInv, IsProxy, Holds
    <3>6. PortsInv => PortsInv'
      BY <3>0 DEF PortsInv, InUse, Members, Holds
    <3> QED
      BY <3>0, <3>1, <3>2, <3>3, <3>4, <3>5, <3>6 DEF IInv
  <2> QED
    BY <2>1, <2>2
<1> QED
  BY <1>1, InitIInv, PTL DEF Spec

\* The variables of the bindings' objects keep their types.
THEOREM TypeCorrect == Spec => []TypeOK
<1>1. IInv => TypeOK
  <2> SUFFICES ASSUME IInv PROVE TypeOK
    OBVIOUS
  <2>0. HeapTypes /\ ClientTypes
    BY DEF IInv, TypesInv
  <2>1. ASSUME NEW x \in Proxies
        PROVE  \/ proxy[x] = NoProxy
               \/ /\ proxy[x].kind \in Kinds
                  /\ proxy[x].impl \in Objects \cup {NULL}
                  /\ proxy[x].own \in BOOLEAN
    BY <2>0 DEF HeapTypes
  <2>2. Members(ports) \subseteq Ports /\ Members(queue) \subseteq EventObjects
    BY <2>0 DEF ClientTypes, Members
  <2> QED
    BY <2>0, <2>1, <2>2 DEF HeapTypes, ClientTypes, TypeOK
<1> QED
  BY Invariance, <1>1, PTL

(***************************************************************************)
(* JACK's threads use only memory that is allocated, in whatever order the *)
(* script drops its proxies and the interpreter runs the destructors of    *)
(* Jacks.i, unless the script destroys an event or a port they know; and   *)
(* the latch exists while the session callback waits on it.                *)
(***************************************************************************)
THEOREM CallbacksAreSafe == Spec => []CallbacksSafe
<1>1. IInv => CallbacksSafe
  BY DEF IInv, SafeInv
<1> QED
  BY Invariance, <1>1, PTL

(***************************************************************************)
(* The wrappers of a script that destroys no event, no port in use and no  *)
(* port whose buffer it keeps never follow a pointer into freed memory.    *)
(***************************************************************************)
THEOREM ScriptIsSafe == Spec => []ScriptSafe
<1>1. IInv => ScriptSafe
  BY DEF IInv, SafeInv
<1> QED
  BY Invariance, <1>1, PTL

(***************************************************************************)
(* The destructors of Jacks.i, called by the script or by the collector,   *)
(* free nothing twice unless the script destroys an event.                 *)
(***************************************************************************)
THEOREM NothingFreedTwice == Spec => []FreedOnce
<1>1. IInv => FreedOnce
  BY DEF IInv, SafeInv
<1> QED
  BY Invariance, <1>1, PTL

(***************************************************************************)
(* In Ruby and Lua, whose scripts reach neither the ownership flag nor a   *)
(* destructor, no order of collections does any harm.                      *)
(***************************************************************************)
THEOREM CollectorIsSafe == Spec => []CollectorSafe
<1>1. IInv => CollectorSafe
  <2> SUFFICES ASSUME IInv, language \in {"ruby", "lua"}
               PROVE  misused = {} /\ bad = {} /\ twice = {}
    BY DEF CollectorSafe
  <2>1. misused = {}
    BY DEF IInv, CollectInv, Explicit
  <2> QED
    BY <2>1 DEF IInv, SafeInv, ScriptSafe, FreedOnce
<1> QED
  BY Invariance, <1>1, PTL
==============================================================================
