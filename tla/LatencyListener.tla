--------------------------- MODULE LatencyListener ---------------------------
(***************************************************************************)
(* The latency listeners of JacksRbPort.  A port has a socket pair for     *)
(* each latency mode the script listens to; JACK's latency callback writes *)
(* a byte to one end, and the script's event loop watches the other.  In   *)
(* place of sockets a script may ask for SIGUSR2.  All ports of a client   *)
(* share the one latency callback that JACK keeps, and JACK does not       *)
(* replace a callback once the client is active.                           *)
(***************************************************************************)
EXTENDS Naturals

CONSTANTS Ports,
          BufferSize,  \* bytes a socket holds before a write blocks
          MaxWakeups   \* bound: wake-ups the script asks for

ASSUME ListenerAssumption == BufferSize \in Nat \ {0} /\ MaxWakeups \in Nat

VARIABLES fd,             \* the socket pair of a port and mode exists
          lat_cb_is_init, \* of each port
          callback,       \* JACK's latency callback: function and argument
          active,         \* the client is active
          bytes,          \* written and not yet read
          signal,         \* SIGUSR2 is pending
          jack,           \* what JACK's thread does
          script,         \* what the script does
          wakeups,        \* wake-ups the script has asked for
          returned,       \* by the last init call for a port and mode
          owed            \* history: modes of which the script has yet to hear

vars == <<fd, lat_cb_is_init, callback, active, bytes, signal, jack, script,
          wakeups, returned, owed>>
listeners == <<fd, lat_cb_is_init, callback, returned>>

Modes == {"playback", "capture"}

NoCallback == [function |-> "none"]
FdCallback(p) == [function |-> "latency_listener_fd", arg |-> p]
SigCallback(p) == [function |-> "latency_listener", arg |-> p]

Idle == [at |-> "idle"]
\* In latency_listener_fd, called with mode m and port p
Writing(p, m) == [at |-> "write", port |-> p, mode |-> m]

\* JacksRbPort_new for every port
Init == /\ fd = [p \in Ports |-> [m \in Modes |-> FALSE]]
        /\ lat_cb_is_init = [p \in Ports |-> FALSE]
        /\ callback = NoCallback
        /\ active = FALSE
        /\ bytes = [p \in Ports |-> [m \in Modes |-> 0]]
        /\ signal = FALSE
        /\ jack = Idle
        /\ script = Idle
        /\ wakeups = 0
        /\ returned = [p \in Ports |-> [m \in Modes |-> "nothing"]]
        /\ owed = [p \in Ports |-> {}]

\* Mutant: a mode's socket is written when capture has a listener.
HasListenerCapture(p, m) == fd[p]["capture"]

\* The test of latency_listener_fd: is there a socket for this mode?
HasListener(p, m) == fd[p][m]

\* One write of latency_listener_fd; it waits while the socket is full.
WriteByte(p, m) ==
    IF HasListener(p, m)
    THEN /\ bytes[p][m] < BufferSize
         /\ bytes' = [bytes EXCEPT ![p][m] = @ + 1]
    ELSE UNCHANGED bytes

\* The script watches a descriptor once an init call has returned it.
Listens(p, m) == returned[p][m] \in {"fd", "already"}

Owe(p, modes) == owed' = [owed EXCEPT ![p] = @ \cup {m \in modes : Listens(p, m)}]
-----------------------------------------------------------------------------
(* The script *)

Returns(p, m, what) == returned' = [returned EXCEPT ![p][m] = what]

\* The descriptor of an earlier call
InitAgain(p, m) == /\ script = Idle
                   /\ fd[p][m]
                   /\ Returns(p, m, "already")
                   /\ UNCHANGED <<fd, lat_cb_is_init, callback, active, bytes,
                                  signal, jack, script, wakeups, owed>>

\* socketpair fails
InitNoSocket(p, m) == /\ script = Idle
                      /\ ~fd[p][m]
                      /\ Returns(p, m, "error")
                      /\ UNCHANGED <<fd, lat_cb_is_init, callback, active,
                                     bytes, signal, jack, script, wakeups,
                                     owed>>

\* register_lat_cb, which JACK refuses to an active client
RegisterLatCb(p) ==
    IF active THEN UNCHANGED <<lat_cb_is_init, callback>>
    ELSE /\ callback' = FdCallback(p)
         /\ lat_cb_is_init' = [lat_cb_is_init EXCEPT ![p] = TRUE]

\* The port's callback is registered with its first socket pair.
InitListener(p, m) ==
    /\ script = Idle
    /\ ~fd[p][m]
    /\ fd' = [fd EXCEPT ![p][m] = TRUE]
    /\ \/ /\ lat_cb_is_init[p]
          /\ Returns(p, m, "fd")
          /\ UNCHANGED <<lat_cb_is_init, callback>>
       \/ /\ ~lat_cb_is_init[p]
          /\ RegisterLatCb(p)
          /\ Returns(p, m, IF active THEN "error" ELSE "fd")
    /\ UNCHANGED <<active, bytes, signal, jack, script, wakeups, owed>>

InitFd(p, m) == InitAgain(p, m) \/ InitNoSocket(p, m) \/ InitListener(p, m)

\* initLatencyListener, which asks for the signal
InitSignal(p) == /\ script = Idle
                 /\ callback' = IF active THEN callback ELSE SigCallback(p)
                 /\ UNCHANGED <<fd, lat_cb_is_init, active, bytes, signal,
                                jack, script, wakeups, returned, owed>>

Activate == /\ script = Idle
            /\ ~active
            /\ active' = TRUE
            /\ UNCHANGED <<listeners, bytes, signal, jack, script, wakeups, owed>>

\* wakeupLatencyCallbacks: the script itself runs latency_listener_fd, whether
\* or not the client is active and the sockets have room.
Wakeup(p) == /\ script = Idle
             /\ wakeups < MaxWakeups
             /\ wakeups' = wakeups + 1
             /\ script' = Writing(p, "playback")
             /\ Owe(p, Modes)
             /\ UNCHANGED <<listeners, active, bytes, signal, jack>>

\* Playback first, then capture
WakeupWrite(p, m) == /\ script = Writing(p, m)
                     /\ WriteByte(p, m)
                     /\ script' = IF m = "playback" THEN Writing(p, "capture")
                                                    ELSE Idle
                     /\ UNCHANGED <<listeners, active, signal, jack, wakeups, owed>>

\* wakeupSigLatencyCallback
WakeupSignal == /\ script = Idle
                /\ signal' = TRUE
                /\ UNCHANGED <<listeners, active, bytes, jack, script, wakeups, owed>>

Readable(p, m) == script = Idle /\ Listens(p, m) /\ bytes[p][m] > 0

Heard(p, m) == owed' = [owed EXCEPT ![p] = @ \ {m}]

\* The event loop finds a descriptor readable and calls the script, which reads
\* nothing: the descriptor stays readable.
Notice(p, m) == /\ Readable(p, m)
                /\ Heard(p, m)
                /\ UNCHANGED <<listeners, active, bytes, signal, jack, script,
                               wakeups>>

\* A script that does read, some or all of what there is
Drain(p, m) == /\ Readable(p, m)
               /\ \E n \in 1..bytes[p][m] :
                     bytes' = [bytes EXCEPT ![p][m] = @ - n]
               /\ Heard(p, m)
               /\ UNCHANGED <<listeners, active, signal, jack, script, wakeups>>

\* The script's handler for SIGUSR2
HandleSignal == /\ script = Idle
                /\ signal
                /\ signal' = FALSE
                /\ UNCHANGED <<listeners, active, bytes, jack, script, wakeups, owed>>
-----------------------------------------------------------------------------
(* JACK *)

\* A latency changed: JACK calls the callback.
LatencyChange(m) ==
    /\ active /\ jack = Idle
    /\ \/ \E p \in Ports : /\ callback = FdCallback(p)
                           /\ jack' = Writing(p, m)
                           /\ Owe(p, {m})
                           /\ UNCHANGED signal
       \/ \E p \in Ports : /\ callback = SigCallback(p)
                           /\ signal' = TRUE
                           /\ UNCHANGED <<jack, owed>>
    /\ UNCHANGED <<listeners, active, bytes, script, wakeups>>

CallbackWrite(p, m) == /\ jack = Writing(p, m)
                       /\ WriteByte(p, m)
                       /\ jack' = Idle
                       /\ UNCHANGED <<listeners, active, signal, script, wakeups,
                                      owed>>
-----------------------------------------------------------------------------
ScriptStep == \/ \E p \in Ports, m \in Modes :
                    \/ InitFd(p, m) \/ WakeupWrite(p, m)
                    \/ Notice(p, m) \/ Drain(p, m)
              \/ \E p \in Ports : InitSignal(p) \/ Wakeup(p)
              \/ Activate \/ WakeupSignal \/ HandleSignal

JackStep == \/ \E m \in Modes : LatencyChange(m)
            \/ \E p \in Ports, m \in Modes : CallbackWrite(p, m)

Next == ScriptStep \/ JackStep

\* A write that can go on does, and the event loop calls the script for a
\* descriptor that stays readable.  Nothing makes the script read.
Fairness == \A p \in Ports, m \in Modes : /\ WF_vars(CallbackWrite(p, m))
                                          /\ WF_vars(WakeupWrite(p, m))
                                          /\ WF_vars(Notice(p, m))

Spec == Init /\ [][Next]_vars /\ Fairness
-----------------------------------------------------------------------------
\* The script waits for room in a socket that only the script can read.
Stuck == \E p \in Ports, m \in Modes : /\ script = Writing(p, m)
                                       /\ fd[p][m]
                                       /\ bytes[p][m] = BufferSize

(***************************************************************************)
(* Every latency change that JACK reports to a port, and every wake-up,    *)
(* reaches the script through each descriptor it listens to, whether or    *)
(* not the script reads the sockets and JACK's thread has to wait for room *)
(* in one.  The one exception is a script that blocks in a wake-up of its  *)
(* own, on a socket it has not read: it never returns to its event loop.   *)
(***************************************************************************)
ChangeSeen ==
    \A p \in Ports, m \in Modes : (m \in owed[p]) ~> (m \notin owed[p] \/ Stuck)
==============================================================================
