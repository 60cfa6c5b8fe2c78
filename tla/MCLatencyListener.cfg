\* Two ports that compete for the callback; sockets that hold one byte, so that
\* JACK's thread, and a wake-up after one of its writes, have to wait for room
\* when nobody reads.
CONSTANTS
  Ports = {p1, p2}
  BufferSize = 1
  MaxWakeups = 1
SPECIFICATION Spec
PROPERTY ChangeSeen
\* A script that fills its own socket stops for good, and JACK's thread may then
\* wait for it for ever.
CHECK_DEADLOCK FALSE
