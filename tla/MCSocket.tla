-------------------------------- MODULE MCSocket -------------------------------
EXTENDS SocketSpec

\* One load has more bytes than the buffers on the way to stdout hold together, the other has
\* the longer input.
MCLoads == {[input |-> 1, peer |-> 5, kind |-> "pipe"], [input |-> 2, peer |-> 0, kind |-> "tty"]}
===============================================================================
