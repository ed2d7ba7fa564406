-------------------------------- MODULE TCPState -------------------------------
(***************************************************************************)
(* Class TCPState (libsponge/tcp_helpers/tcp_state.{hh,cc}): the summary   *)
(* of a connection by which TCPSpongeSocket and the tests recognise the    *)
(* states of RFC 793.  Each summary string is a short name here.           *)
(***************************************************************************)
EXTENDS TCPConnection

ReceiverSummary(v) ==
  CASE StreamOut(v).error -> "error"
    [] ~StreamOut(v).error /\ ~v.synRecv -> "listen"
    [] ~StreamOut(v).error /\ v.synRecv ->
         IF StreamOut(v).isInputEnd THEN "fin_recv" ELSE "syn_recv"

SenderSummary(s) ==
  LET ongoing == ~Eof(s.stream) \/ s.q.nextSeqno < s.stream.numWritten + 2
      started == s.q.nextSeqno > 0 /\ s.q.nextSeqno # BytesInFlight(s.q)
  IN  CASE s.stream.error -> "error"
        [] ~s.stream.error /\ s.q.nextSeqno = 0 -> "closed"
        [] ~s.stream.error /\ s.q.nextSeqno > 0 /\ ~started -> "syn_sent"
        [] ~s.stream.error /\ started /\ ongoing -> "syn_acked"
        [] ~s.stream.error /\ started /\ ~ongoing ->
             IF BytesInFlight(s.q) > 0 THEN "fin_sent" ELSE "fin_acked"

\* TCPConnection::state()
StateOf(c) ==
  [sender |-> SenderSummary(c.sender), receiver |-> ReceiverSummary(c.receiver),
   active |-> c.active, linger |-> c.active /\ c.linger]

\* The summary of each official state.
Official ==
  [LISTEN      |-> [sender |-> "closed",    receiver |-> "listen",   active |-> TRUE,  linger |-> TRUE],
   SYN_RCVD    |-> [sender |-> "syn_sent",  receiver |-> "syn_recv", active |-> TRUE,  linger |-> TRUE],
   SYN_SENT    |-> [sender |-> "syn_sent",  receiver |-> "listen",   active |-> TRUE,  linger |-> TRUE],
   ESTABLISHED |-> [sender |-> "syn_acked", receiver |-> "syn_recv", active |-> TRUE,  linger |-> TRUE],
   CLOSE_WAIT  |-> [sender |-> "syn_acked", receiver |-> "fin_recv", active |-> TRUE,  linger |-> FALSE],
   LAST_ACK    |-> [sender |-> "fin_sent",  receiver |-> "fin_recv", active |-> TRUE,  linger |-> FALSE],
   CLOSING     |-> [sender |-> "fin_sent",  receiver |-> "fin_recv", active |-> TRUE,  linger |-> TRUE],
   FIN_WAIT_1  |-> [sender |-> "fin_sent",  receiver |-> "syn_recv", active |-> TRUE,  linger |-> TRUE],
   FIN_WAIT_2  |-> [sender |-> "fin_acked", receiver |-> "syn_recv", active |-> TRUE,  linger |-> TRUE],
   TIME_WAIT   |-> [sender |-> "fin_acked", receiver |-> "fin_recv", active |-> TRUE,  linger |-> TRUE],
   RESET       |-> [sender |-> "error",     receiver |-> "error",    active |-> FALSE, linger |-> FALSE],
   CLOSED      |-> [sender |-> "fin_acked", receiver |-> "fin_recv", active |-> FALSE, linger |-> FALSE]]

\* The official states a connection is in.
In(c, states) == StateOf(c) \in {Official[name] : name \in states}
===============================================================================
