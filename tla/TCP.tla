-------------------------------- MODULE TCP ---------------------------------
(***************************************************************************)
(* The TCP engine (kernel/tcp.c): a global table of sockets, used through  *)
(* the SOCKET, CONNECT, SEND and RECV system calls.                        *)
(*                                                                         *)
(* The network interface takes a frame or refuses it.  A frame is reduced  *)
(* to the socket's incarnation, its sequence number and length, the SYN    *)
(* flag, and an identity that stands for what it holds.  Nothing ever      *)
(* fills a receive buffer, so tcp_socket_recv returns 0 and changes        *)
(* nothing; it is left out.                                                *)
(***************************************************************************)
EXTENDS Naturals, FiniteSets

CONSTANTS
  MAX_TCP_SOCKETS,
  FirstPort, LastPort,   \* the ephemeral ports (49152, 65530)
  SEQ,                   \* number of sequence numbers (2^32)
  ISNs,                  \* initial sequence numbers tried
  Lengths,               \* payload lengths offered
  NET_TCP_PAYLOAD_MAX,
  Remotes,               \* addresses connected to
  MaxCreates,            \* bound: sockets created
  MaxBuilt,              \* bound: frames built
  MaxBytes               \* bound: sequence numbers used in all

ASSUME TcpAssumption ==
  /\ {MAX_TCP_SOCKETS, FirstPort, LastPort, NET_TCP_PAYLOAD_MAX, MaxCreates,
      MaxBuilt, MaxBytes} \subseteq Nat
  /\ FirstPort <= LastPort /\ SEQ \in Nat \ {0} /\ MaxBytes <= SEQ
  /\ Lengths \subseteq Nat /\ ISNs \subseteq 0 .. SEQ - 1

Sockets == 0 .. MAX_TCP_SOCKETS - 1
None == "none"

VARIABLES
  g_sockets,               \* active, state, local_port, remote, seq_num; the
                           \* incarnation counts the sockets created
  g_next_ephemeral_port,
  creates,                 \* sockets created so far
  built,                   \* frames built so far, the refused ones included
  frames,                  \* frames the interface took
  taken                    \* sequence numbers used up so far

tcpVars == <<g_sockets, g_next_ephemeral_port, creates, built, frames, taken>>

Unused == [active |-> FALSE, state |-> "CLOSED", local_port |-> 0, remote |-> None,
           seq_num |-> 0, incarnation |-> 0]

\* tcp_init.
TcpInit == /\ g_sockets = [i \in Sockets |-> Unused]
           /\ g_next_ephemeral_port = FirstPort
           /\ creates = 0 /\ built = 0 /\ frames = {} /\ taken = 0

----------------------------------------------------------------------------

\* The port after p: the counter starts over once it is beyond the last port.
NextPort(p) == IF p + 1 > LastPort THEN FirstPort ELSE p + 1

\* The first socket that is not active is taken; the initial sequence number is
\* random.  With none left the call returns -1.
tcp_socket_create ==
  /\ creates < MaxCreates
  /\ LET idle == {i \in Sockets : ~g_sockets[i].active}
         i == CHOOSE j \in idle : \A k \in idle : j <= k IN
     /\ idle # {}
     /\ \E n \in ISNs :
          g_sockets' = [g_sockets EXCEPT ![i] =
            [active |-> TRUE, state |-> "CLOSED",
             local_port |-> g_next_ephemeral_port,
             remote |-> g_sockets[i].remote, seq_num |-> n,
             incarnation |-> creates + 1]]
  /\ g_next_ephemeral_port' = NextPort(g_next_ephemeral_port)
  /\ creates' = creates + 1
  /\ UNCHANGED <<built, frames, taken>>

\* net_build_tcp: every frame is one of its own, a second attempt at the same payload
\* included.
Frame(s, syn, len) ==
  [id |-> built + 1, conn |-> s.incarnation, seq |-> s.seq_num, syn |-> syn, len |-> len]

\* What the frame takes of the sequence space.
Span(f) == IF f.syn THEN 1 ELSE f.len

\* Mutant: the SYN is not counted.
KeepsSeq(s) == s

\* "SYN consumes 1 sequence number".
AfterSyn(s) == [s EXCEPT !.seq_num = (s.seq_num + 1) % SEQ]

\* tcp_socket_connect: the SYN is offered to the interface, and the handshake is
\* taken for done whether or not it went out.
tcp_socket_connect(i, dst) ==
  LET s == [g_sockets[i] EXCEPT !.remote = dst, !.state = "ESTABLISHED"] IN
  /\ g_sockets[i].active /\ built < MaxBuilt /\ taken < MaxBytes
  /\ g_sockets' = [g_sockets EXCEPT ![i] = AfterSyn(s)]
  /\ built' = built + 1 /\ taken' = taken + 1
  /\ frames' \in {frames, frames \cup {Frame(s, TRUE, 0)}}
  /\ UNCHANGED <<g_next_ephemeral_port, creates>>

\* Mutant: a payload is not counted.
KeepsNumber(s, len) == s

\* The sequence number moves before the frame is handed over.
AfterData(s, len) == [s EXCEPT !.seq_num = (s.seq_num + len) % SEQ]

\* tcp_socket_send: a payload that does not fit a frame is refused; the sequence
\* number has moved on even when the interface then refuses the frame.
tcp_socket_send(i, len) ==
  LET s == g_sockets[i] IN
  /\ s.active /\ s.state = "ESTABLISHED"
  /\ len <= NET_TCP_PAYLOAD_MAX /\ built < MaxBuilt /\ taken + len <= MaxBytes
  /\ g_sockets' = [g_sockets EXCEPT ![i] = AfterData(s, len)]
  /\ built' = built + 1 /\ taken' = taken + len
  /\ frames' \in {frames, frames \cup {Frame(s, FALSE, len)}}
  /\ UNCHANGED <<g_next_ephemeral_port, creates>>

\* tcp_socket_close builds a FIN frame and throws it away.
tcp_socket_close(i) ==
  /\ g_sockets[i].active
  /\ g_sockets' = [g_sockets EXCEPT ![i].active = FALSE, ![i].state = "CLOSED"]
  /\ UNCHANGED <<g_next_ephemeral_port, creates, built, frames, taken>>

TcpNext ==
  \/ tcp_socket_create
  \/ \E i \in Sockets : \/ \E dst \in Remotes : tcp_socket_connect(i, dst)
                        \/ \E len \in Lengths : tcp_socket_send(i, len)
                        \/ tcp_socket_close(i)

TcpSpec == TcpInit /\ [][TcpNext]_tcpVars

----------------------------------------------------------------------------
(* Properties.                                                              *)

Active == {i \in Sockets : g_sockets[i].active}

\* The types of the sockets: the states the engine really uses, ports of the
\* ephemeral range, sequence numbers of the header's width.
TcpTypeOK ==
  /\ \A i \in Active :
       /\ g_sockets[i].state \in {"CLOSED", "ESTABLISHED"}
       /\ g_sockets[i].local_port \in FirstPort .. LastPort
       /\ g_sockets[i].seq_num \in 0 .. SEQ - 1
       /\ g_sockets[i].remote \in Remotes \cup {None}
  /\ g_next_ephemeral_port \in FirstPort .. LastPort
  /\ creates \in 0 .. MaxCreates /\ built \in 0 .. MaxBuilt
  /\ \A f \in frames : /\ f.id \in 1 .. built /\ f.len \in Lengths \cup {0}
                       /\ f.seq \in 0 .. SEQ - 1

Numbers(f) == {(f.seq + k) % SEQ : k \in 0 .. Span(f) - 1}

\* No sequence number is used for two frames of one connection, across connects,
\* sends that are refused and tried again, and the wrap of the sequence space: a
\* receiver never sees two contents for one number (tcp_socket_connect,
\* tcp_socket_send).
NoOverlap ==
  \A f, g \in frames :
    (f.conn = g.conn /\ f # g) => Numbers(f) \cap Numbers(g) = {}

\* tcp_handle_packet finds the socket of a packet by its port alone: no two active
\* sockets may share one, as long as no more sockets were created than there are
\* ports.
PortsDistinct ==
  creates <= LastPort - FirstPort + 1 =>
    \A i, j \in Active :
      g_sockets[i].local_port = g_sockets[j].local_port => i = j

\* Connections are told apart: by port on this side, and by sequence numbers
\* within each, whatever was closed, reopened or refused before.
TcpInv == TcpTypeOK /\ NoOverlap /\ PortsDistinct
=============================================================================
