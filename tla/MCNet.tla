------------------------------- MODULE MCNet --------------------------------
(* The network stack: interface driver, circuit and padding timers, socket   *)
(* table and frame builders.  They meet only in calls that send a frame and  *)
(* report whether it went out, which each module has for itself, so `part'   *)
(* says which one works while the others rest.                               *)
EXTENDS NIC, Tor, TCP, NetProto

CONSTANT Parts  \* the parts that are explored

\* Sums without a carry, with one, and with one that carries again.
MCPseudo == {0, 8, 15, 46, 239}

VARIABLE part
stackVars == <<part, nicVars, torVars, tcpVars, netVars>>

StackInit ==
  /\ part \in Parts
  /\ part # "proto" => pseudo = 0 /\ header = [i \in 1 .. HEADER |-> 0]
  /\ part # "tor" => circuit_id = CHOOSE id \in CircuitIds : TRUE
  /\ NicInit /\ TorInit /\ TcpInit /\ NetInit

NicPart == part = "nic" /\ NicNext /\ UNCHANGED <<part, torVars, tcpVars, netVars>>
TorPart == part = "tor" /\ TorNext /\ UNCHANGED <<part, nicVars, tcpVars, netVars>>
TcpPart == part = "tcp" /\ TcpNext /\ UNCHANGED <<part, nicVars, torVars, netVars>>
ProtoPart == part = "proto" /\ Extend /\ UNCHANGED <<part, nicVars, torVars, tcpVars>>

\* The controller transmits what it was given, and the main context, once it has
\* filled a descriptor, gets to the next statement.
StackSpec ==
  /\ StackInit
  /\ [][NicPart \/ TorPart \/ TcpPart \/ ProtoPart]_stackVars
  /\ WF_stackVars(NicPart /\ Transmit) /\ WF_stackVars(NicPart /\ SendTail)
=============================================================================
