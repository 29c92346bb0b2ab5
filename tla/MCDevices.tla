----------------------------- MODULE MCDevices ------------------------------
(* The USB controller's driver and the console: they share nothing, so       *)
(* `part' says which one works while the other rests.  The xHCI rings are    *)
(* small enough to wrap, and large enough for FewFailures, as 64 entries are;*)
(* the key ring overflows after two keys, and a line fills more              *)
(* than one row of a screen that scrolls.                                    *)
EXTENDS XHCI, Console

Budget(commands, phases, give_ups, errors, ports) ==
  [commands |-> commands, phases |-> phases, give_ups |-> give_ups,
   errors |-> errors, ports |-> ports]

AllPhases == {"none", "in", "out"}

\* Enough writes to take a bulk ring round twice, commands of every kind on
\* ports that change, and a controller that fails.
MCBudgets == {Budget(8, {"out"}, 0, 0, 0), Budget(2, AllPhases, 0, 0, 0),
              Budget(1, AllPhases, 0, 0, 1), Budget(1, AllPhases, 1, 1, 0)}

VARIABLE part
devVars == <<part, xhciVars, consoleVars>>

DevInit ==
  /\ part \in {"xhci", "console"}
  /\ part = "console" => budget = CHOOSE b \in MCBudgets : TRUE
  /\ XhciInit /\ ConsoleInit

Usb(A) == part = "xhci" /\ A /\ UNCHANGED <<part, consoleVars>>
XhciPart == Usb(XhciNext)
ConsolePart == part = "console" /\ ConsoleNext /\ UNCHANGED <<part, xhciVars>>

\* The driver polls in a loop with nothing to stop it, and a controller that
\* works keeps working on each of its rings.
DevSpec ==
  /\ DevInit /\ [][XhciPart \/ ConsolePart]_devVars
  /\ WF_devVars(Usb(Enqueue \/ Poll \/ Return))
  /\ \A r \in Rings : WF_devVars(Usb(Execute(r) \/ FollowLink(r)))
=============================================================================
