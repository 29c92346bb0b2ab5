-------------------------------- MODULE Tor ---------------------------------
(***************************************************************************)
(* The timer-driven part of the anonymity stack: circuit keys and their    *)
(* rotation (kernel/tor.c), traffic padding (kernel/padding.c) and the     *)
(* timer interrupt that drives both (kernel/pit.c).                        *)
(*                                                                         *)
(* A set of circuit keys is the number of its generation, so that new keys *)
(* are never old ones; circuit ids are drawn at random and may repeat.     *)
(* The tick counter has 64 bits and is unbounded here up to MaxTicks; the  *)
(* field that remembers a rotation has WIDTH of them.  What a cell or a    *)
(* padding packet holds is left out, except for the nonce.  The interface  *)
(* takes a padding packet or refuses it, for as long as it likes.          *)
(***************************************************************************)
EXTENDS Integers, Sequences

CONSTANTS
  WIDTH,          \* bits of last_rotation_ticks (32)
  RotateTicks,    \* ticks between rotations (6000)
  PadTicks,       \* ticks between padding packets (20)
  BoostTicks,     \* the same while boosted (5)
  CircuitIds,
  MaxTicks,       \* bound on time
  MaxCells,       \* bound on cells sent
  MaxRekeys       \* bound on initialisations and rotations by command

ASSUME TorAssumption ==
  /\ {WIDTH, RotateTicks, PadTicks, BoostTicks} \subseteq Nat \ {0}
  /\ {MaxTicks, MaxCells, MaxRekeys} \subseteq Nat
  /\ BoostTicks <= PadTicks /\ CircuitIds # {}
  /\ 2 ^ WIDTH \in Nat \ {0, 1}  \* arithmetic, for the provers, which do not know ^

VARIABLES
  ticks,                \* pit_ticks
  nic_active,           \* g_e1000_active
  g_padding_boost_active, g_last_padding_ticks,
  established, last_rotation_ticks, circuit_id,
  keys,                 \* generation of entry, middle and exit key
  g_tor_cells_sent,
  main,                 \* the main context: idle, or inside tor_rotate_circuit
  made,                 \* history: tick at which the keys were generated
  timer_rot,            \* history: tick of the last rotation by the timer
  began,                \* history: tick of the last rotation by command
  padded,               \* history: tick of the last padding packet that went out
  refused,              \* history: padding packets refused since then
  nonces,               \* history: key and nonce of every cell sent
  rekeys

padVars == <<g_padding_boost_active, g_last_padding_ticks, padded, refused>>
torVars == <<ticks, nic_active, g_padding_boost_active, g_last_padding_ticks,
             established, last_rotation_ticks, circuit_id, keys, g_tor_cells_sent,
             main, made, timer_rot, began, padded, refused, nonces, rekeys>>

TorInit ==
  /\ ticks = 0 /\ nic_active = FALSE
  /\ g_padding_boost_active = FALSE /\ g_last_padding_ticks = 0
  /\ established = FALSE /\ last_rotation_ticks = 0
  /\ circuit_id \in CircuitIds /\ keys = 0 /\ g_tor_cells_sent = 0
  /\ main = "idle" /\ made = 0 /\ timer_rot = 0 /\ began = 0
  /\ padded = 0 /\ refused = 0 /\ nonces = <<>> /\ rekeys = 0

\* tor_gen_key three times and a random circuit id, at tick t.
NewKeys(t) == keys' = keys + 1 /\ circuit_id' \in CircuitIds /\ made' = t

----------------------------------------------------------------------------
(* The main context.                                                        *)

\* tor_init, at boot and again in the network test.
tor_init ==
  /\ main = "idle" /\ rekeys < MaxRekeys
  /\ rekeys' = rekeys + 1
  /\ established' = TRUE /\ last_rotation_ticks' = 0 /\ timer_rot' = 0
  /\ g_tor_cells_sent' = 0
  /\ NewKeys(ticks)
  /\ UNCHANGED <<ticks, nic_active, padVars, main, began, nonces>>

\* e1000_init followed by padding_init.
StartNic ==
  /\ main = "idle" /\ ~nic_active
  /\ nic_active' = TRUE
  /\ g_padding_boost_active' = FALSE /\ g_last_padding_ticks' = 0
  /\ padded' = ticks /\ refused' = 0
  /\ UNCHANGED <<ticks, established, last_rotation_ticks, circuit_id, keys,
                 g_tor_cells_sent, main, made, timer_rot, began, nonces, rekeys>>

\* Mutant: only cells that reach a network interface are counted.
CountsSent == IF nic_active THEN g_tor_cells_sent + 1 ELSE g_tor_cells_sent

\* The counter after a cell, sent or not.
CellsAfter == g_tor_cells_sent + 1

Nonce == <<keys, circuit_id, g_tor_cells_sent + 1>>

\* tor_send_cell with a valid token.  It runs with interrupts off, or so soon
\* after tor_init that no rotation is due.
tor_send_cell ==
  /\ main = "idle" /\ established /\ Len(nonces) < MaxCells
  /\ nonces' = Append(nonces, Nonce)
  /\ g_tor_cells_sent' = CellsAfter
  /\ UNCHANGED <<ticks, nic_active, padVars, established, last_rotation_ticks,
                 circuit_id, keys, main, made, timer_rot, began, rekeys>>

\* Mutant: the boost of a rotation is not taken back.
LeavesBoost == g_padding_boost_active' = TRUE

\* padding_boost(false), at the end of every rotation.
EndBoost == g_padding_boost_active' = FALSE

\* tor_rotate_circuit from a command, with interrupts on: boost, new keys,
\* end of the boost.
RotateBegin ==
  /\ main = "idle" /\ established /\ rekeys < MaxRekeys
  /\ rekeys' = rekeys + 1
  /\ main' = "boosted" /\ g_padding_boost_active' = TRUE /\ began' = ticks
  /\ UNCHANGED <<ticks, nic_active, g_last_padding_ticks, padded, refused, established,
                 last_rotation_ticks, circuit_id, keys, g_tor_cells_sent, made,
                 timer_rot, nonces>>

RotateKeys ==
  /\ main = "boosted"
  /\ main' = "rekeyed"
  /\ NewKeys(ticks)
  /\ UNCHANGED <<ticks, nic_active, padVars, established, last_rotation_ticks,
                 g_tor_cells_sent, timer_rot, began, nonces, rekeys>>

RotateEnd ==
  /\ main = "rekeyed"
  /\ main' = "idle" /\ EndBoost
  /\ UNCHANGED <<ticks, nic_active, g_last_padding_ticks, padded, refused, established,
                 last_rotation_ticks, circuit_id, keys, g_tor_cells_sent, made,
                 timer_rot, began, nonces, rekeys>>

\* tor_check_dead_reckoning on a dropped connection.
DeadReckoning ==
  /\ main = "idle" /\ established
  /\ established' = FALSE
  /\ UNCHANGED <<ticks, nic_active, padVars, last_rotation_ticks, circuit_id,
                 keys, g_tor_cells_sent, main, made, timer_rot, began, nonces, rekeys>>

----------------------------------------------------------------------------
(* The timer interrupt, after it has advanced the tick counter to t.        *)

\* Mutant: the boost asks for fewer packets instead of more.
SlowBoost(t) ==
  t - g_last_padding_ticks >= (IF g_padding_boost_active THEN 2 * PadTicks ELSE PadTicks)

\* The interval depends on the boost.
PaddingDue(t) ==
  t - g_last_padding_ticks >= (IF g_padding_boost_active THEN BoostTicks ELSE PadTicks)

\* padding_tick: the tick is noted before the packet is offered, so a packet that
\* is refused is not tried again before the next interval.
padding_tick(t) ==
  IF nic_active /\ PaddingDue(t)
  THEN /\ g_last_padding_ticks' = t
       /\ \/ padded' = t /\ refused' = 0
          \/ padded' = padded /\ refused' = refused + 1
  ELSE UNCHANGED <<g_last_padding_ticks, padded, refused>>

\* Mutant: a rotation is not noted.
ForgetsRotation(t) == last_rotation_ticks' = last_rotation_ticks

\* The assignment to last_rotation_ticks keeps the low bits.
NoteRotation(t) == last_rotation_ticks' = t % (2 ^ WIDTH)

\* Mutant: one tick less than the period.
EarlyRotation(t) == t - last_rotation_ticks >= RotateTicks - 1

RotationDue(t) == t - last_rotation_ticks >= RotateTicks

\* tor_tick: the first tick is only noted; a rotation also ends the boost.
tor_tick(t) ==
  CASE established /\ last_rotation_ticks = 0 ->
         NoteRotation(t) /\ UNCHANGED <<g_padding_boost_active, circuit_id, keys, made, timer_rot>>
    [] established /\ last_rotation_ticks # 0 /\ RotationDue(t) ->
         NoteRotation(t) /\ NewKeys(t) /\ timer_rot' = t /\ EndBoost
    [] OTHER ->
         UNCHANGED <<last_rotation_ticks, g_padding_boost_active, circuit_id, keys, made, timer_rot>>

\* pit_callback.
Tick ==
  /\ ticks < MaxTicks
  /\ ticks' = ticks + 1
  /\ padding_tick(ticks')
  /\ tor_tick(ticks')
  /\ UNCHANGED <<nic_active, established, g_tor_cells_sent, main, began, nonces, rekeys>>

TorNext == tor_init \/ StartNic \/ tor_send_cell \/ RotateBegin \/ RotateKeys
           \/ RotateEnd \/ DeadReckoning \/ Tick
TorSpec == TorInit /\ [][TorNext]_torVars

----------------------------------------------------------------------------

\* A stored tick is never ahead of the counter and the last rotation fits its
\* field (padding_tick, tor_tick).
TorTypeOK ==
  /\ {ticks, keys, g_tor_cells_sent, refused} \subseteq Nat
  /\ {nic_active, g_padding_boost_active, established} \subseteq BOOLEAN
  /\ last_rotation_ticks \in 0 .. 2 ^ WIDTH - 1
  /\ g_last_padding_ticks \in 0 .. ticks
  /\ circuit_id \in CircuitIds
  /\ main \in {"idle", "boosted", "rekeyed"}

\* The keys of a live circuit are replaced in time: they are never older than
\* the rotation period and the one tick it takes to start it, whatever
\* initialisations and rotations by command come in between (tor_tick).
KeysYoung == established => ticks - made <= RotateTicks + 1

\* The bible and tor_tick's comment: the timer leaves a whole rotation period
\* between two rotations.
RotationSpaced ==
  [][timer_rot # 0 /\ timer_rot' # timer_rot /\ timer_rot' # 0
       => timer_rot' - timer_rot >= RotateTicks]_torVars

\* Padding pauses only for the interface: with the interface up, two padding packets
\* that go out lie at most an interval apart for each one refused in between, and the
\* one after, through boosts that begin and end within it (padding_tick).
PaddingSteady == nic_active => ticks - padded < PadTicks * (refused + 1)

\* The boost never outlives the rotation that asked for it, and it covers all of a
\* rotation by command unless the timer rotates in the middle of it, whose own end of
\* the boost then serves for both (tor_rotate_circuit, nested in itself).
BoostCovers ==
  /\ g_padding_boost_active => main # "idle"
  /\ main # "idle" /\ ~g_padding_boost_active => timer_rot > began

\* No two cells are encrypted under the same keys and nonce: the cell counter
\* goes on where the keys stay, and restarts only with new ones.
NonceFresh == \A i, j \in DOMAIN nonces : nonces[i] = nonces[j] => i = j

\* The timer keeps its deadlines through initialisations, rotations by command,
\* boosts and dropped circuits: young keys, no pause in the padding that the interface
\* does not cause, a boost for as long as a rotation takes, and no nonce used twice
\* under one key.
TorInv == TorTypeOK /\ KeysYoung /\ PaddingSteady /\ BoostCovers /\ NonceFresh
=============================================================================
