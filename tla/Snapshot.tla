------------------------------ MODULE Snapshot ------------------------------
(***************************************************************************)
(* Session snapshots (kernel/snapshot.c): the session is cut into sectors, *)
(* each sealed with AES-256-GCM and written to the oblivious store, data   *)
(* first and the header in block 0 last.  The store is used through its    *)
(* abstract specification, BlockStore, while it is not broken.             *)
(*                                                                         *)
(* A session is one value per sector.  A sealed sector is what was sealed  *)
(* together with key, block number and sequence number; it opens under the *)
(* same key only.  The endpoint pool travels in the header, of which block *)
(* 0 takes the first 480 of 568 bytes: pool is the part that fits.  The    *)
(* rest (endpoints 13 to 15 and all the in-use flags) is not saved, and a  *)
(* restore reads it from whatever lies behind its buffer.                  *)
(***************************************************************************)
EXTENDS Integers, Sequences

CONSTANTS
  SNAP_BLOCKS,      \* blocks the store accepts (ORAM_NUM_LEAVES)
  Sizes,            \* sectors a session may take
  BUFFER,           \* sectors the serialization buffer of 32 KB has room for
  Pools,            \* contents of the endpoint pool, 0 the empty one
  MaxWork,          \* bound: how often the session changes
  MaxSaves,         \* bound: saves that complete in one boot
  MaxCycles         \* bound: power cycles

ASSUME SnapAssumption ==
  /\ SNAP_BLOCKS \in Nat \ {0} /\ Sizes \subseteq Nat \ {0} /\ Sizes # {}
  /\ BUFFER \in Nat /\ MaxWork \in Nat /\ MaxSaves \in Nat /\ MaxCycles \in Nat \ {0} /\ 0 \in Pools

Addresses == 0 .. SNAP_BLOCKS - 1
DataBlocks == Addresses \ {0}
Keys == 0 .. MaxCycles
ZeroKey == 0

Body == [type : {"data"}, chunk : 0 .. MaxWork]
        \cup [type : {"header"}, total : Sizes, pool : Pools]
Sealed == [key : Keys, lba : Addresses, seq : 1 .. MaxSaves, body : Body]
Blank == [key |-> "none"]

Sessions == UNION {[1 .. n -> 0 .. MaxWork] : n \in Sizes}
Nothing == [session |-> <<>>, pool |-> 0]

VARIABLES
  blocks,             \* the oblivious store
  cycles, work,        \* how often power came on and the session changed
  session,            \* the tasks and their pages, by sector
  pool,               \* the endpoint pool, as far as it is saved
  g_snapshot_key,
  g_sequence_number,
  saving,             \* 0, or the block a running save writes next
  saved,              \* ghost: what the last complete save held
  torn,               \* ghost: a save began after that and did not complete
  overrun,            \* a session was serialized past the end of the buffer
  rc                  \* result of the last call

snapVars == <<blocks, cycles, work, session, pool, g_snapshot_key, g_sequence_number,
              saving, saved, torn, overrun, rc>>

Store == INSTANCE BlockStore WITH Blocks <- Sealed \cup {Blank}, ZeroBlock <- Blank,
                                  store <- blocks, last <- Blank, broken <- FALSE

SnapInit ==
  /\ blocks = [a \in Addresses |-> Blank] /\ cycles = 1 /\ work = 0
  /\ \E n \in Sizes : session = [i \in 1 .. n |-> 0]
  /\ pool = 0
  /\ g_snapshot_key = 1 /\ g_sequence_number = 1
  /\ saving = 0 /\ saved = Nothing /\ torn = FALSE /\ rc = 0
  /\ overrun = FALSE

\* Between two calls.  Nothing is known of a kernel that wrote past its buffer.
Idle == saving = 0 /\ ~overrun

\* snapshot_init, called by the M10 test after authentication: the key that
\* snapshot_set_key installed is cleared, and oram_init drops what is in the stash.
snapshot_init ==
  /\ Idle
  /\ g_snapshot_key' = ZeroKey
  /\ \E lost \in SUBSET Addresses : blocks' = Store!Without(lost)
  /\ UNCHANGED <<cycles, work, session, pool, g_sequence_number,
                 saving, saved, torn, overrun, rc>>

\* The session goes on: tasks run, endpoints are used.
Work ==
  /\ Idle /\ work < MaxWork
  /\ work' = work + 1
  /\ \E n \in Sizes : session' = [i \in 1 .. n |-> work + 1]
  /\ pool' \in Pools
  /\ UNCHANGED <<blocks, cycles, g_snapshot_key, g_sequence_number,
                 saving, saved, torn, overrun, rc>>

----------------------------------------------------------------------------
(* snapshot_save.                                                           *)

Seal(a, body) == [key |-> g_snapshot_key, lba |-> a, seq |-> g_sequence_number, body |-> body]

DataSector == Seal(saving, [type |-> "data", chunk |-> session[saving]])
Header == Seal(0, [type |-> "header", total |-> Len(session), pool |-> pool])

\* Everything is serialized first, into a buffer whose end is not watched; when the
\* heap is exhausted there is none.
SaveBegin ==
  /\ Idle /\ g_sequence_number <= MaxSaves
  /\ \/ /\ Len(session) <= BUFFER
        /\ saving' = 1
        /\ torn' = TRUE
        /\ UNCHANGED <<overrun, rc>>
     \/ /\ Len(session) > BUFFER
        /\ overrun' = TRUE
        /\ UNCHANGED <<saving, torn, rc>>
     \/ /\ rc' = -1
        /\ UNCHANGED <<saving, torn, overrun>>
  /\ UNCHANGED <<blocks, cycles, work, session, pool, g_snapshot_key, g_sequence_number,
                 saved>>

\* A data sector is sealed and written; the store refuses block numbers it
\* does not have, and the save gives up where it is.
SaveSector ==
  /\ saving \in 1 .. Len(session)
  /\ \/ /\ saving \in Addresses
        /\ blocks' = Store!Written(saving, DataSector)
        /\ saving' = saving + 1
        /\ UNCHANGED rc
     \/ /\ saving \notin Addresses
        /\ saving' = 0 /\ rc' = -1
        /\ UNCHANGED blocks
  /\ UNCHANGED <<cycles, work, session, pool, g_snapshot_key, g_sequence_number,
                 saved, torn, overrun>>

\* The header goes last; then the sequence number is taken.
Commit ==
  /\ saving > Len(session)
  /\ blocks' = Store!Written(0, Header)
  /\ saving' = 0 /\ rc' = 0
  /\ g_sequence_number' = g_sequence_number + 1
  /\ saved' = [session |-> session, pool |-> pool]
  /\ torn' = FALSE
  /\ UNCHANGED <<cycles, work, session, pool, g_snapshot_key, overrun>>

----------------------------------------------------------------------------
(* snapshot_restore.                                                        *)

\* The tag of a sector is right: it was sealed under the key in use.  Nonce
\* and associated data are those stored with the sector itself.
Opens(b) == b # Blank /\ b.key = g_snapshot_key

\* Block 0 opens, and has the magic of a header.
HeaderValid == Opens(blocks[0]) /\ blocks[0].body.type = "header"

Total == blocks[0].body.total

\* Mutant: a sector that does not open is skipped.
AnySectors == \A i \in 1 .. Total : i \in Addresses

SectorsValid == \A i \in 1 .. Total : i \in Addresses /\ Opens(blocks[i])

Chunk(b) == IF Opens(b) /\ b.body.type = "data" THEN b.body.chunk ELSE 0

\* What the session has where sector i would go: as before, or as a fresh task has it.
Kept(i) == IF i <= Len(session) THEN session[i] ELSE 0

\* The session becomes what the sectors hold, except for the parts that are skipped
\* without a word: the state of a task that cannot be created again, and a page whose
\* task or frame is not there now.  The pool becomes what the header holds.  On an error,
\* or without memory for the buffer, nothing is restored.
snapshot_restore(skipped) ==
  /\ Idle
  /\ \/ /\ HeaderValid /\ SectorsValid
        /\ session' = [i \in 1 .. Total |-> IF i \in skipped THEN Kept(i) ELSE Chunk(blocks[i])]
        /\ pool' = blocks[0].body.pool
        /\ rc' = 0
     \/ /\ rc' = -1
        /\ UNCHANGED <<session, pool>>
  /\ UNCHANGED <<blocks, cycles, work, g_snapshot_key, g_sequence_number,
                 saving, saved, torn, overrun>>

\* Power is cut, perhaps during a save, and comes back: the store may have
\* lost blocks, the session starts anew, authentication derives a new key.
PowerCycle ==
  /\ cycles < MaxCycles /\ ~overrun
  /\ \E lost \in SUBSET Addresses : blocks' = Store!Without(lost)
  /\ cycles' = cycles + 1
  /\ g_snapshot_key' = cycles + 1 /\ g_sequence_number' = 1
  /\ saving' = 0 /\ rc' = 0
  /\ \E n \in Sizes : session' = [i \in 1 .. n |-> 0]
  /\ pool' = 0
  /\ UNCHANGED <<work, saved, torn, overrun>>

SnapNext == \/ snapshot_init \/ Work \/ SaveBegin \/ SaveSector \/ Commit
            \/ \E skipped \in SUBSET DataBlocks : snapshot_restore(skipped)
            \/ PowerCycle

SnapSpec == SnapInit /\ [][SnapNext]_snapVars

----------------------------------------------------------------------------
(* Properties.                                                              *)

\* Every variable has its type.
SnapTypeOK ==
  /\ blocks \in [Addresses -> Sealed \cup {Blank}]
  /\ cycles \in 1 .. MaxCycles /\ work \in 0 .. MaxWork /\ session \in Sessions
  /\ pool \in Pools /\ g_snapshot_key \in Keys
  /\ saving \in 0 .. Len(session) + 1 /\ torn \in BOOLEAN /\ overrun \in BOOLEAN
  /\ rc \in {0, -1}

\* When no save was cut short, a restore that succeeds brings back the last session
\* that was saved, but for the parts that were skipped, which stay as they were:
\* whatever the store lost, an older sector, a blank one or one of another key is
\* never taken for a part of it.  With nothing skipped, it is the saved session.
CleanRestore ==
  [][/\ SnapTypeOK'
     /\ \A skipped \in SUBSET DataBlocks :
          rc' = 0 /\ ~torn /\ snapshot_restore(skipped) =>
            /\ Len(session') = Len(saved.session) /\ pool' = saved.pool
            /\ \A i \in 1 .. Len(session') :
                 session'[i] = IF i \in skipped THEN Kept(i) ELSE saved.session[i]]_snapVars
=============================================================================
