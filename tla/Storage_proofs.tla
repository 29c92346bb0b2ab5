--------------------------- MODULE Storage_proofs ---------------------------
(***************************************************************************)
(* Authentication and self-destruct (auth*.c, destruct.c, usb_msc.c), the  *)
(* oblivious store (oram.c) with its refinement of an array of blocks, and *)
(* session snapshots (snapshot.c).                                         *)
(***************************************************************************)
EXTENDS Vault, ORAM, Snapshot, FiniteSetTheorems, SequenceTheorems, TLAPS

----------------------------------------------------------------------------
(* Authentication and self-destruct.                                        *)

\* While an attempt is open the counter is below its limit (auth_run).
TriesLeft == phase \in {"auth", "judged"} => g_count < AUTH_COUNTER_MAX

\* Before access is granted the encryption layer is off, so the counter is written and
\* read in the clear.
Unopened == phase \in {"off", "boot", "usb", "auth", "judged"} => ~g_encryption_enabled

\* The i-th sector of the wipe holds noise.
Overwritten(i) == disk[WipeList[i]] = [key |-> NoKey, data |-> Noise]

\* How far the wipe is: the last data pass has overwritten the sectors before the one it
\* is at, and the halt comes after all of them (destruct_execute).
WipeProgress ==
  /\ phase = "wiping" => wipe[1] \in 1 .. 4 /\ wipe[2] \in 1 .. Len(WipeList)
  /\ phase = "halted" => wipe[1] = 4 /\ g_auth_derived_key = NoKey
  /\ phase \in {"wiping", "halted"} /\ g_sector_cnt > 0 /\ ~io_errors =>
       /\ wipe[1] = 3 => \A i \in 1 .. wipe[2] - 1 : Overwritten(i)
       /\ wipe[1] = 4 => \A i \in 1 .. Len(WipeList) : Overwritten(i)

\* The inductive invariant: VaultInv's own parts with what they rest on, the state of the
\* counter in RAM, the encryption switch and the progress of the wipe.
VaultIInv == VaultTypeOK /\ CounterDurable /\ TriesLeft /\ Unopened /\ WipeProgress

\* A counter sector is told from noise, and tells its machine and its value.
LEMMA CounterFacts ==
  /\ \A m : \A n \in Nat : Counter(m, n) # Noise /\ Counter(m, n)[2] = m /\ Counter(m, n)[3] = n
  /\ \A l, m : \A k, n \in Nat : RawCounter(l, k) = RawCounter(m, n) => l = m /\ k = n
  /\ Noise \in Contents /\ Zeroes \in Contents /\ Data \subseteq Contents
  /\ \A m \in Machines, n \in Counts : Counter(m, n) \in Contents
<1>1. \A m : \A n \in Nat : Counter(m, n) # Noise /\ Counter(m, n)[2] = m /\ Counter(m, n)[3] = n
  BY DEF Counter, Noise
<1>2. \A l, m : \A k, n \in Nat : Counter(l, k) = Counter(m, n) => l = m /\ k = n
  BY <1>1
<1>3. \A l, m : \A k, n \in Nat : RawCounter(l, k) = RawCounter(m, n) => l = m /\ k = n
  BY <1>2 DEF RawCounter
<1> QED
  BY <1>1, <1>3 DEF Contents

\* The named assumption in the form the proofs use.
LEMMA VaultConstants ==
  /\ AUTH_COUNTER_LBA \in Lbas /\ AUTH_COUNTER_MAX \in Nat /\ AUTH_COUNTER_MAX > 0
  /\ MaxBoots \in Nat /\ 0 \in Counts /\ Counts \subseteq Nat /\ NoKey \in VaultKeys
  /\ Len(WipeList) \in Nat /\ Len(WipeList) > 0
  /\ \A i \in 1 .. Len(WipeList) : WipeList[i] \in Lbas
  /\ DOMAIN WipeList = 1 .. Len(WipeList)
BY VaultAssumption DEF Counts, VaultKeys, NoKey

\* A sector write changes its sector and no other (usb_msc_write_sector).
LEMMA SectorWritten ==
  ASSUME NEW a \in Lbas, NEW d \in Contents, NEW k \in VaultKeys, NEW code,
         disk \in [Lbas -> [key : VaultKeys, data : Contents]],
         disk' = usb_msc_write_sector(a, d, k, code)
  PROVE  /\ disk' \in [Lbas -> [key : VaultKeys, data : Contents]]
         /\ code = "ok" => disk'[a] = [key |-> k, data |-> d]
         /\ \A b \in Lbas \ {a} : disk'[b] = disk[b]
BY DEF usb_msc_write_sector

\* Without transfer errors every write succeeds.
LEMMA SoundMedium == ASSUME ~io_errors PROVE Outcomes = {"ok"}
BY DEF Outcomes

\* The initial state satisfies the invariant.
LEMMA VaultInitOK == VaultInit => VaultIInv
<1> SUFFICES ASSUME VaultInit PROVE VaultIInv
  OBVIOUS
<1> USE CounterFacts, VaultConstants DEF VaultInit
<1>1. disk \in [Lbas -> [key : VaultKeys, data : Contents]]
  OBVIOUS
<1>2. wipe \in (0 .. 4) \X (0 .. Len(WipeList))
  OBVIOUS
<1>3. got \in (Lbas \cup {"none"}) \X Contents
  BY DEF NoRead
<1>4. VaultTypeOK
  BY <1>1, <1>2, <1>3, VaultAssumption DEF VaultTypeOK, VaultKeys, Phases, NoKey
<1> QED
  BY <1>4 DEF VaultIInv, CounterDurable, TriesLeft, Unopened, WipeProgress

\* The invariant gives every part of VaultInv.
LEMMA VaultIInvImplies == VaultIInv => VaultInv
BY VaultConstants DEF VaultIInv, VaultInv, WipeComplete, WipeProgress, Overwritten

\* Power comes on.
LEMMA PowerOnOK == ASSUME VaultIInv, PowerOn PROVE VaultIInv'
<1> USE VaultConstants DEF PowerOn, VaultIInv
<1>1. boots' \in 0 .. MaxBoots
  BY DEF VaultTypeOK
<1>2. g_leaves' \in [Covered -> Contents \cup {ZeroHash}]
  BY DEF merkle_init
<1>3. VaultTypeOK'
  BY <1>1, <1>2 DEF VaultTypeOK, keyVars, Phases
<1> QED
  BY <1>3 DEF CounterDurable, TriesLeft, Unopened, WipeProgress, keyVars

\* The USB stack starts.
LEMMA UsbInitOK == ASSUME VaultIInv, usb_msc_init PROVE VaultIInv'
BY DEF usb_msc_init, VaultIInv, VaultTypeOK, CounterDurable, TriesLeft, Unopened, WipeProgress,
   keyVars, Phases

\* auth_counter_init reads the counter or writes a fresh one.
LEMMA CounterInitOK == ASSUME VaultIInv, auth_counter_init PROVE VaultIInv'
<1> USE VaultConstants DEF VaultIInv
<1> DEFINE c == Decrypted(AUTH_COUNTER_LBA, NoKey)
<1>0. /\ phase = "usb" /\ wipe' = <<1, 1>> /\ ~g_encryption_enabled
      /\ UNCHANGED <<boots, g_sector_cnt, g_leaves, fido2_ok, got, io_errors, machine,
                     g_encryption_enabled, g_xts_ctx, g_auth_derived_key>>
      /\ phase' = IF g_count' >= AUTH_COUNTER_MAX THEN "wiping" ELSE "auth"
  BY DEF auth_counter_init, keyVars, Unopened
<1>1. ASSUME NEW m \in Machines, NEW n \in Counts, c = Counter(m, n)
      PROVE  /\ CounterValue(c) = IF m = machine THEN n ELSE AUTH_COUNTER_MAX
             /\ disk[AUTH_COUNTER_LBA] = RawCounter(m, n)
  <2>1. HasMagic(c) /\ c[2] = m /\ c[3] = n
    BY <1>1, CounterFacts DEF HasMagic
  <2>2. CounterValue(c) = IF m = machine THEN n ELSE AUTH_COUNTER_MAX
    BY <2>1 DEF CounterValue
  <2>3. disk[AUTH_COUNTER_LBA].key = NoKey /\ disk[AUTH_COUNTER_LBA].data = Counter(m, n)
    BY <1>1, CounterFacts DEF Decrypted
  <2> QED
    BY <2>2, <2>3 DEF RawCounter, VaultTypeOK
<1>2. ASSUME ~HasMagic(c) PROVE CounterValue(c) = 0
  BY <1>2 DEF CounterValue
<1>3. /\ g_count' \in Counts
      /\ disk' \in [Lbas -> [key : VaultKeys, data : Contents]]
      /\ g_sector_cnt > 0 /\ ~io_errors /\ g_count' < AUTH_COUNTER_MAX
           => disk'[AUTH_COUNTER_LBA] = RawCounter(machine, g_count')
  <2>1. CASE g_sector_cnt = 0 /\ g_count' = 0 /\ UNCHANGED disk
    BY <2>1 DEF VaultTypeOK
  <2>2. CASE g_sector_cnt > 0 /\ "failed" \in Outcomes /\ g_count' = 0 /\ UNCHANGED disk
    BY <2>2, SoundMedium DEF VaultTypeOK
  <2>3. ASSUME HasMagic(c), g_count' = CounterValue(c), UNCHANGED disk
        PROVE  <1>3!:
    <3>1. PICK m \in Machines, n \in Counts : c = Counter(m, n)
      BY <2>3 DEF HasMagic
    <3>2. /\ CounterValue(c) = IF m = machine THEN n ELSE AUTH_COUNTER_MAX
          /\ disk[AUTH_COUNTER_LBA] = RawCounter(m, n)
      BY <1>1, <3>1
    <3>3. AUTH_COUNTER_MAX \in Counts
      BY DEF Counts
    <3>4. CASE m = machine
      BY <2>3, <3>2, <3>4 DEF VaultTypeOK
    <3>5. CASE m # machine
      BY <2>3, <3>2, <3>3, <3>5 DEF VaultTypeOK
    <3> QED
      BY <3>4, <3>5
  <2>4. ASSUME ~HasMagic(c), g_count' = CounterValue(c), NEW code \in Outcomes,
               disk' = usb_msc_write_sector(AUTH_COUNTER_LBA, Counter(machine, 0), NoKey, code)
        PROVE  <1>3!:
    <3>1. g_count' = 0
      BY <1>2, <2>4
    <3>2. machine \in Machines /\ Counter(machine, 0) \in Contents
      BY CounterFacts DEF VaultTypeOK
    <3>3. /\ disk' \in [Lbas -> [key : VaultKeys, data : Contents]]
          /\ code = "ok" => disk'[AUTH_COUNTER_LBA] = RawCounter(machine, 0)
      BY <2>4, <3>2, SectorWritten DEF VaultTypeOK, RawCounter
    <3> QED
      BY <3>1, <3>3, SoundMedium
  <2> QED
    BY <2>1, <2>2, <2>3, <2>4 DEF auth_counter_init
<1>3a. phase' \in {"auth", "judged"} => g_count' < AUTH_COUNTER_MAX
  BY <1>0, <1>3 DEF Counts
<1>4. wipe' \in (0 .. 4) \X (0 .. Len(WipeList)) /\ wipe'[1] = 1 /\ wipe'[2] = 1
  BY <1>0
<1>5. VaultTypeOK'
  BY <1>0, <1>3, <1>4 DEF VaultTypeOK, Phases
<1>6. CounterDurable' /\ Unopened'
  BY <1>0, <1>3, <1>3a DEF CounterDurable, Unopened
<1>7. TriesLeft'
  BY <1>3a DEF TriesLeft
<1>8. WipeProgress'
  BY <1>0, <1>4 DEF WipeProgress
<1> QED
  BY <1>5, <1>6, <1>7, <1>8

\* The authenticator's answer is judged.
LEMMA AssertionOK == ASSUME VaultIInv, Assertion PROVE VaultIInv'
<1>1. fido2_ok' \in BOOLEAN
  BY DEF Assertion
<1> QED
  BY <1>1 DEF Assertion, VaultIInv, VaultTypeOK, CounterDurable, TriesLeft, Unopened,
     WipeProgress, keyVars, Phases

\* auth_counter_increment: the new value is on the medium before the next attempt, or
\* the wipe starts.
LEMMA CounterIncrementOK == ASSUME VaultIInv, auth_counter_increment PROVE VaultIInv'
<1> USE VaultConstants DEF VaultIInv
<1>0. /\ phase = "judged" /\ wipe' = <<1, 1>> /\ ~g_encryption_enabled /\ g_count' = g_count + 1
      /\ UNCHANGED <<boots, g_sector_cnt, g_leaves, fido2_ok, got, io_errors, machine,
                     g_encryption_enabled, g_xts_ctx, g_auth_derived_key>>
      /\ phase' = IF g_count' >= AUTH_COUNTER_MAX THEN "wiping" ELSE "auth"
  BY DEF auth_counter_increment, keyVars, Unopened
<1>1. g_count' \in Counts
  BY <1>0 DEF TriesLeft, VaultTypeOK, Counts
<1>2. /\ disk' \in [Lbas -> [key : VaultKeys, data : Contents]]
      /\ g_sector_cnt > 0 /\ ~io_errors
           => disk'[AUTH_COUNTER_LBA] = RawCounter(machine, g_count')
  <2>1. CASE g_sector_cnt = 0 /\ UNCHANGED disk
    BY <2>1 DEF VaultTypeOK
  <2>2. ASSUME NEW code \in Outcomes,
               disk' = usb_msc_write_sector(AUTH_COUNTER_LBA, Counter(machine, g_count'),
                                            CurrentKey, code)
        PROVE  <1>2!:
    <3>1. CurrentKey = NoKey
      BY <1>0 DEF CurrentKey
    <3>2. Counter(machine, g_count') \in Contents
      BY <1>1, CounterFacts DEF VaultTypeOK
    <3>3. /\ disk' \in [Lbas -> [key : VaultKeys, data : Contents]]
          /\ code = "ok" => disk'[AUTH_COUNTER_LBA] = RawCounter(machine, g_count')
      BY <2>2, <3>1, <3>2, SectorWritten DEF VaultTypeOK, RawCounter
    <3> QED
      BY <3>3, SoundMedium
  <2> QED
    BY <2>1, <2>2 DEF auth_counter_increment
<1>3. wipe' \in (0 .. 4) \X (0 .. Len(WipeList)) /\ wipe'[1] = 1 /\ wipe'[2] = 1
  BY <1>0
<1>4. VaultTypeOK'
  BY <1>0, <1>1, <1>2, <1>3 DEF VaultTypeOK, Phases
<1>5. CounterDurable' /\ Unopened'
  BY <1>0, <1>2 DEF CounterDurable, Unopened
<1>6. TriesLeft'
  BY <1>0, <1>1 DEF TriesLeft, Counts
<1>7. WipeProgress'
  BY <1>0, <1>3 DEF WipeProgress
<1> QED
  BY <1>4, <1>5, <1>6, <1>7

\* Access is granted, the counter reset and the key derived.
LEMMA GrantedOK == ASSUME VaultIInv, Granted PROVE VaultIInv'
<1> USE VaultConstants DEF VaultIInv
<1>0. /\ phase' = "open" /\ g_count' = 0 /\ g_encryption_enabled' = TRUE
      /\ g_xts_ctx' = boots /\ g_auth_derived_key' = boots
      /\ UNCHANGED <<io_errors, machine, boots, g_sector_cnt, g_leaves, fido2_ok, wipe, got>>
  BY DEF Granted
<1>1. boots \in VaultKeys
  BY DEF VaultTypeOK, VaultKeys
<1>2. disk' \in [Lbas -> [key : VaultKeys, data : Contents]]
  <2>1. CASE UNCHANGED disk
    BY <2>1 DEF VaultTypeOK
  <2>2. ASSUME NEW code \in Outcomes,
               disk' = usb_msc_write_sector(AUTH_COUNTER_LBA, Counter(machine, 0), g_xts_ctx', code)
        PROVE  disk' \in [Lbas -> [key : VaultKeys, data : Contents]]
    <3>1. Counter(machine, 0) \in Contents
      BY CounterFacts DEF VaultTypeOK
    <3> QED
      BY <1>0, <1>1, <2>2, <3>1, SectorWritten DEF VaultTypeOK
  <2> QED
    BY <2>1, <2>2 DEF Granted
<1>3. VaultTypeOK'
  BY <1>0, <1>1, <1>2 DEF VaultTypeOK, Phases
<1> QED
  BY <1>0, <1>3 DEF CounterDurable, TriesLeft, Unopened, WipeProgress

\* A read through the encryption layer, which may start the wipe.
LEMMA ReadOK == ASSUME VaultIInv, NEW a \in Lbas, Read(a) PROVE VaultIInv'
<1> USE VaultConstants DEF VaultIInv
<1>0. /\ phase = "open" /\ phase' \in {"open", "wiping"} /\ wipe' = <<1, 1>>
      /\ UNCHANGED <<disk, boots, g_sector_cnt, io_errors, machine, g_encryption_enabled, g_xts_ctx,
                     g_auth_derived_key, g_leaves, g_count, fido2_ok>>
  BY DEF Read, keyVars
<1>1. got' \in (Lbas \cup {"none"}) \X Contents
  <2>1. Decrypted(a, CurrentKey) \in Contents
    BY CounterFacts DEF Decrypted, VaultTypeOK
  <2> QED
    BY <2>1 DEF Read
<1>2. wipe' \in (0 .. 4) \X (0 .. Len(WipeList)) /\ wipe'[1] = 1 /\ wipe'[2] = 1
  BY <1>0
<1>3. VaultTypeOK'
  BY <1>0, <1>1, <1>2 DEF VaultTypeOK, Phases
<1> QED
  BY <1>0, <1>2, <1>3 DEF CounterDurable, TriesLeft, Unopened, WipeProgress

\* A write through the encryption layer.
LEMMA WriteOK == ASSUME VaultIInv, NEW a \in Lbas, NEW d \in Data, Write(a, d) PROVE VaultIInv'
<1> USE DEF VaultIInv
<1>1. PICK code \in Outcomes : disk' = usb_msc_write_sector(a, d, CurrentKey, code)
  BY DEF Write
<1>2. CurrentKey \in VaultKeys
  BY VaultConstants DEF CurrentKey, VaultTypeOK
<1>3. disk' \in [Lbas -> [key : VaultKeys, data : Contents]]
  BY <1>1, <1>2, SectorWritten, CounterFacts DEF VaultTypeOK
<1>4. VaultTypeOK'
  BY <1>3 DEF VaultTypeOK, Write, keyVars
<1> QED
  BY <1>4 DEF Write, CounterDurable, TriesLeft, Unopened, WipeProgress, keyVars

\* The boot without authentication.
LEMMA StandardBootOK == ASSUME VaultIInv, StandardBoot PROVE VaultIInv'
BY DEF StandardBoot, VaultIInv, VaultTypeOK, CounterDurable, TriesLeft, Unopened, WipeProgress,
   Phases

\* The wipe on request.
LEMMA EmergencyWipeOK == ASSUME VaultIInv, EmergencyWipe PROVE VaultIInv'
<1> USE VaultConstants DEF VaultIInv, EmergencyWipe
<1>1. wipe' \in (0 .. 4) \X (0 .. Len(WipeList)) /\ wipe'[1] = 1 /\ wipe'[2] = 1
  OBVIOUS
<1>2. VaultTypeOK'
  BY <1>1 DEF VaultTypeOK, Phases, keyVars
<1> QED
  BY <1>1, <1>2 DEF CounterDurable, TriesLeft, Unopened, WipeProgress

\* One sector of one pass of the wipe, the key zeroed after the last.
LEMMA WipeSectorOK == ASSUME VaultIInv, WipeSector PROVE VaultIInv'
<1> USE VaultConstants DEF VaultIInv
<1> DEFINE p == wipe[1]
           k == wipe[2]
<1>0. /\ phase = "wiping" /\ phase' = "wiping" /\ p <= 3
      /\ UNCHANGED <<boots, g_sector_cnt, io_errors, machine, g_encryption_enabled, g_xts_ctx,
                     g_auth_derived_key, g_leaves, g_count, fido2_ok, got>>
      /\ wipe' = IF k < Len(WipeList) THEN <<p, k + 1>> ELSE <<p + 1, 1>>
  BY DEF WipeSector, keyVars
<1>1. p \in 1 .. 3 /\ k \in 1 .. Len(WipeList)
  BY <1>0 DEF WipeProgress
<1>2. /\ wipe' \in (1 .. 4) \X (1 .. Len(WipeList))
      /\ wipe'[1] = IF k < Len(WipeList) THEN p ELSE p + 1
      /\ wipe'[2] = IF k < Len(WipeList) THEN k + 1 ELSE 1
  BY <1>0, <1>1
<1>3. /\ disk' \in [Lbas -> [key : VaultKeys, data : Contents]]
      /\ g_sector_cnt > 0 /\ ~io_errors /\ p = 3 =>
           \A i \in 1 .. Len(WipeList) : i = k \/ Overwritten(i) => Overwritten(i)'
  <2>1. CASE g_sector_cnt = 0 /\ UNCHANGED disk
    BY <2>1 DEF VaultTypeOK
  <2>2. ASSUME NEW code \in Outcomes,
               disk' = usb_msc_write_sector(WipeList[k], PassData(p), NoKey, code)
        PROVE  <1>3!:
    <3>1. PassData(p) \in Contents /\ (p = 3 => PassData(p) = Noise)
      BY <1>1, CounterFacts DEF PassData
    <3>2. /\ disk' \in [Lbas -> [key : VaultKeys, data : Contents]]
          /\ code = "ok" => disk'[WipeList[k]] = [key |-> NoKey, data |-> PassData(p)]
          /\ \A b \in Lbas \ {WipeList[k]} : disk'[b] = disk[b]
      BY <1>1, <2>2, <3>1, SectorWritten DEF VaultTypeOK
    <3> QED
      BY <1>1, <3>1, <3>2, SoundMedium DEF Overwritten
  <2> QED
    BY <2>1, <2>2 DEF WipeSector
<1>4. VaultTypeOK'
  BY <1>0, <1>2, <1>3 DEF VaultTypeOK
<1>5. WipeProgress'
  <2> SUFFICES ASSUME g_sector_cnt > 0, ~io_errors
               PROVE  /\ wipe'[1] = 3 => \A i \in 1 .. wipe'[2] - 1 : Overwritten(i)'
                      /\ wipe'[1] = 4 => \A i \in 1 .. Len(WipeList) : Overwritten(i)'
    BY <1>0, <1>2 DEF WipeProgress
  <2>1. CASE p = 3
    <3>1. \A i \in 1 .. k : Overwritten(i)'
      BY <1>0, <1>1, <1>3, <2>1 DEF WipeProgress
    <3> QED
      BY <1>1, <1>2, <2>1, <3>1
  <2>2. CASE p < 3
    BY <1>1, <1>2, <2>2
  <2> QED
    BY <1>1, <2>1, <2>2
<1> QED
  BY <1>0, <1>4, <1>5 DEF CounterDurable, TriesLeft, Unopened

\* The machine halts after the wipe.
LEMMA HaltOK == ASSUME VaultIInv, Halt PROVE VaultIInv'
<1>1. VaultTypeOK'
  BY VaultConstants DEF Halt, VaultIInv, VaultTypeOK, Phases
<1> QED
  BY <1>1 DEF Halt, VaultIInv, CounterDurable, TriesLeft, Unopened, WipeProgress, Overwritten

\* Power fails: RAM is lost, the medium stays.
LEMMA PowerOffVaultOK == ASSUME VaultIInv, PowerOff PROVE VaultIInv'
<1> USE VaultConstants, CounterFacts DEF PowerOff, VaultIInv
<1>1. got' \in (Lbas \cup {"none"}) \X Contents /\ wipe' \in (0 .. 4) \X (0 .. Len(WipeList))
  BY DEF NoRead
<1>2. g_leaves' \in [Covered -> Contents \cup {ZeroHash}]
  BY DEF merkle_init
<1>3. VaultTypeOK'
  BY <1>1, <1>2 DEF VaultTypeOK, Phases
<1> QED
  BY <1>3 DEF CounterDurable, TriesLeft, Unopened, WipeProgress

\* Every step keeps the invariant.
LEMMA VaultStep == VaultIInv /\ [VaultNext]_vaultVars => VaultIInv'
<1>1. ASSUME VaultIInv, UNCHANGED vaultVars PROVE VaultIInv'
  BY <1>1 DEF vaultVars, VaultIInv, VaultTypeOK, CounterDurable, TriesLeft, Unopened, WipeProgress,
              Overwritten
<1> QED
  BY <1>1, PowerOnOK, UsbInitOK, CounterInitOK, AssertionOK, CounterIncrementOK, GrantedOK, ReadOK,
     WriteOK, StandardBootOK, EmergencyWipeOK, WipeSectorOK, HaltOK, PowerOffVaultOK DEF VaultNext

\* What CounterNeverDrops says of one step.
CountKept ==
  \A m \in Machines, n \in Counts :
       /\ ~io_errors
       /\ disk[AUTH_COUNTER_LBA] = RawCounter(m, n)
       /\ disk'[AUTH_COUNTER_LBA] # RawCounter(m, n)
       => \/ disk'[AUTH_COUNTER_LBA] = RawCounter(m, n + 1)
          \/ phase' = "open" \/ phase = "wiping"

\* No step takes the counter on the medium back.
LEMMA CountStep == VaultIInv /\ [VaultNext]_vaultVars => [CountKept]_vaultVars
<1> SUFFICES ASSUME VaultIInv, VaultNext, disk' # disk, NEW m \in Machines, NEW n \in Counts,
                    ~io_errors, disk[AUTH_COUNTER_LBA] = RawCounter(m, n)
             PROVE  \/ disk'[AUTH_COUNTER_LBA] = RawCounter(m, n + 1)
                    \/ phase' = "open" \/ phase = "wiping"
  BY DEF CountKept
<1>1. CASE auth_counter_init
  <2>1. Decrypted(AUTH_COUNTER_LBA, NoKey) = Counter(m, n)
    BY DEF Decrypted, RawCounter
  <2>2. HasMagic(Decrypted(AUTH_COUNTER_LBA, NoKey))
    BY <2>1 DEF HasMagic
  <2> QED
    BY <1>1, <2>2 DEF auth_counter_init
<1>2. CASE auth_counter_increment
  <2>1. PICK code \in Outcomes :
          disk' = usb_msc_write_sector(AUTH_COUNTER_LBA, Counter(machine, g_count'), CurrentKey, code)
    BY <1>2 DEF auth_counter_increment
  <2>2. g_sector_cnt > 0 /\ phase = "judged" /\ g_count' = g_count + 1
    BY <1>2 DEF auth_counter_increment
  <2>3. disk[AUTH_COUNTER_LBA] = RawCounter(machine, g_count) /\ g_count \in Nat
    BY <2>2, VaultConstants DEF VaultIInv, CounterDurable, VaultTypeOK
  <2>4. m = machine /\ n = g_count
    <3>1. n \in Nat /\ RawCounter(m, n) = RawCounter(machine, g_count)
      BY <2>3, VaultConstants
    <3> QED
      BY ONLY <2>3, <3>1, CounterFacts
  <2>5. g_count' \in Counts
    BY <2>2, VaultConstants DEF VaultIInv, VaultTypeOK, TriesLeft, Counts
  <2>6. CurrentKey = NoKey
    BY <2>2 DEF VaultIInv, Unopened, CurrentKey
  <2>7. Counter(machine, g_count') \in Contents
    BY <2>4, <2>5, CounterFacts
  <2>8. disk'[AUTH_COUNTER_LBA] = [key |-> NoKey, data |-> Counter(machine, g_count')]
    BY <2>1, <2>6, <2>7, SoundMedium, SectorWritten, VaultConstants DEF VaultIInv, VaultTypeOK
  <2> QED
    BY <2>2, <2>4, <2>8 DEF RawCounter
<1>3. ASSUME NEW a \in Lbas, NEW d \in Data, Write(a, d) PROVE phase' = "open"
  BY <1>3 DEF Write
<1> QED
  BY <1>1, <1>2, <1>3 DEF VaultNext, PowerOn, usb_msc_init, Assertion, Granted, Read, StandardBoot,
       EmergencyWipe, WipeSector, Halt, PowerOff

\* The inductive invariant holds in every reachable state.
LEMMA VaultInvariant == VaultSpec => []VaultIInv
BY VaultInitOK, VaultStep, PTL DEF VaultSpec

\* The counter on the medium never lags what was tried, and a halted wipe is complete,
\* for any sectors, limits and number of power cycles (auth_counter_increment,
\* destruct_execute).
THEOREM VaultSafe == VaultSpec => []VaultInv
BY VaultInvariant, VaultIInvImplies, PTL

\* On a sound medium the attempt counter leaves a value only for the next one, until
\* access is granted or the wipe runs (auth_counter.c).
THEOREM VaultCounterNeverDrops == VaultSpec => CounterNeverDrops
BY VaultInvariant, CountStep, PTL DEF VaultSpec, CounterNeverDrops, CountKept

----------------------------------------------------------------------------
(* The oblivious store: paths in the tree.                                  *)

\* Integer division, as the provers need it.
LEMMA DivBounds ==
  ASSUME NEW x \in Nat, NEW m \in Nat, m > 0
  PROVE  /\ x \div m \in Nat /\ (x \div m) * m <= x /\ x < (x \div m) * m + m
OBVIOUS

\* A quotient is at least whatever fits that often.
LEMMA DivAtLeast ==
  ASSUME NEW x \in Nat, NEW m \in Nat, m > 0, NEW a \in Nat, a * m <= x
  PROVE  a <= x \div m
<1> DEFINE q == x \div m
<1>1. q \in Nat /\ q * m \in Nat /\ x < q * m + m
  BY DivBounds
<1> HIDE DEF q
<1> SUFFICES ASSUME q < a PROVE FALSE
  BY <1>1 DEF q
<1>2. q + 1 <= a
  BY <1>1
<1>3. (q + 1) * m <= a * m
  BY <1>1, <1>2
<1>4. (q + 1) * m = q * m + m /\ a * m \in Nat
  BY <1>1
<1> QED
  BY <1>1, <1>3, <1>4

\* The named assumptions in the form the proofs use.
LEMMA OramConstants ==
  /\ ORAM_L \in Nat /\ ORAM_Z \in Nat /\ STASH_MAX \in Nat
  /\ ORAM_NUM_LEAVES \in Nat /\ ORAM_NUM_LEAVES > 0
  /\ Used \subseteq Leaves /\ Zero \in BlockData
<1>1. ORAM_L \in 0 .. ORAM_L
  BY OramAssumption
<1>2. ORAM_NUM_LEAVES \in 1 .. ORAM_NUM_LEAVES
  BY <1>1, PowersAssumption DEF ORAM_NUM_LEAVES
<1>3. \A n : n \in 1 .. n => n \in Nat /\ n > 0
  OBVIOUS
<1> QED
  BY <1>2, <1>3, OramAssumption DEF Leaves

\* The buckets of a path, one for each level: they lie in the tree, and no two
\* levels share one (get_path).
LEMMA PathLevels ==
  ASSUME NEW leaf \in Leaves, NEW i \in Levels, NEW j \in Levels
  PROVE  /\ get_path[leaf][i] \in Nodes
         /\ j < i => get_path[leaf][j] < get_path[leaf][i]
<1> DEFINE N == ORAM_NUM_LEAVES
           x == N + leaf
           m == 2 ^ (ORAM_L - i)
           k == 2 ^ (ORAM_L - j)
<1>1. ORAM_L - i \in 0 .. ORAM_L /\ ORAM_L - j \in 0 .. ORAM_L /\ ORAM_L \in Nat
  BY OramConstants DEF Levels
<1>2. m \in 1 .. N /\ k \in 1 .. N
  BY <1>1, PowersAssumption
<1>3. j < i => 2 * m <= k
  <2>1. j < i => ORAM_L - i < ORAM_L - j
    BY <1>1 DEF Levels
  <2> QED
    BY <1>1, <2>1, PowersAssumption
<1>4. get_path[leaf][i] = x \div m - 1 /\ get_path[leaf][j] = x \div k - 1
  BY DEF get_path
<1>5. N \in Nat /\ N > 0 /\ leaf \in 0 .. N - 1
  BY OramConstants DEF Leaves
<1>6. Nodes = 0 .. 2 * N - 2
  BY DEF Nodes
<1> HIDE DEF N, m, k
<1>7. x \in Nat /\ N <= x /\ x <= 2 * N - 1 /\ m \in Nat /\ m > 0 /\ k \in Nat /\ k > 0
  BY <1>2, <1>5
<1>8. x = N + leaf
  OBVIOUS
<1> HIDE DEF x
<1> DEFINE q == x \div m
           r == x \div k
<1>9. q \in Nat /\ r \in Nat /\ q * m <= x /\ r * k <= x /\ x < q * m + m
  BY <1>7, DivBounds
<1>10. 1 <= q /\ 1 <= r
  <2>1. 1 * m <= x /\ 1 * k <= x
    BY <1>2, <1>5, <1>7
  <2> QED
    BY <1>7, <2>1, DivAtLeast
<1> HIDE DEF q, r
<1>11. q <= x
  <2>1. q * 1 <= q * m
    BY <1>7, <1>9
  <2> QED
    BY <1>7, <1>9, <2>1
<1>12. get_path[leaf][i] \in Nodes
  BY <1>4, <1>5, <1>6, <1>7, <1>9, <1>10, <1>11 DEF q
<1>13. ASSUME j < i PROVE r < q
  <2>1. 2 * m <= k
    BY <1>3, <1>13
  <2>2. r * (2 * m) <= r * k
    BY <1>7, <1>9, <2>1
  <2>3. (2 * r) * m = r * (2 * m) /\ 2 * r \in Nat /\ r * k \in Nat /\ (2 * r) * m \in Nat
    BY <1>7, <1>9
  <2>4. (2 * r) * m <= x
    BY <1>7, <1>9, <2>2, <2>3
  <2>5. 2 * r <= q
    BY <1>7, <2>3, <2>4, DivAtLeast DEF q
  <2> QED
    BY <1>9, <1>10, <2>5
<1>14. ASSUME j < i PROVE get_path[leaf][j] < get_path[leaf][i]
  BY <1>4, <1>9, <1>13, <1>14 DEF q, r
<1> QED
  BY <1>12, <1>14

\* The buckets of a path lie in the tree.
LEMMA PathNodes == ASSUME NEW leaf \in Leaves, NEW i \in Levels PROVE get_path[leaf][i] \in Nodes
BY PathLevels

\* A bucket is on one level of a path.
LEMMA PathOneLevel ==
  ASSUME NEW leaf \in Leaves, NEW i \in Levels, NEW j \in Levels,
         get_path[leaf][i] = get_path[leaf][j]
  PROVE  i = j
<1>1. \A n \in Nodes : ~(n < n)
  BY OramConstants DEF Nodes
<1>2. ~(i < j) /\ ~(j < i)
  BY <1>1, PathLevels, PathNodes
<1> QED
  BY <1>2, OramConstants DEF Levels

----------------------------------------------------------------------------
(* The inductive invariant.                                                 *)

\* At most one block for each logical block.
OneEach(S) == \A b, c \in S : b.lba = c.lba => b = c

\* Before the region is formatted nothing is in the tree; before oram_init has run
\* nothing is in the stash, and oram_init leaves a formatted region (oram_init).
Fresh == /\ ~magic => \A n \in Nodes : tree[n] = {}
         /\ ~ready => stash = {}
         /\ ready => magic

\* Every variable has its type.
OramTypes ==
  /\ tree \in [Nodes -> SUBSET Block] /\ stash \subseteq Block
  /\ disk_map \in [Used -> Leaves] /\ pos_map \in [Used -> Leaves]
  /\ magic \in BOOLEAN /\ ready \in BOOLEAN /\ last \in Events
  /\ encrypted \in BOOLEAN /\ broken \in BOOLEAN /\ intact \subseteq Used /\ spoilt \in BOOLEAN

\* No bucket holds more than its slots.
BucketsFit == \A n \in Nodes : Cardinality(tree[n]) <= ORAM_Z

\* The inductive invariant: types and bucket sizes, every block on the path to its leaf and
\* stored once, and nothing stored before the region is formatted.
OramWeak == OramTypes /\ BucketsFit /\ PathInvariant /\ Fresh

\* The inductive invariant where anything can still happen.
OramIInv == OramWeak /\ ~broken

\* An access reads the stash and the buckets on the path to a leaf.
LEMMA FetchedBlocks ==
  ASSUME NEW leaf \in Leaves, NEW b
  PROVE  b \in Fetched(leaf) <=> (b \in stash \/ \E n \in Nodes : is_ancestor(n, leaf)
         /\ b \in tree[n])
<1>1. \A i \in Levels : get_path[leaf][i] \in Nodes
  BY PathNodes
<1> QED
  BY <1>1 DEF Fetched, is_ancestor

\* What is stored is in the stash or in a bucket.
LEMMA StoredBlocks ==
  ASSUME NEW b PROVE b \in Stored <=> (b \in stash \/ \E n \in Nodes : b \in tree[n])
BY DEF Stored

\* No logical block is stored twice, wherever.
LEMMA StoredOnce == ASSUME OramIInv PROVE OneEach(Stored) /\ Stored \subseteq Block
<1>1. ASSUME NEW b \in Stored, NEW c \in Stored, b.lba = c.lba PROVE b = c
  <2>1. CASE b \in stash /\ c \in stash
    BY <1>1, <2>1 DEF OramIInv, OramWeak, PathInvariant
  <2>2. ASSUME NEW n \in Nodes, b \in tree[n], c \in stash PROVE FALSE
    BY <1>1, <2>2 DEF OramIInv, OramWeak, PathInvariant
  <2>3. ASSUME NEW n \in Nodes, c \in tree[n], b \in stash PROVE FALSE
    BY <1>1, <2>3 DEF OramIInv, OramWeak, PathInvariant
  <2>4. ASSUME NEW m \in Nodes, NEW n \in Nodes, b \in tree[m], c \in tree[n] PROVE b = c
    BY <1>1, <2>4 DEF OramIInv, OramWeak, PathInvariant
  <2> QED
    BY <2>1, <2>2, <2>3, <2>4, StoredBlocks
<1>2. Stored \subseteq Block
  BY StoredBlocks DEF OramIInv, OramWeak, OramTypes
<1> QED
  BY <1>1, <1>2 DEF OneEach

\* The path to its leaf holds a block if it is stored at all.
LEMMA OnItsPath ==
  ASSUME OramIInv, ready, NEW a \in Used, NEW b \in Stored, b.lba = a
  PROVE  b \in Fetched(pos_map[a])
<1>1. pos_map[a] \in Leaves /\ pos_map = disk_map
  BY DEF OramIInv, OramWeak, OramTypes, PathInvariant
<1>2. ASSUME NEW n \in Nodes, b \in tree[n] PROVE is_ancestor(n, pos_map[a])
  BY <1>1, <1>2 DEF OramIInv, OramWeak, PathInvariant
<1> QED
  BY <1>1, <1>2, StoredBlocks, FetchedBlocks

\* What an access reads is stored.
LEMMA FetchedStored ==
  ASSUME NEW leaf \in Leaves PROVE Fetched(leaf) \subseteq Stored
BY FetchedBlocks, StoredBlocks

----------------------------------------------------------------------------
(* An access.                                                               *)

\* The operation keeps one block for each logical block and adds at most the one that is
\* written.
LEMMA AppliedBlocks ==
  ASSUME NEW a \in Used, NEW d \in BlockData, NEW write \in BOOLEAN, NEW S, S \subseteq Block,
         OneEach(S)
  PROVE  /\ Applied(a, write, d, S) \subseteq Block /\ OneEach(Applied(a, write, d, S))
         /\ \A b \in Applied(a, write, d, S) : b.lba # a => b \in S
<1> DEFINE new == [lba |-> a, data |-> d]
<1>1. new \in Block /\ new.lba = a
  BY DEF Block
<1> HIDE DEF new
<1>2. CASE write
  <2>1. Applied(a, write, d, S) = {b \in S : b.lba # a} \cup {new}
    BY <1>2 DEF Applied, new
  <2> QED
    BY <1>1, <2>1 DEF OneEach
<1>3. CASE ~write
  <2>1. Applied(a, write, d, S) = S
    BY <1>3 DEF Applied
  <2> QED
    BY <2>1
<1> QED
  BY <1>2, <1>3

\* What an access leaves behind: an eviction p of the blocks st2 into the path to
\* leaf.
Evicted(leaf, st2, pm, p) ==
  /\ p \in Evictions(leaf, st2, pm)
  /\ tree' = Rewritten(leaf, p) /\ stash' = {b \in st2 : p[b] = -1}
  /\ disk_map' = pm /\ pos_map' = pm

\* What eviction does: a block goes to a bucket of the path that is also on the way to its
\* leaf, at most ORAM_Z to a bucket, and buckets off the path stay (evict_path).
LEMMA EvictedBlocks ==
  ASSUME NEW leaf \in Leaves, NEW st2, NEW pm, NEW p, Evicted(leaf, st2, pm, p)
  PROVE  /\ \A b \in st2 : p[b] \in Levels \cup {-1}
         /\ \A b \in st2 : p[b] # -1 => is_ancestor(get_path[leaf][p[b]], pm[b.lba])
         /\ \A i \in Levels : Cardinality({b \in st2 : p[b] = i}) <= ORAM_Z
         /\ DOMAIN tree' = Nodes /\ tree' = [n \in Nodes |-> tree'[n]]
         /\ \A n \in Nodes : is_ancestor(n, leaf) =>
              tree'[n] = {b \in st2 : p[b] # -1 /\ get_path[leaf][p[b]] = n}
         /\ \A n \in Nodes : ~is_ancestor(n, leaf) => tree'[n] = tree[n]
<1>1. p \in [st2 -> -1 .. ORAM_L]
  BY DEF Evicted, Evictions
<1>2. -1 .. ORAM_L = Levels \cup {-1}
  BY OramConstants DEF Levels
<1>3. /\ \A b \in st2 : p[b] # -1 => is_ancestor(get_path[leaf][p[b]], pm[b.lba])
      /\ \A i \in Levels : Cardinality({b \in st2 : p[b] = i}) <= ORAM_Z
  BY DEF Evicted, Evictions
<1>4. tree' = Rewritten(leaf, p) /\ DOMAIN p = st2
  BY <1>1 DEF Evicted
<1>5. /\ DOMAIN tree' = Nodes /\ tree' = [n \in Nodes |-> tree'[n]]
      /\ \A n \in Nodes : is_ancestor(n, leaf) =>
           tree'[n] = {b \in st2 : p[b] # -1 /\ get_path[leaf][p[b]] = n}
      /\ \A n \in Nodes : ~is_ancestor(n, leaf) => tree'[n] = tree[n]
  BY <1>4 DEF Rewritten, is_ancestor
<1> QED
  BY <1>1, <1>2, <1>3, <1>5

\* The setting of an access to block a: what was fetched, what the operation made of
\* it, the new map, and the blocks on the buckets that are not on the path.
Access(a, write, d, leaf, st2, pm) ==
  /\ ready /\ leaf = pos_map[a]
  /\ st2 = Applied(a, write, d, Fetched(leaf))
  /\ \E new_leaf \in Leaves : pm = [pos_map EXCEPT ![a] = new_leaf]

\* The blocks an access holds are none of those it leaves in the other buckets.
LEMMA AccessFacts ==
  ASSUME OramIInv, NEW a \in Used, NEW write \in BOOLEAN, NEW d \in BlockData,
         NEW leaf, NEW st2, NEW pm, Access(a, write, d, leaf, st2, pm)
  PROVE  /\ leaf \in Leaves /\ st2 \subseteq Block /\ OneEach(st2)
         /\ pm \in [Used -> Leaves] /\ \A x \in Used : x # a => pm[x] = disk_map[x]
         /\ \A n \in Nodes : ~is_ancestor(n, leaf) =>
              \A b \in tree[n] : b.lba # a /\ \A c \in st2 : b.lba # c.lba
<1>1. leaf \in Leaves /\ pos_map = disk_map /\ pos_map \in [Used -> Leaves]
  BY DEF Access, OramIInv, OramWeak, OramTypes, PathInvariant
<1>2. pm \in [Used -> Leaves] /\ \A x \in Used : x # a => pm[x] = disk_map[x]
  BY <1>1 DEF Access
<1> DEFINE st == Fetched(leaf)
<1>3. st \subseteq Stored /\ Stored \subseteq Block /\ OneEach(Stored)
  BY <1>1, FetchedStored, StoredOnce
<1>4. OneEach(st) /\ st \subseteq Block
  BY <1>3 DEF OneEach
<1>5. st2 = Applied(a, write, d, st)
  BY DEF Access
<1> HIDE DEF st
<1>6. st2 \subseteq Block /\ OneEach(st2) /\ \A b \in st2 : b.lba # a => b \in st
  BY <1>4, <1>5, AppliedBlocks
<1>7. ASSUME NEW n \in Nodes, ~is_ancestor(n, leaf), NEW b \in tree[n]
      PROVE  b.lba # a /\ \A c \in st2 : b.lba # c.lba
  <2>1. b \in Stored
    BY <1>7, StoredBlocks
  <2>2. b \notin st
    <3>1. b \notin stash
      BY <1>7 DEF OramIInv, OramWeak, PathInvariant
    <3>2. ASSUME NEW m \in Nodes, is_ancestor(m, leaf), b \in tree[m] PROVE FALSE
      <4>1. m # n
        BY <1>7, <3>2
      <4> QED
        BY <1>7, <3>2, <4>1 DEF OramIInv, OramWeak, PathInvariant
    <3> QED
      BY <1>1, <3>1, <3>2, FetchedBlocks DEF st
  <2>3. b.lba # a
    BY <2>1, <2>2, OnItsPath DEF Access, st
  <2>4. ASSUME NEW c \in st2 PROVE b.lba # c.lba
    <3>1. CASE c.lba = a
      BY <2>3, <3>1
    <3>2. CASE c.lba # a
      <4>1. c \in st /\ c \in Stored
        BY <1>3, <1>6, <3>2 DEF st
      <4> QED
        BY <1>3, <2>1, <2>2, <4>1 DEF OneEach
    <3> QED
      BY <3>1, <3>2
  <2> QED
    BY <2>3, <2>4
<1> QED
  BY <1>1, <1>2, <1>6, <1>7

\* After an access every block is on its path by the new map, and none twice.
LEMMA AccessKeepsPaths ==
  ASSUME OramIInv, NEW a \in Used, NEW write \in BOOLEAN, NEW d \in BlockData,
         NEW leaf, NEW st2, NEW pm, NEW p, Access(a, write, d, leaf, st2, pm),
         Evicted(leaf, st2, pm, p), UNCHANGED <<magic, ready>>
  PROVE  /\ tree' \in [Nodes -> SUBSET Block] /\ stash' \subseteq Block
         /\ disk_map' \in [Used -> Leaves] /\ pos_map' \in [Used -> Leaves]
         /\ BucketsFit' /\ PathInvariant'
<1>1. /\ leaf \in Leaves /\ st2 \subseteq Block /\ OneEach(st2)
      /\ pm \in [Used -> Leaves] /\ \A x \in Used : x # a => pm[x] = disk_map[x]
  BY AccessFacts
<1>2. \A n \in Nodes : ~is_ancestor(n, leaf) =>
         \A b \in tree[n] : b.lba # a /\ \A c \in st2 : b.lba # c.lba
  BY AccessFacts
<1>3. /\ \A b \in st2 : p[b] \in Levels \cup {-1}
      /\ \A b \in st2 : p[b] # -1 => is_ancestor(get_path[leaf][p[b]], pm[b.lba])
      /\ \A i \in Levels : Cardinality({b \in st2 : p[b] = i}) <= ORAM_Z
      /\ DOMAIN tree' = Nodes /\ tree' = [n \in Nodes |-> tree'[n]]
      /\ \A n \in Nodes : is_ancestor(n, leaf) =>
           tree'[n] = {b \in st2 : p[b] # -1 /\ get_path[leaf][p[b]] = n}
      /\ \A n \in Nodes : ~is_ancestor(n, leaf) => tree'[n] = tree[n]
  BY <1>1, EvictedBlocks
<1>4. stash' = {b \in st2 : p[b] = -1} /\ disk_map' = pm /\ pos_map' = pm
  BY DEF Evicted
<1>5. \A n \in Nodes : tree[n] \subseteq Block
  BY DEF OramIInv, OramWeak, OramTypes
<1>6. \A n \in Nodes : tree'[n] \subseteq Block
  BY <1>1, <1>3, <1>5
<1>7. tree' \in [Nodes -> SUBSET Block] /\ stash' \subseteq Block
  BY <1>1, <1>3, <1>4, <1>6
<1>8. BucketsFit'
  <2> SUFFICES ASSUME NEW n \in Nodes PROVE Cardinality(tree'[n]) <= ORAM_Z
    BY DEF BucketsFit
  <2>1. CASE ~is_ancestor(n, leaf)
    BY <1>3, <2>1 DEF OramIInv, OramWeak, BucketsFit
  <2>2. CASE is_ancestor(n, leaf)
    <3>1. PICK i \in Levels : get_path[leaf][i] = n
      BY <2>2 DEF is_ancestor
    <3>2. \A b \in st2 : (p[b] # -1 /\ get_path[leaf][p[b]] = n) <=> p[b] = i
      <4>1. i # -1
        BY OramConstants DEF Levels
      <4> QED
        BY <1>1, <1>3, <3>1, <4>1, PathOneLevel
    <3>3. tree'[n] = {b \in st2 : p[b] = i}
      BY <1>3, <2>2, <3>2
    <3> QED
      BY <1>3, <3>3
  <2> QED
    BY <2>1, <2>2
<1>9. ASSUME NEW n \in Nodes, NEW b \in tree'[n] PROVE is_ancestor(n, disk_map'[b.lba])
  <2>1. CASE is_ancestor(n, leaf)
    BY <1>3, <1>4, <1>9, <2>1
  <2>2. CASE ~is_ancestor(n, leaf)
    <3>1. b \in tree[n] /\ b.lba # a /\ b.lba \in Used
      BY <1>2, <1>3, <1>5, <1>9, <2>2 DEF Block
    <3>2. is_ancestor(n, disk_map[b.lba])
      BY <3>1 DEF OramIInv, OramWeak, PathInvariant
    <3> QED
      BY <1>1, <1>4, <3>1, <3>2
  <2> QED
    BY <2>1, <2>2
<1>10. ASSUME NEW m \in Nodes, NEW n \in Nodes, m # n, NEW b \in tree'[m], NEW c \in tree'[n]
       PROVE  b.lba # c.lba
  <2>1. CASE is_ancestor(m, leaf) /\ is_ancestor(n, leaf)
    <3>1. b \in st2 /\ c \in st2 /\ get_path[leaf][p[b]] = m /\ get_path[leaf][p[c]] = n
      BY <1>3, <1>10, <2>1
    <3>2. b # c
      BY <1>10, <3>1
    <3> QED
      BY <1>1, <3>1, <3>2 DEF OneEach
  <2>2. CASE is_ancestor(m, leaf) /\ ~is_ancestor(n, leaf)
    <3>1. b \in st2 /\ c \in tree[n]
      BY <1>3, <1>10, <2>2
    <3> QED
      BY <1>2, <2>2, <3>1
  <2>3. CASE ~is_ancestor(m, leaf) /\ is_ancestor(n, leaf)
    <3>1. c \in st2 /\ b \in tree[m]
      BY <1>3, <1>10, <2>3
    <3> QED
      BY <1>2, <2>3, <3>1
  <2>4. CASE ~is_ancestor(m, leaf) /\ ~is_ancestor(n, leaf)
    <3>1. b \in tree[m] /\ c \in tree[n]
      BY <1>3, <1>10, <2>4
    <3> QED
      BY <1>10, <3>1 DEF OramIInv, OramWeak, PathInvariant
  <2> QED
    BY <2>1, <2>2, <2>3, <2>4
<1>11. ASSUME NEW n \in Nodes, NEW b \in tree'[n], NEW c \in stash' PROVE b.lba # c.lba
  <2>1. c \in st2 /\ p[c] = -1
    BY <1>4, <1>11
  <2>2. CASE is_ancestor(n, leaf)
    <3>1. b \in st2 /\ b # c
      BY <1>3, <1>11, <2>1, <2>2
    <3> QED
      BY <1>1, <2>1, <3>1 DEF OneEach
  <2>3. CASE ~is_ancestor(n, leaf)
    <3>1. b \in tree[n]
      BY <1>3, <1>11, <2>3
    <3> QED
      BY <1>2, <2>1, <2>3, <3>1
  <2> QED
    BY <2>2, <2>3
<1>12. ASSUME NEW n \in Nodes, NEW b \in tree'[n], NEW c \in tree'[n], b.lba = c.lba PROVE b = c
  <2>1. CASE is_ancestor(n, leaf)
    <3>1. b \in st2 /\ c \in st2
      BY <1>3, <1>12, <2>1
    <3> QED
      BY <1>1, <1>12, <3>1 DEF OneEach
  <2>2. CASE ~is_ancestor(n, leaf)
    <3>1. b \in tree[n] /\ c \in tree[n]
      BY <1>3, <1>12, <2>2
    <3> QED
      BY <1>12, <3>1 DEF OramIInv, OramWeak, PathInvariant
  <2> QED
    BY <2>1, <2>2
<1>13. \A b, c \in stash' : b.lba = c.lba => b = c
  BY <1>1, <1>4 DEF OneEach
<1>14. PathInvariant'
  <2>1. \A n \in Nodes : \A b \in tree'[n] : is_ancestor(n, disk_map'[b.lba])
    BY <1>9
  <2>2. \A m, n \in Nodes : m # n => \A b \in tree'[m], c \in tree'[n] : b.lba # c.lba
    BY <1>10
  <2>3. \A n \in Nodes : \A b \in tree'[n], c \in stash' : b.lba # c.lba
    BY <1>11
  <2>4. \A n \in Nodes : \A b, c \in tree'[n] : b.lba = c.lba => b = c
    BY <1>12
  <2> QED
    BY <1>4, <1>13, <2>1, <2>2, <2>3, <2>4 DEF PathInvariant, is_ancestor
<1> QED
  BY <1>1, <1>4, <1>7, <1>8, <1>14

\* An access changes what is stored as it would change an array: nothing is lost or
\* added besides the block that is written.
LEMMA AccessStores ==
  ASSUME OramIInv, NEW a \in Used, NEW write \in BOOLEAN, NEW d \in BlockData,
         NEW leaf, NEW st2, NEW pm, NEW p, Access(a, write, d, leaf, st2, pm),
         Evicted(leaf, st2, pm, p)
  PROVE  Stored' = Applied(a, write, d, Stored)
<1>1. leaf \in Leaves /\ st2 = Applied(a, write, d, Fetched(leaf))
  BY AccessFacts DEF Access
<1>2. \A n \in Nodes : ~is_ancestor(n, leaf) => \A b \in tree[n] : b.lba # a
  BY AccessFacts
<1>3. /\ \A b \in st2 : p[b] \in Levels \cup {-1}
      /\ \A n \in Nodes : is_ancestor(n, leaf) =>
           tree'[n] = {b \in st2 : p[b] # -1 /\ get_path[leaf][p[b]] = n}
      /\ \A n \in Nodes : ~is_ancestor(n, leaf) => tree'[n] = tree[n]
  BY <1>1, EvictedBlocks
<1>4. stash' = {b \in st2 : p[b] = -1}
  BY DEF Evicted
<1> DEFINE Off(b) == \E n \in Nodes : ~is_ancestor(n, leaf) /\ b \in tree[n]
<1>5. \A b : b \in Stored <=> (b \in Fetched(leaf) \/ Off(b))
  BY <1>1, StoredBlocks, FetchedBlocks
<1>6. \A b : b \in Stored' <=> (b \in st2 \/ Off(b))
  <2>1. \A b : b \in Stored' <=> (b \in stash' \/ \E n \in Nodes : b \in tree'[n])
    BY DEF Stored
  <2>2. ASSUME NEW b \in st2, p[b] # -1 PROVE \E n \in Nodes : b \in tree'[n]
    <3>1. p[b] \in Levels
      BY <1>3, <2>2
    <3>2. get_path[leaf][p[b]] \in Nodes /\ is_ancestor(get_path[leaf][p[b]], leaf)
      BY <1>1, <3>1, PathNodes DEF is_ancestor
    <3> QED
      BY <1>3, <2>2, <3>2
  <2> QED
    BY <1>3, <1>4, <2>1, <2>2
<1>7. \A b : Off(b) => b.lba # a
  BY <1>2
<1> HIDE DEF Off
<1>8. CASE write
  <2>1. \A S : Applied(a, write, d, S) = {b \in S : b.lba # a} \cup {[lba |-> a, data |-> d]}
    BY <1>8 DEF Applied
  <2> DEFINE new == [lba |-> a, data |-> d]
  <2>2. \A b : b \in Applied(a, write, d, Stored) <=> (b \in Stored /\ b.lba # a) \/ b = new
    BY <2>1
  <2>3. \A b : b \in st2 <=> (b \in Fetched(leaf) /\ b.lba # a) \/ b = new
    BY <1>1, <2>1
  <2> HIDE DEF new
  <2>4. \A b : b \in Stored' <=> b \in Applied(a, write, d, Stored)
    BY <1>5, <1>6, <1>7, <2>2, <2>3
  <2> QED
    BY <2>4
<1>9. CASE ~write
  <2>1. \A S : Applied(a, write, d, S) = S
    BY <1>9 DEF Applied
  <2> QED
    BY <1>1, <1>5, <1>6, <2>1
<1> QED
  BY <1>8, <1>9

----------------------------------------------------------------------------
(* The invariant is inductive.                                              *)

\* The map before anything is loaded has the type of a map.
LEMMA ZeroMap == NoMap \in [Used -> Leaves]
BY OramConstants DEF NoMap, Leaves

\* A tree of dummies and an empty stash, as a fresh region has them.
LEMMA EmptyOK ==
  ASSUME tree = [n \in Nodes |-> {}], stash = {}, ready => pos_map = disk_map
  PROVE  tree \in [Nodes -> SUBSET Block] /\ BucketsFit /\ PathInvariant
<1>1. \A n \in Nodes : tree[n] = {}
  OBVIOUS
<1>2. Cardinality({}) = 0 /\ 0 <= ORAM_Z
  BY FS_EmptySet, OramConstants
<1>3. BucketsFit
  BY <1>1, <1>2 DEF BucketsFit
<1>4. PathInvariant
  BY <1>1 DEF PathInvariant
<1> QED
  BY <1>3, <1>4

\* The initial state satisfies the invariant.
LEMMA OramInitOK == OramInit => OramIInv
<1> SUFFICES ASSUME OramInit PROVE OramIInv
  OBVIOUS
<1>1. /\ ready = FALSE /\ magic = FALSE /\ stash = {} /\ tree = [n \in Nodes |-> {}]
      /\ encrypted \in BOOLEAN /\ broken = FALSE /\ intact = {} /\ spoilt = FALSE
  BY DEF OramInit
<1>2. tree \in [Nodes -> SUBSET Block] /\ BucketsFit /\ PathInvariant
  BY <1>1, EmptyOK
<1>3. last \in Events
  BY DEF OramInit, Events
<1>4. disk_map \in [Used -> Leaves] /\ pos_map \in [Used -> Leaves]
  BY ZeroMap DEF OramInit
<1>5. OramTypes
  BY <1>1, <1>2, <1>3, <1>4 DEF OramTypes
<1>6. Fresh
  BY <1>1 DEF Fresh
<1> QED
  BY <1>1, <1>2, <1>5, <1>6 DEF OramIInv, OramWeak

\* oram_init keeps the invariant, formatting or loading.
LEMMA InitStepOK == OramIInv /\ oram_init => OramIInv'
<1> SUFFICES ASSUME OramIInv, oram_init PROVE OramIInv'
  OBVIOUS
<1>1. /\ ready' = TRUE /\ stash' = {} /\ last' = Cycled /\ intact' = {} /\ spoilt' = FALSE
      /\ UNCHANGED <<encrypted, broken>>
  BY DEF oram_init
<1>1a. last' \in Events
  BY <1>1 DEF Events
<1>2. CASE ~magic
  <2>1. /\ tree' = [n \in Nodes |-> {}] /\ pos_map' \in [Used -> Leaves]
        /\ disk_map' = pos_map' /\ magic' = TRUE
    BY <1>2 DEF oram_init
  <2>2. \A n \in Nodes : tree'[n] = {}
    BY <2>1
  <2>3. Cardinality({}) = 0 /\ 0 <= ORAM_Z
    BY FS_EmptySet, OramConstants
  <2>4. BucketsFit'
    BY <2>2, <2>3 DEF BucketsFit
  <2>5. PathInvariant'
    BY <1>1, <2>1, <2>2 DEF PathInvariant
  <2>6. Fresh'
    BY <1>1, <2>1 DEF Fresh
  <2>7. OramTypes'
    BY <1>1, <1>1a, <2>1 DEF OramTypes, OramIInv, OramWeak
  <2> QED
    BY <1>1, <2>4, <2>5, <2>6, <2>7 DEF OramIInv, OramWeak
<1>3. CASE magic
  <2>1. pos_map' = disk_map /\ tree' = tree /\ disk_map' = disk_map /\ magic' = magic
    BY <1>3 DEF oram_init
  <2>2. BucketsFit'
    BY <2>1 DEF BucketsFit, OramIInv, OramWeak
  <2>3. PathInvariant'
    BY <1>1, <2>1 DEF PathInvariant, OramIInv, OramWeak
  <2>4. Fresh'
    BY <1>1, <1>3, <2>1 DEF Fresh
  <2>5. OramTypes'
    BY <1>1, <1>1a, <2>1 DEF OramTypes, OramIInv, OramWeak
  <2> QED
    BY <1>1, <2>2, <2>3, <2>4, <2>5 DEF OramIInv, OramWeak
<1> QED
  BY <1>2, <1>3

\* Losing the stash and the map in RAM keeps the invariant.
LEMMA OramPowerOffOK == OramIInv /\ OramPowerOff => OramIInv'
<1> SUFFICES ASSUME OramIInv, OramPowerOff PROVE OramIInv'
  OBVIOUS
<1>1. /\ ready' = FALSE /\ stash' = {} /\ pos_map' = NoMap /\ last' = Cycled
      /\ tree' = tree /\ disk_map' = disk_map /\ magic' = magic
      /\ intact' = {} /\ spoilt' = FALSE /\ UNCHANGED <<encrypted, broken>>
  BY DEF OramPowerOff
<1>2. BucketsFit'
  BY <1>1 DEF BucketsFit, OramIInv, OramWeak
<1>3. PathInvariant'
  BY <1>1 DEF PathInvariant, OramIInv, OramWeak
<1>4. Fresh'
  BY <1>1 DEF Fresh, OramIInv, OramWeak
<1>5. last' \in Events
  BY <1>1 DEF Events
<1>6. OramTypes'
  BY <1>1, <1>5, ZeroMap DEF OramTypes, OramIInv, OramWeak
<1> QED
  BY <1>1, <1>2, <1>3, <1>4, <1>6 DEF OramIInv, OramWeak

\* The encryption switch moves no block.
LEMMA SwitchOK == OramIInv /\ SwitchEncryption => OramIInv'
BY DEF SwitchEncryption, OramIInv, OramWeak, OramTypes, BucketsFit, PathInvariant, Fresh

\* What breaks the store leaves every block on its path.
LEMMA BreaksOK == OramIInv /\ OramBreaks => OramWeak'
BY DEF OramBreaks, OramIInv, OramWeak, OramTypes, BucketsFit, PathInvariant, Fresh

\* A call of oram_access is an access in the sense above, and reports the write or
\* what it found.
LEMMA AccessCall ==
  ASSUME OramIInv, NEW a \in Used, NEW write \in BOOLEAN, NEW d \in BlockData,
         NEW new_leaf \in Leaves, oram_access(a, write, d, new_leaf)
  PROVE  /\ ready /\ UNCHANGED <<magic, ready, encrypted, broken>>
         /\ intact' \subseteq Used /\ spoilt' \in BOOLEAN
         /\ \E leaf, st2, pm, p : Access(a, write, d, leaf, st2, pm) /\ Evicted(leaf, st2, pm, p)
         /\ write => last' = Did("write", a, d)
         /\ ~write => \/ /\ Found(a, Fetched(pos_map[a])) # {}
                         /\ \E found \in Found(a, Fetched(pos_map[a])) :
                              last' = Did("read", a, found)
                      \/ /\ Found(a, Fetched(pos_map[a])) = {}
                         /\ last' = Did("read", a, Zero)
<1> DEFINE leaf == pos_map[a]
           st2 == Applied(a, write, d, Fetched(leaf))
           pm == [pos_map EXCEPT ![a] = new_leaf]
<1>1. /\ ready /\ pos_map' = pm /\ disk_map' = pm /\ UNCHANGED <<magic, ready, encrypted, broken>>
      /\ spoilt' = (~write /\ Found(a, Fetched(pos_map[a])) # {} /\ a \notin intact)
      /\ intact' = {b.lba : b \in stash'} \cap (IF write THEN intact \cup {a} ELSE intact)
  BY DEF oram_access
<1>1a. intact' \subseteq Used /\ spoilt' \in BOOLEAN
  BY <1>1 DEF OramIInv, OramWeak, OramTypes
<1>2. \E p \in Evictions(leaf, st2, pm) :
          tree' = Rewritten(leaf, p) /\ stash' = {b \in st2 : p[b] = -1}
  BY DEF oram_access
<1>3. Access(a, write, d, leaf, st2, pm)
  BY <1>1 DEF Access
<1>4. \E p : Evicted(leaf, st2, pm, p)
  BY <1>1, <1>2 DEF Evicted
<1>5. \E l, s, m, p : Access(a, write, d, l, s, m) /\ Evicted(l, s, m, p)
  BY <1>3, <1>4
<1>6. write => last' = Did("write", a, d)
  BY DEF oram_access
<1>7. ~write => \/ /\ Found(a, Fetched(pos_map[a])) # {}
                   /\ \E found \in Found(a, Fetched(pos_map[a])) : last' = Did("read", a, found)
                \/ /\ Found(a, Fetched(pos_map[a])) = {}
                   /\ last' = Did("read", a, Zero)
  BY DEF oram_access
<1> QED
  BY <1>1, <1>1a, <1>5, <1>6, <1>7

\* An access is an event.
LEMMA DidEvent ==
  ASSUME NEW op \in {"read", "write"}, NEW a \in Used, NEW d \in BlockData
  PROVE  Did(op, a, d) \in Events
BY DEF Events

\* What an access finds of its block is what is stored of it.
LEMMA FoundStored ==
  ASSUME OramIInv, ready, NEW a \in Used
  PROVE  /\ Found(a, Fetched(pos_map[a])) \subseteq BlockData
         /\ \A f \in Found(a, Fetched(pos_map[a])) : \E b \in Stored : b.lba = a /\ b.data = f
         /\ \A b \in Stored : b.lba = a => Found(a, Fetched(pos_map[a])) # {}
<1>1. pos_map[a] \in Leaves
  BY DEF OramIInv, OramWeak, OramTypes
<1>2. Fetched(pos_map[a]) \subseteq Stored /\ Stored \subseteq Block
  BY <1>1, FetchedStored, StoredOnce
<1>3. \A b \in Stored : b.lba = a => b \in Fetched(pos_map[a])
  BY OnItsPath
<1>4. \A f : f \in Found(a, Fetched(pos_map[a]))
               <=> \E b \in Fetched(pos_map[a]) : b.lba = a /\ b.data = f
  BY DEF Found
<1>5. \A b \in Block : b.data \in BlockData
  BY DEF Block
<1> QED
  BY <1>2, <1>3, <1>4, <1>5

\* oram_access keeps the invariant.
LEMMA AccessOK ==
  ASSUME OramIInv, NEW a \in Used, NEW write \in BOOLEAN, NEW d \in BlockData,
         NEW new_leaf \in Leaves, oram_access(a, write, d, new_leaf)
  PROVE  OramIInv'
<1>1. /\ ready /\ UNCHANGED <<magic, ready, encrypted, broken>>
      /\ intact' \subseteq Used /\ spoilt' \in BOOLEAN
  BY AccessCall
<1>2. PICK leaf, st2, pm, p : Access(a, write, d, leaf, st2, pm) /\ Evicted(leaf, st2, pm, p)
  BY AccessCall
<1>3. /\ tree' \in [Nodes -> SUBSET Block] /\ stash' \subseteq Block
      /\ disk_map' \in [Used -> Leaves] /\ pos_map' \in [Used -> Leaves]
      /\ BucketsFit' /\ PathInvariant'
  BY <1>1, <1>2, AccessKeepsPaths
<1>4. last' \in Events
  <2>1. CASE write
    BY <2>1, AccessCall, DidEvent
  <2>2. CASE ~write
    <3>1. Found(a, Fetched(pos_map[a])) \subseteq BlockData /\ Zero \in BlockData
      BY <1>1, FoundStored, OramConstants
    <3>2. \E f \in BlockData : last' = Did("read", a, f)
      BY <2>2, <3>1, AccessCall
    <3> QED
      BY <3>2, DidEvent
  <2> QED
    BY <2>1, <2>2
<1>5. OramTypes'
  BY <1>1, <1>3, <1>4 DEF OramTypes, OramIInv, OramWeak
<1>6. Fresh'
  <2>1. magic
    BY <1>1 DEF OramIInv, OramWeak, Fresh
  <2> QED
    BY <1>1, <2>1 DEF Fresh
<1> QED
  BY <1>1, <1>3, <1>5, <1>6 DEF OramIInv, OramWeak

\* A path rewritten has blocks on their way by the map on the medium, and buckets of at
\* most ORAM_Z.
LEMMA RewrittenFacts ==
  ASSUME OramIInv, NEW a \in Used, NEW leaf \in Leaves, leaf = disk_map[a],
         NEW st2, st2 \subseteq Block, NEW pm, \A x \in Used : x # a => pm[x] = disk_map[x],
         NEW p \in Evictions(leaf, st2, pm)
  PROVE  /\ \A n \in Nodes : /\ Rewritten(leaf, p)[n] \subseteq Block
                             /\ Cardinality(Rewritten(leaf, p)[n]) <= ORAM_Z
         /\ \A n \in Nodes : \A b \in Rewritten(leaf, p)[n] : is_ancestor(n, disk_map[b.lba])
<1> DEFINE new == Rewritten(leaf, p)
<1>1. /\ p \in [st2 -> -1 .. ORAM_L]
      /\ \A b \in st2 : p[b] # -1 => is_ancestor(get_path[leaf][p[b]], pm[b.lba])
      /\ \A i \in Levels : Cardinality({b \in st2 : p[b] = i}) <= ORAM_Z
  BY DEF Evictions
<1>2. -1 .. ORAM_L = Levels \cup {-1} /\ -1 \notin Levels
  BY OramConstants DEF Levels
<1>3. \A b \in st2 : p[b] \in Levels \cup {-1}
  BY <1>1, <1>2
<1>4. /\ \A n \in Nodes : is_ancestor(n, leaf) =>
           new[n] = {b \in st2 : p[b] # -1 /\ get_path[leaf][p[b]] = n}
      /\ \A n \in Nodes : ~is_ancestor(n, leaf) => new[n] = tree[n]
  <2>1. DOMAIN p = st2
    BY <1>1
  <2> QED
    BY <2>1 DEF Rewritten, is_ancestor
<1> HIDE DEF new
<1>5. \A n \in Nodes : /\ tree[n] \subseteq Block /\ Cardinality(tree[n]) <= ORAM_Z
                       /\ \A b \in tree[n] : is_ancestor(n, disk_map[b.lba])
  BY DEF OramIInv, OramWeak, OramTypes, BucketsFit, PathInvariant
<1>6. ASSUME NEW n \in Nodes, is_ancestor(n, leaf)
      PROVE  /\ new[n] \subseteq Block /\ Cardinality(new[n]) <= ORAM_Z
             /\ \A b \in new[n] : is_ancestor(n, disk_map[b.lba])
  <2>1. PICK i \in Levels : get_path[leaf][i] = n
    BY <1>6 DEF is_ancestor
  <2>2. \A b \in st2 : (p[b] # -1 /\ get_path[leaf][p[b]] = n) <=> p[b] = i
    BY <1>2, <1>3, <2>1, PathOneLevel
  <2>3. new[n] = {b \in st2 : p[b] = i}
    BY <1>4, <1>6, <2>2
  <2>4. ASSUME NEW b \in new[n] PROVE is_ancestor(n, disk_map[b.lba])
    <3>1. b \in st2 /\ is_ancestor(n, pm[b.lba]) /\ b.lba \in Used
      BY <1>1, <1>2, <2>1, <2>3 DEF Block
    <3> QED
      BY <1>6, <3>1
  <2> QED
    BY <1>1, <2>3, <2>4
<1>7. ASSUME NEW n \in Nodes
      PROVE  /\ new[n] \subseteq Block /\ Cardinality(new[n]) <= ORAM_Z
             /\ \A b \in new[n] : is_ancestor(n, disk_map[b.lba])
  <2>1. CASE is_ancestor(n, leaf)
    BY <1>6, <2>1
  <2>2. CASE ~is_ancestor(n, leaf)
    BY <1>4, <1>5, <2>2
  <2> QED
    BY <2>1, <2>2
<1> QED
  BY <1>7 DEF new

\* The rewriting of a path that stops at some level leaves every block on its path by
\* the map on the medium: whatever an access moves stays on the path that was read.
LEMMA CutOK ==
  ASSUME OramIInv, NEW a \in Used, NEW write \in BOOLEAN, NEW d \in BlockData,
         NEW new_leaf \in Leaves, OramCut(a, write, d, new_leaf)
  PROVE  OramWeak'
<1> DEFINE leaf == pos_map[a]
           st2 == Applied(a, write, d, Fetched(leaf))
           pm == [pos_map EXCEPT ![a] = new_leaf]
<1>1. /\ ready /\ broken' = TRUE /\ ready' = FALSE /\ stash' = {} /\ pos_map' = NoMap
      /\ last' = Cycled /\ intact' = {} /\ spoilt' = FALSE
      /\ UNCHANGED <<disk_map, magic, encrypted>>
  BY DEF OramCut
<1>2. PICK p \in Evictions(leaf, st2, pm) :
        \E i \in Levels :
          \E S \in SUBSET (tree[get_path[leaf][i]] \cup Rewritten(leaf, p)[get_path[leaf][i]]) :
            Cardinality(S) <= ORAM_Z /\ tree' = CutShort(leaf, Rewritten(leaf, p), i, S)
  BY DEF OramCut
<1>3. Access(a, write, d, leaf, st2, pm)
  BY <1>1 DEF Access
<1>4. leaf = disk_map[a]
  BY <1>1 DEF OramIInv, OramWeak, PathInvariant
<1> HIDE DEF st2, pm, leaf
<1>5. /\ leaf \in Leaves /\ st2 \subseteq Block
      /\ pm \in [Used -> Leaves] /\ \A x \in Used : x # a => pm[x] = disk_map[x]
  BY <1>3, AccessFacts
<1> DEFINE new == Rewritten(leaf, p)
<1>6. /\ \A n \in Nodes : new[n] \subseteq Block /\ Cardinality(new[n]) <= ORAM_Z
      /\ \A n \in Nodes : \A b \in new[n] : is_ancestor(n, disk_map[b.lba])
  BY <1>2, <1>4, <1>5, RewrittenFacts
<1>7. \A n \in Nodes : /\ tree[n] \subseteq Block /\ Cardinality(tree[n]) <= ORAM_Z
                       /\ \A b \in tree[n] : is_ancestor(n, disk_map[b.lba])
  BY DEF OramIInv, OramWeak, OramTypes, BucketsFit, PathInvariant
<1> HIDE DEF new
<1>8. PICK k \in Levels : \E S \in SUBSET (tree[get_path[leaf][k]] \cup new[get_path[leaf][k]]) :
        Cardinality(S) <= ORAM_Z /\ tree' = CutShort(leaf, new, k, S)
  BY <1>2 DEF new
<1>8a. PICK bucket \in SUBSET (tree[get_path[leaf][k]] \cup new[get_path[leaf][k]]) :
        Cardinality(bucket) <= ORAM_Z /\ tree' = CutShort(leaf, new, k, bucket)
  BY <1>8
<1>9. /\ tree' = [n \in Nodes |-> tree'[n]]
      /\ \A n \in Nodes : \/ n = get_path[leaf][k] /\ tree'[n] = bucket
                          \/ tree'[n] = new[n] \/ tree'[n] = tree[n]
  BY <1>8a DEF CutShort
<1>10. \A n \in Nodes : /\ tree'[n] \subseteq Block /\ Cardinality(tree'[n]) <= ORAM_Z
                        /\ \A b \in tree'[n] : is_ancestor(n, disk_map[b.lba])
  BY <1>6, <1>7, <1>8a, <1>9
<1>11. tree' \in [Nodes -> SUBSET Block]
  BY <1>9, <1>10
<1>12. last' \in Events
  BY <1>1 DEF Events
<1>13. OramTypes'
  BY <1>1, <1>11, <1>12, ZeroMap DEF OramTypes, OramIInv, OramWeak
<1>14. BucketsFit'
  BY <1>10 DEF BucketsFit
<1>15. PathInvariant'
  <2>1. \A n \in Nodes : \A b \in tree'[n] : is_ancestor(n, disk_map'[b.lba])
    BY <1>1, <1>10
  <2> QED
    BY <1>1, <2>1 DEF PathInvariant, is_ancestor
<1>16. Fresh'
  BY <1>1 DEF Fresh, OramIInv, OramWeak
<1> QED
  BY <1>13, <1>14, <1>15, <1>16 DEF OramWeak

\* The inductive invariant holds in every reachable state.
LEMMA OramInduction == OramSpec => []OramWeak
<1>1. OramWeak /\ [OramNext]_oramVars => OramWeak'
  <2> SUFFICES ASSUME OramWeak, [OramNext]_oramVars PROVE OramWeak'
    OBVIOUS
  <2>1. CASE oram_init
    BY <2>1, InitStepOK DEF OramIInv, oram_init
  <2>2. CASE OramPowerOff
    BY <2>2, OramPowerOffOK DEF OramIInv, OramPowerOff
  <2>3. CASE SwitchEncryption
    BY <2>3, SwitchOK DEF OramIInv, SwitchEncryption
  <2>4. CASE OramBreaks
    BY <2>4, BreaksOK DEF OramIInv, OramBreaks
  <2>5. ASSUME NEW a \in Used, NEW d \in BlockData, NEW leaf \in Leaves, NEW write \in BOOLEAN,
               oram_access(a, write, d, leaf)
        PROVE  OramWeak'
    <3>1. OramIInv
      BY <2>5 DEF OramIInv, oram_access
    <3> QED
      BY <2>5, <3>1, AccessOK DEF OramIInv
  <2>6. ASSUME NEW a \in Used, NEW d \in BlockData, NEW leaf \in Leaves, NEW write \in BOOLEAN,
               OramCut(a, write, d, leaf)
        PROVE  OramWeak'
    <3>1. OramIInv
      BY <2>6 DEF OramIInv, OramCut
    <3> QED
      BY <2>6, <3>1, CutOK
  <2>7. CASE UNCHANGED oramVars
    BY <2>7 DEF oramVars, OramWeak, OramTypes, BucketsFit, PathInvariant, Fresh
  <2>8. Zero \in BlockData /\ TRUE \in BOOLEAN /\ FALSE \in BOOLEAN
    BY OramConstants
  <2> QED
    BY <2>1, <2>2, <2>3, <2>4, <2>5, <2>6, <2>7, <2>8 DEF OramNext
<1>2. OramInit => OramWeak
  BY OramInitOK DEF OramIInv
<1> QED
  BY <1>1, <1>2, PTL DEF OramSpec

\* Blocks that are stored once each are no more than the logical blocks they are of.
LEMMA OnePerBlock ==
  ASSUME NEW S, NEW U, S \subseteq Block, OneEach(S), U \subseteq Used,
         \A b \in S : b.lba \in U
  PROVE  /\ IsFiniteSet(U) /\ Cardinality(U) \in Nat /\ Cardinality(S) \in Nat
         /\ Cardinality(S) <= Cardinality(U)
<1>1. IsFiniteSet(Used)
  <2>1. IsFiniteSet(0 .. ORAM_NUM_LEAVES - 1)
    <3>1. 0 \in Int /\ ORAM_NUM_LEAVES - 1 \in Int
      BY OramConstants
    <3> QED
      BY <3>1, FS_Interval
  <2> QED
    BY <2>1, FS_Subset, OramAssumption
<1>2. IsFiniteSet(U)
  BY <1>1, FS_Subset
<1> DEFINE f == [b \in S |-> b.lba]
<1>3. f \in Injection(S, U)
  BY DEF OneEach, Injection, IsInjective
<1> HIDE DEF f
<1>4. IsFiniteSet(S) /\ Cardinality(S) <= Cardinality(U)
  BY <1>2, <1>3, FS_Injection
<1> QED
  BY <1>2, <1>4, FS_CardinalityType

\* The stash array has room for whatever an access fetches and adds.
LEMMA StashOK == OramWeak => StashFits
<1> SUFFICES ASSUME OramIInv, NEW a \in Used, ready
             PROVE  /\ Cardinality(Fetched(pos_map[a])) <= STASH_MAX
                    /\ Found(a, Fetched(pos_map[a])) = {}
                       => Cardinality(Fetched(pos_map[a])) < STASH_MAX
  BY DEF StashFits, OramIInv
<1> DEFINE S == Fetched(pos_map[a])
<1>1. pos_map[a] \in Leaves
  BY DEF OramIInv, OramWeak, OramTypes
<1>2. S \subseteq Block /\ OneEach(S)
  BY <1>1, FetchedStored, StoredOnce DEF OneEach
<1>3. \A b \in S : b.lba \in Used
  BY <1>2 DEF Block
<1>4. Found(a, S) = {} => \A b \in S : b.lba \in Used \ {a}
  BY <1>3 DEF Found
<1> HIDE DEF S
<1>5. /\ IsFiniteSet(Used) /\ Cardinality(Used) \in Nat
      /\ Cardinality(S) \in Nat /\ Cardinality(S) <= Cardinality(Used)
  BY <1>2, <1>3, OnePerBlock
<1>6. Cardinality(Used \ {a}) = Cardinality(Used) - 1
  BY <1>5, FS_RemoveElement
<1>7. Found(a, S) = {} => Cardinality(S) <= Cardinality(Used) - 1
  <2>1. Used \ {a} \subseteq Used
    OBVIOUS
  <2> QED
    BY <1>2, <1>4, <1>6, <2>1, OnePerBlock
<1>8. Cardinality(Used) <= STASH_MAX /\ STASH_MAX \in Nat
  BY OramAssumption
<1>9. Cardinality(S) <= STASH_MAX
  BY <1>5, <1>8
<1>10. Found(a, S) = {} => Cardinality(S) < STASH_MAX
  BY <1>5, <1>7, <1>8
<1> QED
  BY <1>9, <1>10 DEF S

\* Every access finds its block where the map says and has room for its path, and a
\* power cut in an access leaves every block on its path by the map on the medium, for
\* a tree of any depth, any bucket size and any set of logical blocks that the stash
\* array can hold (oram_access, evict_path).
THEOREM OramSafe == OramSpec => []OramInv
<1>1. OramWeak => OramInv
  <2>1. OramWeak => OramTypeOK /\ PathInvariant
    BY DEF OramIInv, OramWeak, OramTypes, BucketsFit, OramTypeOK
  <2> QED
    BY <2>1, StashOK DEF OramInv
<1> QED
  BY <1>1, OramInduction, PTL

----------------------------------------------------------------------------
(* The oblivious store implements the array of blocks.                      *)

\* What a set of blocks holds of logical block a.
Content(S, a) == IF \E b \in S : b.lba = a THEN (CHOOSE b \in S : b.lba = a).data ELSE Zero

\* The content of a block that is in a set without doubles, and of one that is not.
LEMMA ContentOf ==
  ASSUME NEW S, OneEach(S), NEW a
  PROVE  /\ \A b \in S : b.lba = a => Content(S, a) = b.data
         /\ (\A b \in S : b.lba # a) => Content(S, a) = Zero
<1>1. ASSUME NEW b \in S, b.lba = a PROVE Content(S, a) = b.data
  <2>1. (CHOOSE c \in S : c.lba = a) = b
    BY <1>1 DEF OneEach
  <2> QED
    BY <1>1, <2>1 DEF Content
<1>2. (\A b \in S : b.lba # a) => Content(S, a) = Zero
  BY DEF Content
<1> QED
  BY <1>1, <1>2

\* The content of every block, as the refinement mapping has it.
ContentsOf(S) == [a \in Used |-> Content(S, a)]

\* The refinement mapping is the content of what is stored.
LEMMA StoreIs == [a \in Used |-> View(a)] = ContentsOf(Stored)
BY DEF View, ContentsOf, Content

\* An empty store reads as zeroes.
LEMMA NothingStored == ASSUME NEW S, S = {} PROVE ContentsOf(S) = [a \in Used |-> Zero]
BY DEF ContentsOf, Content

\* A write changes the content of its block and of no other; a read changes nothing.
LEMMA AppliedContent ==
  ASSUME NEW S, S \subseteq Block, OneEach(S), NEW a \in Used, NEW d \in BlockData
  PROVE  /\ ContentsOf(Applied(a, TRUE, d, S)) = [ContentsOf(S) EXCEPT ![a] = d]
         /\ Applied(a, FALSE, d, S) = S
<1> DEFINE T == Applied(a, TRUE, d, S)
           new == [lba |-> a, data |-> d]
<1>1. new.lba = a /\ new.data = d
  OBVIOUS
<1> HIDE DEF new
<1>2. T = {b \in S : b.lba # a} \cup {new}
  BY DEF Applied, new
<1>3. OneEach(T)
  <2>1. TRUE \in BOOLEAN
    OBVIOUS
  <2> QED
    BY <2>1, AppliedBlocks
<1> HIDE DEF T
<1>4. Content(T, a) = d
  BY <1>1, <1>2, <1>3, ContentOf
<1>5. ASSUME NEW x \in Used, x # a PROVE Content(T, x) = Content(S, x)
  <2>1. \A b : b.lba = x => (b \in T <=> b \in S)
    BY <1>1, <1>2, <1>5
  <2>2. CASE \E b \in S : b.lba = x
    <3>1. PICK b \in S : b.lba = x
      BY <2>2
    <3>2. b \in T
      BY <2>1, <3>1
    <3> QED
      BY <1>3, <3>1, <3>2, ContentOf
  <2>3. CASE \A b \in S : b.lba # x
    BY <1>3, <2>1, <2>3, ContentOf
  <2> QED
    BY <2>2, <2>3
<1>6. ContentsOf(T) = [ContentsOf(S) EXCEPT ![a] = d]
  BY <1>4, <1>5 DEF ContentsOf
<1> QED
  BY <1>6 DEF T, Applied

\* A call of oram_access is a read or a write of the array.
LEMMA AccessImplements ==
  ASSUME OramIInv, NEW a \in Used, NEW write \in BOOLEAN, NEW d \in BlockData,
         NEW new_leaf \in Leaves, oram_access(a, write, d, new_leaf)
  PROVE  Array!StoreNext
<1>1. ready /\ broken' = broken
  BY AccessCall
<1>2. OneEach(Stored) /\ Stored \subseteq Block
  BY StoredOnce
<1>3. Stored' = Applied(a, write, d, Stored)
  BY AccessCall, AccessStores
<1>4. [x \in Used |-> View(x)] = ContentsOf(Stored)
  BY StoreIs
<1>5. [x \in Used |-> View(x)]' = ContentsOf(Stored')
  BY DEF View, ContentsOf, Content
<1>6. CASE write
  <2>1. ContentsOf(Stored') = [ContentsOf(Stored) EXCEPT ![a] = d]
    BY <1>2, <1>3, <1>6, AppliedContent
  <2>2. last' = Array!Did("write", a, d)
    BY <1>6, AccessCall DEF Did, Array!Did
  <2>3. Array!StoreWrite(a, d)
    BY <1>1, <1>4, <1>5, <2>1, <2>2 DEF Array!StoreWrite, Array!Written
  <2> QED
    BY <2>3 DEF Array!StoreNext
<1>7. CASE ~write
  <2>1. ContentsOf(Stored') = ContentsOf(Stored)
    BY <1>2, <1>3, <1>7, AppliedContent
  <2>2. last' = Did("read", a, Content(Stored, a))
    <3>1. CASE Found(a, Fetched(pos_map[a])) # {}
      <4>1. PICK f \in Found(a, Fetched(pos_map[a])) : last' = Did("read", a, f)
        BY <1>7, <3>1, AccessCall
      <4>2. PICK b \in Stored : b.lba = a /\ b.data = f
        BY <1>1, FoundStored
      <4>3. Content(Stored, a) = f
        BY <1>2, <4>2, ContentOf
      <4> QED
        BY <4>1, <4>3
    <3>2. CASE Found(a, Fetched(pos_map[a])) = {}
      <4>1. \A b \in Stored : b.lba # a
        BY <1>1, <3>2, FoundStored
      <4>2. Content(Stored, a) = Zero
        BY <1>2, <4>1, ContentOf
      <4>3. last' = Did("read", a, Zero)
        BY <1>7, <3>2, AccessCall
      <4> QED
        BY <4>2, <4>3
    <3> QED
      BY <3>1, <3>2
  <2>3. ContentsOf(Stored)[a] = Content(Stored, a)
    BY DEF ContentsOf
  <2>4. Array!StoreRead(a)
    BY <1>1, <1>4, <1>5, <2>1, <2>2, <2>3 DEF Array!StoreRead, Array!Did, Did
  <2> QED
    BY <2>4 DEF Array!StoreNext
<1> QED
  BY <1>6, <1>7

\* Losing the stash loses the blocks that were in it.
LEMMA LossImplements ==
  ASSUME OramIInv, stash' = {}, \A n \in Nodes : tree'[n] = tree[n], last' = Cycled,
         broken' = broken
  PROVE  Array!StoreNext
<1> DEFINE lost == {a \in Used : \E b \in stash : b.lba = a}
<1>2. OneEach(Stored) /\ Stored \subseteq Block
  BY StoredOnce
<1>3. \A b : b \in Stored' <=> b \in Stored /\ b \notin stash
  <2>1. \A b : b \in Stored' <=> \E n \in Nodes : b \in tree[n]
    BY DEF Stored
  <2>2. \A n \in Nodes : \A b \in tree[n] : b \notin stash
    BY DEF OramIInv, OramWeak, PathInvariant
  <2> QED
    BY <2>1, <2>2, StoredBlocks
<1>4. OneEach(Stored')
  BY <1>2, <1>3 DEF OneEach
<1>5. stash \subseteq Stored
  BY StoredBlocks
<1>6. ASSUME NEW a \in Used
      PROVE  Content(Stored', a) = IF a \in lost THEN Zero ELSE Content(Stored, a)
  <2>1. CASE a \in lost
    <3>1. PICK b \in stash : b.lba = a
      BY <2>1
    <3>2. \A c \in Stored' : c.lba # a
      BY <1>2, <1>3, <1>5, <3>1 DEF OneEach
    <3> QED
      BY <1>4, <2>1, <3>2, ContentOf
  <2>2. CASE a \notin lost
    <3>1. \A b : b.lba = a => (b \in Stored' <=> b \in Stored)
      BY <1>3, <2>2
    <3>2. CASE \E b \in Stored : b.lba = a
      <4>1. PICK b \in Stored : b.lba = a
        BY <3>2
      <4>2. b \in Stored'
        BY <3>1, <4>1
      <4> QED
        BY <1>2, <1>4, <2>2, <4>1, <4>2, ContentOf
    <3>3. CASE \A b \in Stored : b.lba # a
      BY <1>2, <1>4, <2>2, <3>1, <3>3, ContentOf
    <3> QED
      BY <3>2, <3>3
  <2> QED
    BY <2>1, <2>2
<1>7. lost \in SUBSET Used
  OBVIOUS
<1> HIDE DEF lost
<1>8. [x \in Used |-> View(x)] = ContentsOf(Stored)
  BY StoreIs
<1>9. [x \in Used |-> View(x)]' = ContentsOf(Stored')
  BY DEF View, ContentsOf, Content
<1>10. ContentsOf(Stored') = Array!Without(lost)
  BY <1>6, <1>8 DEF ContentsOf, Array!Without
<1>11. Array!PowerCycle
  BY <1>7, <1>9, <1>10 DEF Array!PowerCycle, Array!Cycled, Cycled
<1> QED
  BY <1>11 DEF Array!StoreNext

\* A power cycle between two accesses loses the stash, and so does oram_init, which
\* formats no region that holds a block.
LEMMA PowerOffImplements ==
  ASSUME OramIInv, OramPowerOff \/ oram_init PROVE Array!StoreNext
<1>1. stash' = {} /\ last' = Cycled /\ broken' = broken
  BY DEF OramPowerOff, oram_init
<1>2. \A n \in Nodes : tree'[n] = tree[n]
  BY DEF OramPowerOff, oram_init, OramIInv, OramWeak, Fresh
<1> QED
  BY <1>1, <1>2, LossImplements

\* The oblivious store is an array of blocks for every depth, bucket size and
\* content: a write is seen by every later read, no access disturbs another block,
\* and only oram_init or a power cycle may lose one, until a cut in an access,
\* a failed transfer or an encrypted access breaks it (oram_access, evict_path).
THEOREM OramImplementsStore == OramSpec => ImplementsStore
<1>1. OramInit => Array!StoreInit
  <2> SUFFICES ASSUME OramInit PROVE Array!StoreInit
    OBVIOUS
  <2>1. Stored = {}
    BY DEF OramInit, Stored
  <2>2. [a \in Used |-> View(a)] = [a \in Used |-> Zero]
    BY <2>1, StoreIs, NothingStored
  <2> QED
    BY <2>2 DEF OramInit, Array!StoreInit, Array!Cycled, Cycled
<1>2. OramWeak /\ [OramNext]_oramVars => [Array!StoreNext]_(Array!storeVars)
  <2> SUFFICES ASSUME OramWeak, [OramNext]_oramVars
               PROVE  Array!StoreNext \/ UNCHANGED Array!storeVars
    OBVIOUS
  <2>1. CASE oram_init
    BY <2>1, PowerOffImplements DEF OramIInv, oram_init
  <2>2. CASE OramPowerOff
    BY <2>2, PowerOffImplements DEF OramIInv, OramPowerOff
  <2>3. CASE SwitchEncryption
    BY <2>3 DEF SwitchEncryption, Array!storeVars, View, Stored
  <2>4. CASE OramBreaks
    BY <2>4 DEF OramBreaks, Array!StoreNext, Array!Break
  <2>5. ASSUME NEW a \in Used, NEW d \in BlockData, NEW leaf \in Leaves, NEW write \in BOOLEAN,
               oram_access(a, write, d, leaf)
        PROVE  Array!StoreNext
    <3>1. OramIInv
      BY <2>5 DEF OramIInv, oram_access
    <3> QED
      BY <2>5, <3>1, AccessImplements
  <2>6. ASSUME NEW a \in Used, NEW d \in BlockData, NEW leaf \in Leaves, NEW write \in BOOLEAN,
               OramCut(a, write, d, leaf)
        PROVE  Array!StoreNext
    BY <2>6 DEF OramCut, Array!StoreNext, Array!Break
  <2>7. CASE UNCHANGED oramVars
    BY <2>7 DEF oramVars, Array!storeVars, View, Stored
  <2>8. Zero \in BlockData /\ TRUE \in BOOLEAN /\ FALSE \in BOOLEAN
    BY OramConstants
  <2> QED
    BY <2>1, <2>2, <2>3, <2>4, <2>5, <2>6, <2>7, <2>8 DEF OramNext
<1> QED
  BY <1>1, <1>2, OramInduction, PTL DEF OramSpec, ImplementsStore, Array!StoreSpec

----------------------------------------------------------------------------
(* Session snapshots.                                                       *)

\* Sector i holds the chunk of session y, or has been lost.
Holds(y, i) == blocks[i] # Blank => /\ blocks[i].body.type = "data"
                                    /\ blocks[i].body.chunk = y[i]

\* The store holds the last complete save, as far as it was not lost.
SavedThere ==
  blocks[0] # Blank =>
    /\ blocks[0].body = [type |-> "header", total |-> Len(saved.session), pool |-> saved.pool]
    /\ saved.session \in Sessions
    /\ \A i \in 1 .. Len(saved.session) : i \in Addresses => Holds(saved.session, i)

\* The inductive invariant: a running save has written the sectors before the
\* next one, and unless a save was begun since, the store holds the last one.
SnapIInv ==
  /\ SnapTypeOK
  /\ g_sequence_number \in 1 .. MaxSaves + 1
  /\ saving # 0 => g_sequence_number <= MaxSaves /\ torn
  /\ \A i \in 1 .. saving - 1 : i \in Addresses /\ Holds(session, i)
  /\ ~torn => SavedThere

\* The sizes of sessions are positive, and block 0 is one of the store's.
LEMMA SnapSizes ==
  /\ \A n \in Sizes : n \in Nat /\ n > 0
  /\ 0 \in Addresses /\ SNAP_BLOCKS \in Nat /\ MaxWork \in Nat /\ MaxSaves \in Nat
  /\ MaxCycles \in Nat /\ MaxCycles > 0
BY SnapAssumption DEF Addresses

\* A session has a chunk per sector.
LEMMA SessionFacts ==
  ASSUME NEW y \in Sessions
  PROVE  /\ Len(y) \in Sizes /\ Len(y) \in Nat /\ Len(y) > 0 /\ y \in [1 .. Len(y) -> 0 .. MaxWork]
         /\ \A i \in 1 .. Len(y) : y[i] \in 0 .. MaxWork
<1>1. PICK n \in Sizes : y \in [1 .. n -> 0 .. MaxWork]
  BY DEF Sessions
<1>2. n \in Nat /\ n > 0
  BY SnapSizes
<1>3. Len(y) = n
  BY <1>1, <1>2
<1> QED
  BY <1>1, <1>2, <1>3

\* A function on the sectors is a session.
LEMMA SessionMade ==
  ASSUME NEW n \in Sizes, NEW y \in [1 .. n -> 0 .. MaxWork]
  PROVE  y \in Sessions /\ Len(y) = n
<1>1. n \in Nat
  BY SnapSizes
<1> QED
  BY <1>1 DEF Sessions

\* A sealed sector.
LEMMA SealedFacts ==
  ASSUME NEW b \in Sealed
  PROVE  /\ b.body \in Body /\ b # Blank
         /\ b.body.type = "header" => b.body.total \in Sizes /\ b.body.pool \in Pools
         /\ b.body.type = "data" => b.body.chunk \in 0 .. MaxWork
<1>1. b.body \in Body /\ b.key \in Keys /\ DOMAIN b = {"key", "lba", "seq", "body"}
  BY DEF Sealed
<1>2. DOMAIN Blank = {"key"}
  BY DEF Blank
<1>3. b # Blank
  BY <1>1, <1>2
<1>4. /\ b.body.type = "header" => b.body.total \in Sizes /\ b.body.pool \in Pools
      /\ b.body.type = "data" => b.body.chunk \in 0 .. MaxWork
  BY <1>1 DEF Body
<1> QED
  BY <1>1, <1>3, <1>4

\* The initial state satisfies the invariant.
LEMMA SnapInitOK == SnapInit => SnapIInv
<1> SUFFICES ASSUME SnapInit PROVE SnapIInv
  OBVIOUS
<1>1. PICK n \in Sizes : session = [i \in 1 .. n |-> 0]
  BY DEF SnapInit
<1>2. session \in Sessions /\ Len(session) = n
  <2>1. session \in [1 .. n -> 0 .. MaxWork]
    BY <1>1, SnapSizes
  <2> QED
    BY <2>1, SessionMade
<1>3. n \in Nat /\ n > 0
  BY SnapSizes
<1>4. /\ blocks = [a \in Addresses |-> Blank] /\ cycles = 1 /\ work = 0
      /\ pool \in Pools /\ g_snapshot_key = 1 /\ g_sequence_number = 1
      /\ saving = 0 /\ saved = Nothing /\ torn = FALSE /\ rc = 0
      /\ overrun = FALSE
  BY SnapAssumption DEF SnapInit
<1>5. SnapTypeOK
  <2>1. torn \in BOOLEAN
    BY <1>4
  <2>2. blocks \in [Addresses -> Sealed \cup {Blank}]
    BY <1>4
  <2>3. cycles \in 1 .. MaxCycles /\ work \in 0 .. MaxWork /\ g_snapshot_key \in Keys
        /\ saving \in 0 .. Len(session) + 1 /\ rc \in {0, -1}
    BY <1>2, <1>3, <1>4, SnapSizes DEF Keys
  <2> QED
    BY <1>2, <1>4, <2>1, <2>2, <2>3 DEF SnapTypeOK
<1>6. SavedThere
  BY <1>4, SnapSizes DEF SavedThere
<1> QED
  BY <1>4, <1>5, <1>6, SnapSizes DEF SnapIInv

\* What the store holds only matters where it changes.
LEMMA SavedKept ==
  ASSUME SavedThere, UNCHANGED saved, blocks \in [Addresses -> Sealed \cup {Blank}],
         blocks' \in [Addresses -> Sealed \cup {Blank}],
         \A a \in Addresses : blocks'[a] = blocks[a] \/ blocks'[a] = Blank
  PROVE  SavedThere'
<1> SUFFICES ASSUME blocks'[0] # Blank PROVE SavedThere'
  BY DEF SavedThere
<1>1. blocks'[0] = blocks[0] /\ blocks[0] # Blank
  BY SnapSizes
<1>2. /\ blocks[0].body = [type |-> "header", total |-> Len(saved.session), pool |-> saved.pool]
      /\ saved.session \in Sessions
      /\ \A i \in 1 .. Len(saved.session) : i \in Addresses => Holds(saved.session, i)
  BY <1>1 DEF SavedThere
<1>3. \A i \in 1 .. Len(saved.session) : i \in Addresses => Holds(saved.session, i)'
  BY <1>2 DEF Holds
<1> QED
  BY <1>1, <1>2, <1>3 DEF SavedThere

\* A sector of the session is written, or the write fails.
LEMMA SaveSectorOK == ASSUME SnapIInv, SaveSector PROVE SnapIInv'
<1>1. /\ saving \in 1 .. Len(session)
      /\ UNCHANGED <<cycles, work, session, pool, g_snapshot_key, g_sequence_number, saved, torn,
                     overrun>>
  BY DEF SaveSector
<1>2. /\ blocks \in [Addresses -> Sealed \cup {Blank}] /\ session \in Sessions
      /\ g_snapshot_key \in Keys /\ rc \in {0, -1} /\ saving \in 0 .. Len(session) + 1
      /\ torn \in BOOLEAN
      /\ cycles \in 1 .. MaxCycles /\ work \in 0 .. MaxWork /\ pool \in Pools /\ overrun \in BOOLEAN
      /\ g_sequence_number \in 1 .. MaxSaves + 1 /\ g_sequence_number <= MaxSaves /\ torn
      /\ \A i \in 1 .. saving - 1 : i \in Addresses /\ Holds(session, i)
  BY <1>1 DEF SnapIInv, SnapTypeOK
<1>3. Len(session) \in Nat /\ \A i \in 1 .. Len(session) : session[i] \in 0 .. MaxWork
  BY <1>2, SessionFacts
<1>4. CASE saving \in Addresses /\ blocks' = Store!Written(saving, DataSector)
           /\ saving' = saving + 1 /\ UNCHANGED rc
  <2>1. DataSector \in Sealed
    BY <1>1, <1>2, <1>3, <1>4, SnapSizes DEF DataSector, Seal, Sealed, Body
  <2>2. DataSector.body.type = "data" /\ DataSector.body.chunk = session[saving]
    BY DEF DataSector, Seal
  <2>3. blocks' \in [Addresses -> Sealed \cup {Blank}] /\ blocks'[saving] = DataSector
        /\ \A a \in Addresses : a # saving => blocks'[a] = blocks[a]
    BY <1>2, <1>4, <2>1 DEF Store!Written
  <2>4. saving' \in 0 .. Len(session') + 1
    BY <1>1, <1>3, <1>4
  <2>5. SnapTypeOK'
    BY <1>1, <1>2, <1>4, <2>3, <2>4 DEF SnapTypeOK
  <2>6. \A i \in 1 .. saving' - 1 : i \in Addresses /\ Holds(session, i)'
    BY <1>1, <1>2, <1>4, <2>2, <2>3 DEF Holds
  <2> QED
    BY <1>1, <1>2, <2>5, <2>6 DEF SnapIInv
<1>5. CASE saving' = 0 /\ rc' = -1 /\ UNCHANGED blocks
  <2>1. SnapTypeOK'
    BY <1>1, <1>2, <1>3, <1>5 DEF SnapTypeOK
  <2> QED
    BY <1>1, <1>2, <1>5, <2>1 DEF SnapIInv
<1> QED
  BY <1>4, <1>5 DEF SaveSector

\* The header is written: the save is complete.
LEMMA CommitOK == ASSUME SnapIInv, Commit PROVE SnapIInv'
<1>1. /\ saving > Len(session) /\ blocks' = Store!Written(0, Header) /\ saving' = 0 /\ rc' = 0
      /\ g_sequence_number' = g_sequence_number + 1
      /\ saved' = [session |-> session, pool |-> pool] /\ torn' = FALSE
      /\ UNCHANGED <<cycles, work, session, pool, g_snapshot_key, overrun>>
  BY DEF Commit
<1>2. /\ blocks \in [Addresses -> Sealed \cup {Blank}] /\ session \in Sessions
      /\ g_snapshot_key \in Keys /\ saving \in 0 .. Len(session) + 1
      /\ cycles \in 1 .. MaxCycles /\ work \in 0 .. MaxWork /\ pool \in Pools /\ overrun \in BOOLEAN
      /\ g_sequence_number \in 1 .. MaxSaves + 1
      /\ \A i \in 1 .. saving - 1 : i \in Addresses /\ Holds(session, i)
      /\ saving # 0 => g_sequence_number <= MaxSaves
  BY DEF SnapIInv, SnapTypeOK
<1>3. Len(session) \in Sizes /\ Len(session) \in Nat /\ Len(session) > 0
  BY <1>2, SessionFacts
<1>4. saving = Len(session) + 1 /\ g_sequence_number <= MaxSaves
  BY <1>1, <1>2, <1>3
<1>5. /\ Header \in Sealed
      /\ Header.body = [type |-> "header", total |-> Len(session), pool |-> pool]
  BY <1>2, <1>3, <1>4, SnapSizes DEF Header, Seal, Sealed, Body
<1>6. blocks' \in [Addresses -> Sealed \cup {Blank}] /\ blocks'[0] = Header
      /\ \A a \in Addresses : a # 0 => blocks'[a] = blocks[a]
  BY <1>1, <1>2, <1>5, SnapSizes DEF Store!Written
<1>7. saved'.session = session /\ saved'.pool = pool
  BY <1>1
<1>8. SavedThere'
  <2>1. \A i \in 1 .. Len(session) : i \in Addresses /\ i # 0 /\ Holds(session, i)
    BY <1>2, <1>3, <1>4
  <2>2. \A i \in 1 .. Len(session) : Holds(session, i)'
    BY <2>1, <1>6, <1>1 DEF Holds
  <2>3. blocks'[0].body = [type |-> "header", total |-> Len(saved'.session), pool |-> saved'.pool]
        /\ saved'.session \in Sessions
        /\ \A i \in 1 .. Len(saved'.session) : i \in Addresses => Holds(saved.session, i)'
    BY <1>2, <1>5, <1>6, <1>7, <2>2, <1>1 DEF Holds
  <2> QED
    BY <2>3 DEF SavedThere
<1>9. SnapTypeOK'
  <2>1. saving' \in 0 .. Len(session') + 1 /\ rc' \in {0, -1}
    BY <1>1, <1>3
  <2>2. torn' \in BOOLEAN
    BY <1>1
  <2> QED
    BY <1>1, <1>2, <1>6, <2>1, <2>2 DEF SnapTypeOK
<1>10. g_sequence_number' \in 1 .. MaxSaves + 1
  BY <1>1, <1>2, <1>4, SnapSizes
<1> QED
  BY <1>1, <1>8, <1>9, <1>10 DEF SnapIInv

\* A restore that succeeds brings back the save the store holds, except for what it skips.
LEMMA RestoreOK ==
  ASSUME SnapIInv, NEW skipped \in SUBSET DataBlocks, snapshot_restore(skipped)
  PROVE  /\ SnapIInv'
         /\ rc' = 0 /\ ~torn =>
              /\ Len(session') = Len(saved.session) /\ pool' = saved.pool
              /\ \A i \in 1 .. Len(session') :
                   session'[i] = IF i \in skipped THEN Kept(i) ELSE saved.session[i]
<1>1. saving = 0 /\ UNCHANGED <<blocks, cycles, work, g_snapshot_key, g_sequence_number,
                                saving, saved, torn, overrun>>
  BY DEF snapshot_restore, Idle
<1>2. /\ blocks \in [Addresses -> Sealed \cup {Blank}] /\ session \in Sessions
      /\ g_snapshot_key \in Keys /\ torn \in BOOLEAN
      /\ cycles \in 1 .. MaxCycles /\ work \in 0 .. MaxWork /\ pool \in Pools /\ overrun \in BOOLEAN
      /\ g_sequence_number \in 1 .. MaxSaves + 1
      /\ ~torn => SavedThere
  BY DEF SnapIInv, SnapTypeOK
<1>3. SavedThere' <=> SavedThere
  BY <1>1 DEF SavedThere, Holds
<1>4. ASSUME session' \in Sessions, pool' \in Pools, rc' \in {0, -1}
      PROVE  SnapIInv'
  <2>1. Len(session') \in Nat
    BY <1>4, SessionFacts
  <2>2. SnapTypeOK'
    BY <1>1, <1>2, <1>4, <2>1 DEF SnapTypeOK
  <2>3. \A i \in 1 .. saving' - 1 : i \in Addresses /\ Holds(session, i)'
    BY <1>1
  <2> QED
    BY <1>1, <1>2, <1>3, <2>2, <2>3 DEF SnapIInv
<1>5. CASE /\ HeaderValid /\ SectorsValid
           /\ session' = [i \in 1 .. Total |-> IF i \in skipped THEN Kept(i) ELSE Chunk(blocks[i])]
           /\ pool' = blocks[0].body.pool
           /\ rc' = 0
  <2>1. blocks[0] # Blank /\ blocks[0] \in Sealed /\ blocks[0].body.type = "header"
    BY <1>2, <1>5, SnapSizes DEF HeaderValid, Opens
  <2>2. Total \in Sizes /\ blocks[0].body.pool \in Pools
    BY <2>1, SealedFacts DEF Total
  <2>3. Total \in Nat
    BY <2>2, SnapSizes
  <2>4. \A i \in 1 .. Total : blocks[i] \in Sealed /\ i \in Addresses /\ Opens(blocks[i])
    BY <1>2, <1>5 DEF SectorsValid, Opens
  <2>5. \A i \in 1 .. Total : Chunk(blocks[i]) \in 0 .. MaxWork /\ Kept(i) \in 0 .. MaxWork
    <3>1. Len(session) \in Nat /\ \A i \in 1 .. Len(session) : session[i] \in 0 .. MaxWork
      BY <1>2, SessionFacts
    <3>2. \A i \in 1 .. Total : Kept(i) \in 0 .. MaxWork
      BY <2>3, <3>1, SnapSizes DEF Kept
    <3> QED
      BY <2>4, <3>2, SealedFacts, SnapSizes DEF Chunk
  <2>6. session' \in [1 .. Total -> 0 .. MaxWork]
    BY <1>5, <2>5
  <2>7. session' \in Sessions /\ Len(session') = Total
    BY <2>2, <2>6, SessionMade
  <2>8. pool' \in Pools /\ pool' = blocks[0].body.pool
    BY <1>5, <2>2
  <2>9. SnapIInv'
    BY <1>4, <1>5, <2>7, <2>8
  <2>10. ASSUME ~torn
         PROVE  /\ Len(session') = Len(saved.session) /\ pool' = saved.pool
                /\ \A i \in 1 .. Len(session') :
                     session'[i] = IF i \in skipped THEN Kept(i) ELSE saved.session[i]
    <3>1. /\ blocks[0].body = [type |-> "header", total |-> Len(saved.session), pool |-> saved.pool]
          /\ saved.session \in Sessions
          /\ \A i \in 1 .. Len(saved.session) : i \in Addresses => Holds(saved.session, i)
      BY <1>2, <2>1, <2>10 DEF SavedThere
    <3>2. Total = Len(saved.session) /\ blocks[0].body.pool = saved.pool
      BY <3>1 DEF Total
    <3>3. \A i \in 1 .. Total : Chunk(blocks[i]) = saved.session[i]
      BY <2>4, <3>1, <3>2 DEF Chunk, Holds, Opens
    <3>4. \A i \in 1 .. Total :
            session'[i] = IF i \in skipped THEN Kept(i) ELSE saved.session[i]
      BY <1>5, <3>3
    <3> QED
      BY <2>7, <2>8, <3>2, <3>4
  <2> QED
    BY <2>9, <2>10
<1>6. CASE rc' = -1 /\ UNCHANGED <<session, pool>>
  BY <1>2, <1>4, <1>6
<1> QED
  BY <1>5, <1>6 DEF snapshot_restore

\* snapshot_init clears the key, and the store may lose blocks.
LEMMA SnapshotInitOK == ASSUME SnapIInv, snapshot_init PROVE SnapIInv'
<1>1. /\ saving = 0 /\ g_snapshot_key' = ZeroKey
      /\ UNCHANGED <<cycles, work, session, pool, g_sequence_number, saving, saved, torn, overrun, rc>>
  BY DEF snapshot_init, Idle
<1>2. PICK lost \in SUBSET Addresses : blocks' = Store!Without(lost)
  BY DEF snapshot_init
<1>3. blocks \in [Addresses -> Sealed \cup {Blank}] /\ (~torn => SavedThere)
  BY DEF SnapIInv, SnapTypeOK
<1>4. blocks' \in [Addresses -> Sealed \cup {Blank}]
      /\ \A a \in Addresses : blocks'[a] = blocks[a] \/ blocks'[a] = Blank
  BY <1>2, <1>3 DEF Store!Without
<1>5. ~torn' => SavedThere'
  BY <1>1, <1>3, <1>4, SavedKept
<1>6. SnapTypeOK'
  BY <1>1, <1>4, SnapSizes DEF SnapIInv, SnapTypeOK, ZeroKey, Keys
<1>7. \A i \in 1 .. saving' - 1 : i \in Addresses /\ Holds(session, i)'
  BY <1>1
<1> QED
  BY <1>1, <1>5, <1>6, <1>7 DEF SnapIInv

\* Power is lost, and with it whatever was not stored.
LEMMA PowerCycleOK == ASSUME SnapIInv, PowerCycle PROVE SnapIInv'
<1>1. /\ cycles < MaxCycles /\ cycles' = cycles + 1 /\ g_snapshot_key' = cycles + 1
      /\ g_sequence_number' = 1 /\ saving' = 0 /\ rc' = 0
      /\ pool' \in Pools /\ UNCHANGED <<work, saved, torn, overrun>>
  BY SnapAssumption DEF PowerCycle
<1>2. /\ blocks \in [Addresses -> Sealed \cup {Blank}] /\ torn \in BOOLEAN /\ overrun \in BOOLEAN
      /\ cycles \in 1 .. MaxCycles /\ work \in 0 .. MaxWork
      /\ ~torn => SavedThere
  BY DEF SnapIInv, SnapTypeOK
<1>3. PICK lost \in SUBSET Addresses : blocks' = Store!Without(lost)
  BY DEF PowerCycle
<1>4. blocks' \in [Addresses -> Sealed \cup {Blank}]
      /\ \A a \in Addresses : blocks'[a] = blocks[a] \/ blocks'[a] = Blank
  BY <1>2, <1>3 DEF Store!Without
<1>5. PICK n \in Sizes : session' = [i \in 1 .. n |-> 0]
  BY DEF PowerCycle
<1>6. session' \in Sessions /\ Len(session') = n /\ n \in Nat
  <2>1. session' \in [1 .. n -> 0 .. MaxWork]
    BY <1>5, SnapSizes
  <2> QED
    BY <2>1, SessionMade, SnapSizes
<1>7. ~torn' => SavedThere'
  BY <1>1, <1>2, <1>4, SavedKept
<1>8. cycles' \in 1 .. MaxCycles /\ g_snapshot_key' \in Keys /\ rc' \in {0, -1}
      /\ saving' \in 0 .. Len(session') + 1 /\ g_sequence_number' \in 1 .. MaxSaves + 1
  <2>1. cycles + 1 \in 1 .. MaxCycles
    BY <1>1, <1>2, SnapSizes
  <2> QED
    BY <1>1, <1>6, <2>1, SnapSizes DEF Keys
<1>9. SnapTypeOK'
  BY <1>1, <1>2, <1>4, <1>6, <1>8 DEF SnapTypeOK
<1>10. \A i \in 1 .. saving' - 1 : i \in Addresses /\ Holds(session, i)'
  BY <1>1
<1> QED
  BY <1>1, <1>7, <1>8, <1>9, <1>10 DEF SnapIInv

\* The steps that write no block.
LEMMA QuietOK == ASSUME SnapIInv, Work \/ SaveBegin PROVE SnapIInv'
<1>1. /\ saving = 0 /\ UNCHANGED <<blocks, cycles, g_sequence_number, saved>>
  BY DEF Work, SaveBegin, Idle
<1>2. /\ blocks \in [Addresses -> Sealed \cup {Blank}] /\ session \in Sessions
      /\ g_snapshot_key \in Keys /\ rc \in {0, -1} /\ torn \in BOOLEAN
      /\ cycles \in 1 .. MaxCycles /\ work \in 0 .. MaxWork /\ pool \in Pools /\ overrun \in BOOLEAN
      /\ g_sequence_number \in 1 .. MaxSaves + 1
      /\ ~torn => SavedThere
  BY DEF SnapIInv, SnapTypeOK
<1>3. SavedThere' <=> SavedThere
  BY <1>1 DEF SavedThere, Holds
<1>4. Len(session) \in Nat /\ Len(session) > 0
  BY <1>2, SessionFacts
<1>5. CASE Work
  <2>1. /\ work < MaxWork /\ work' = work + 1 /\ pool' \in Pools
        /\ UNCHANGED <<g_snapshot_key, saving, torn, overrun, rc>>
    BY <1>5 DEF Work
  <2>2. PICK n \in Sizes : session' = [i \in 1 .. n |-> work + 1]
    BY <1>5 DEF Work
  <2>3. session' \in [1 .. n -> 0 .. MaxWork] /\ work' \in 0 .. MaxWork
    BY <1>2, <2>1, <2>2, SnapSizes
  <2>4. session' \in Sessions /\ Len(session') = n /\ n \in Nat
    BY <2>3, SessionMade, SnapSizes
  <2>5. saving' \in 0 .. Len(session') + 1
    BY <1>1, <2>1, <2>4
  <2>6. SnapTypeOK'
    BY <1>1, <1>2, <2>1, <2>3, <2>4, <2>5 DEF SnapTypeOK
  <2> QED
    BY <1>1, <1>2, <1>3, <2>1, <2>6 DEF SnapIInv
<1>6. CASE SaveBegin
  <2>1. /\ UNCHANGED <<work, session, pool, g_snapshot_key>> /\ g_sequence_number <= MaxSaves
        /\ \/ saving' = 1 /\ torn' = TRUE /\ UNCHANGED <<overrun, rc>>
           \/ overrun' = TRUE /\ UNCHANGED <<saving, torn, rc>>
           \/ rc' = -1 /\ UNCHANGED <<saving, torn, overrun>>
    BY <1>6 DEF SaveBegin
  <2>2. saving' \in {0, 1} /\ rc' \in {0, -1}
    BY <1>1, <1>2, <2>1
  <2>3. torn' \in BOOLEAN /\ overrun' \in BOOLEAN
    BY <1>2, <2>1
  <2>4. saving' \in 0 .. Len(session') + 1
    BY <1>4, <2>1, <2>2
  <2>5. SnapTypeOK'
    BY <1>1, <1>2, <2>1, <2>2, <2>3, <2>4 DEF SnapTypeOK
  <2>6. \A i \in 1 .. saving' - 1 : i \in Addresses /\ Holds(session, i)'
    <3>1. saving' = 0 \/ saving' = 1
      BY <1>1, <2>1
    <3>2. ~\E i \in 1 .. saving' - 1 : TRUE
      BY <3>1
    <3> QED
      BY <3>2
  <2>7. saving' # 0 => torn'
    BY <1>1, <2>1
  <2>8. ~torn' => SavedThere'
    BY <1>2, <1>3, <2>1
  <2> QED
    BY <1>1, <1>2, <2>1, <2>5, <2>6, <2>7, <2>8 DEF SnapIInv
<1> QED
  BY <1>5, <1>6

\* Every step keeps the invariant.
LEMMA SnapStep == SnapIInv /\ [SnapNext]_snapVars => SnapIInv'
<1>1. ASSUME SnapIInv, UNCHANGED snapVars PROVE SnapIInv'
  BY <1>1 DEF snapVars, SnapIInv, SnapTypeOK, SavedThere, Holds
<1> QED
  BY <1>1, SnapshotInitOK, QuietOK, SaveSectorOK, CommitOK, RestoreOK, PowerCycleOK DEF SnapNext

\* A restore that succeeds, with no save begun since the last complete one, returns the
\* session that was saved but for the parts it skips, which stay as they were, through any
\* number of power cycles, lost blocks and calls of snapshot_init, while the store is not
\* broken and no session outgrows the buffer (snapshot_save and snapshot_restore in
\* snapshot.c).
THEOREM SnapshotCleanRestore == SnapSpec => CleanRestore
<1>1. SnapIInv /\ [SnapNext]_snapVars
        => \/ UNCHANGED snapVars
           \/ /\ SnapTypeOK'
              /\ \A skipped \in SUBSET DataBlocks :
                   rc' = 0 /\ ~torn /\ snapshot_restore(skipped) =>
                     /\ Len(session') = Len(saved.session) /\ pool' = saved.pool
                     /\ \A i \in 1 .. Len(session') :
                          session'[i] = IF i \in skipped THEN Kept(i) ELSE saved.session[i]
  BY SnapStep, RestoreOK DEF SnapIInv
<1> QED
  BY <1>1, SnapInitOK, SnapStep, PTL DEF SnapSpec, CleanRestore
=============================================================================
