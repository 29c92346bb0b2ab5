-------------------------------- MODULE Vault --------------------------------
(***************************************************************************)
(* The encrypted USB volume across power cycles: sector access with XTS    *)
(* and integrity check (usb_msc.c, integrity.c, merkle.c), the attempt     *)
(* counter on the medium (auth_counter.c), pre-boot authentication         *)
(* (auth.c, fido2.c) and the self-destruct sequence (destruct.c), in the   *)
(* order in which kernel/main.c runs them at boot.                         *)
(*                                                                         *)
(* A sector is what was written and the key it was written under.  Reading *)
(* it back under anything else gives Noise.  A leaf hash is the content it *)
(* is the hash of; ZeroHash, the initial table, is the hash of nothing.    *)
(***************************************************************************)
EXTENDS Integers, FiniteSets, Sequences

CONSTANTS
  Lbas,              \* sectors of the medium
  AUTH_COUNTER_LBA,
  WipeList,          \* sectors destruct_trigger overwrites, in order
  Covered,           \* sectors with a leaf, those below MERKLE_MAX_SECTORS
  Data,              \* what callers store
  AUTH_COUNTER_MAX,
  Machines,          \* machines the medium is plugged into, by CPUID fingerprint
  MaxBoots,          \* bound: power cycles
  HidDriver,         \* usb_hid_init can find a token; FALSE is the stub
  IOErrors           \* media: FALSE is a sound one, TRUE one whose transfers may fail

Noise == <<"noise", 0>>
Zeroes == <<"zeroes", 0>>
ZeroHash == <<"no hash", 0>>
NoKey == 0

\* A counter sector with the magic, the count n and the MAC of machine m.
Counter(m, n) == <<"counter", m, n>>
Counts == 0 .. AUTH_COUNTER_MAX

ASSUME VaultAssumption ==
  /\ AUTH_COUNTER_LBA \in Lbas /\ Covered \subseteq Lbas
  /\ WipeList \in Seq(Lbas) /\ WipeList # <<>>
  /\ AUTH_COUNTER_MAX \in Nat \ {0} /\ MaxBoots \in Nat
  /\ HidDriver \in BOOLEAN /\ IOErrors \subseteq BOOLEAN
  /\ \A d \in Data : /\ d \notin {Noise, Zeroes, ZeroHash}
                    /\ \A m \in Machines, n \in Counts : d # Counter(m, n)

VARIABLES
  io_errors,             \* transfers of the medium in use may fail
  machine,               \* the machine the medium is in
  disk,                  \* the medium: content and key of every sector
  boots,                 \* power cycles so far
  phase,                 \* how far the boot is
  g_sector_cnt,          \* 1 once usb_msc_init has found the medium, else 0
  g_encryption_enabled,
  g_xts_ctx,             \* key of the XTS context, NoKey before it is set
  g_auth_derived_key,    \* its copy for other users
  g_leaves,              \* leaf hash of every sector
  g_count,               \* failed attempts
  fido2_ok,              \* result of the assertion
  wipe,                  \* pass and position of the wipe
  got                    \* result of the last read: sector and content

vaultVars == <<io_errors, machine, disk, boots, phase, g_sector_cnt, g_encryption_enabled, g_xts_ctx,
               g_auth_derived_key, g_leaves, g_count, fido2_ok, wipe, got>>

keyVars == <<io_errors, machine, g_encryption_enabled, g_xts_ctx, g_auth_derived_key>>

Phases == {"off", "boot", "usb", "auth", "judged", "open", "running", "wiping", "halted"}

Contents == Data \cup {Noise, Zeroes} \cup {Counter(m, n) : m \in Machines, n \in Counts}

NoRead == <<"none", Noise>>

VaultInit ==
  /\ io_errors \in IOErrors /\ machine \in Machines
  /\ disk \in [Lbas -> {[key |-> NoKey, data |-> d] : d \in Data}]
  /\ boots = 0 /\ phase = "off" /\ g_sector_cnt = 0
  /\ g_encryption_enabled = FALSE
  /\ g_xts_ctx = NoKey /\ g_auth_derived_key = NoKey
  /\ g_leaves = [a \in Covered |-> ZeroHash]
  /\ g_count = 0 /\ fido2_ok = FALSE /\ wipe = <<0, 0>> /\ got = NoRead

----------------------------------------------------------------------------
(* Sector access.                                                           *)

Outcomes == IF io_errors THEN {"ok", "failed"} ELSE {"ok"}

\* What a read of sector a returns under key k (NoKey: raw).
Decrypted(a, k) == IF disk[a].key = k THEN disk[a].data ELSE Noise

\* The medium after usb_msc_write_sector(a, d) under key k; a failed
\* transfer leaves the sector alone, and no caller looks at the result.
usb_msc_write_sector(a, d, k, rc) ==
  IF rc = "ok" THEN [disk EXCEPT ![a] = [key |-> k, data |-> d]] ELSE disk

\* The key a transfer uses now.
CurrentKey == IF g_encryption_enabled THEN g_xts_ctx ELSE NoKey

\* merkle_init clears the table, and loads it only from a medium that is
\* known already: at boot usb_msc_sector_count() is still 0.
merkle_init == [a \in Covered |-> ZeroHash]

merkle_verify(a, d) == a \in Covered => g_leaves[a] = d

----------------------------------------------------------------------------
(* Boot.                                                                    *)

\* RAM starts empty; the integrity tree is built before the medium is found.
PowerOn ==
  /\ phase = "off" /\ boots < MaxBoots
  /\ boots' = boots + 1
  /\ g_leaves' = merkle_init
  /\ phase' = "boot"
  /\ UNCHANGED <<disk, g_sector_cnt, keyVars, g_count, fido2_ok, wipe, got>>

\* xhci_init and usb_msc_init.
usb_msc_init ==
  /\ phase = "boot"
  /\ g_sector_cnt' \in {0, 1}
  /\ phase' = "usb"
  /\ UNCHANGED <<disk, boots, keyVars, g_leaves, g_count, fido2_ok, wipe, got>>

\* A sector with the magic, whoever wrote it.
HasMagic(c) == \E m \in Machines, n \in Counts : c = Counter(m, n)

\* What counter_read returns, raw sector c given: a count under another machine's
\* MAC is taken for tampering, and for the limit.
CounterValue(c) ==
  IF ~HasMagic(c) THEN 0 ELSE IF c[2] = machine THEN c[3] ELSE AUTH_COUNTER_MAX

\* Mutant: the sector is written afresh at every boot.
AlwaysFresh ==
  /\ phase = "usb"
  /\ \/ /\ g_sector_cnt = 0
        /\ g_count' = 0
        /\ UNCHANGED disk
     \/ /\ g_sector_cnt > 0
        /\ g_count' = 0
        /\ disk' = usb_msc_write_sector(AUTH_COUNTER_LBA, Counter(machine, 0), NoKey, "ok")
  /\ phase' = IF g_count' >= AUTH_COUNTER_MAX THEN "wiping" ELSE "auth"
  /\ wipe' = <<1, 1>>
  /\ UNCHANGED <<boots, g_sector_cnt, keyVars, g_leaves, fido2_ok, got>>

\* auth_counter_init, and the lockout test of auth_preboot.  A failed read
\* counts as no attempt; a sector without the magic is written afresh.
auth_counter_init ==
  /\ phase = "usb"
  /\ \/ /\ g_sector_cnt = 0
        /\ g_count' = 0
        /\ UNCHANGED disk
     \/ /\ g_sector_cnt > 0 /\ "failed" \in Outcomes
        /\ g_count' = 0
        /\ UNCHANGED disk
     \/ LET c == Decrypted(AUTH_COUNTER_LBA, NoKey) IN
        /\ g_sector_cnt > 0
        /\ g_count' = CounterValue(c)
        /\ \/ HasMagic(c) /\ UNCHANGED disk
           \/ /\ ~HasMagic(c)
              /\ \E rc \in Outcomes :
                   disk' = usb_msc_write_sector(AUTH_COUNTER_LBA, Counter(machine, 0), NoKey, rc)
  /\ phase' = IF g_count' >= AUTH_COUNTER_MAX THEN "wiping" ELSE "auth"
  /\ wipe' = <<1, 1>>
  /\ UNCHANGED <<boots, g_sector_cnt, keyVars, g_leaves, fido2_ok, got>>

\* A password is typed and the token touched.  Without a token the emulated
\* assertion always succeeds; a token can be gone when it is asked.
Assertion ==
  /\ phase = "auth"
  /\ fido2_ok' \in (IF HidDriver THEN BOOLEAN ELSE {TRUE})
  /\ phase' = "judged"
  /\ UNCHANGED <<disk, boots, g_sector_cnt, keyVars, g_leaves, g_count, wipe, got>>

\* Mutant: the count is written before it is incremented.
WritesOldCount ==
  /\ phase = "judged" /\ ~fido2_ok
  /\ g_count' = g_count + 1
  /\ \/ /\ g_sector_cnt > 0
        /\ disk' = usb_msc_write_sector(AUTH_COUNTER_LBA, Counter(machine, g_count), CurrentKey, "ok")
     \/ /\ g_sector_cnt = 0
        /\ UNCHANGED disk
  /\ phase' = IF g_count' >= AUTH_COUNTER_MAX THEN "wiping" ELSE "auth"
  /\ wipe' = <<1, 1>>
  /\ UNCHANGED <<boots, g_sector_cnt, keyVars, g_leaves, fido2_ok, got>>

\* auth_counter_increment after a failed assertion, and the lockout.
auth_counter_increment ==
  /\ phase = "judged" /\ ~fido2_ok
  /\ g_count' = g_count + 1
  /\ \/ /\ g_sector_cnt > 0
        /\ \E rc \in Outcomes :
             disk' = usb_msc_write_sector(AUTH_COUNTER_LBA, Counter(machine, g_count'), CurrentKey, rc)
     \/ /\ g_sector_cnt = 0
        /\ UNCHANGED disk
  /\ phase' = IF g_count' >= AUTH_COUNTER_MAX THEN "wiping" ELSE "auth"
  /\ wipe' = <<1, 1>>
  /\ UNCHANGED <<boots, g_sector_cnt, keyVars, g_leaves, fido2_ok, got>>

\* Success: the key is derived from the password and the assertion, which
\* answers a challenge drawn afresh at every boot; encryption is switched on
\* and then the counter is reset.
Granted ==
  /\ phase = "judged" /\ fido2_ok
  /\ g_xts_ctx' = boots /\ g_auth_derived_key' = boots
  /\ g_encryption_enabled' = TRUE
  /\ g_count' = 0
  /\ \/ /\ g_sector_cnt > 0
        /\ \E rc \in Outcomes :
             disk' = usb_msc_write_sector(AUTH_COUNTER_LBA, Counter(machine, 0), g_xts_ctx', rc)
     \/ /\ g_sector_cnt = 0
        /\ UNCHANGED disk
  /\ phase' = "open"
  /\ UNCHANGED <<io_errors, machine, boots, g_sector_cnt, g_leaves, fido2_ok, wipe, got>>

\* usb_msc_read_sector with encryption on: what is read must hash to the
\* leaf, or the self-destruct sequence starts.
Read(a) ==
  /\ phase = "open" /\ g_sector_cnt > 0
  /\ LET d == Decrypted(a, CurrentKey) IN
     /\ got' = <<a, d>>
     /\ phase' = IF merkle_verify(a, d) THEN "open" ELSE "wiping"
  /\ wipe' = <<1, 1>>
  /\ UNCHANGED <<disk, boots, g_sector_cnt, keyVars, g_leaves, g_count, fido2_ok>>

\* usb_msc_write_sector with encryption on (M9 test); the leaf is not updated.
Write(a, d) ==
  /\ phase = "open" /\ g_sector_cnt > 0
  /\ \E rc \in Outcomes : disk' = usb_msc_write_sector(a, d, CurrentKey, rc)
  /\ UNCHANGED <<boots, phase, g_sector_cnt, keyVars, g_leaves, g_count, fido2_ok, wipe, got>>

\* The boot menu was left alone: encryption is off from here on.
StandardBoot ==
  /\ phase = "open"
  /\ g_encryption_enabled' = FALSE
  /\ phase' = "running"
  /\ UNCHANGED <<io_errors, machine, disk, boots, g_sector_cnt, g_xts_ctx, g_auth_derived_key,
                 g_leaves, g_count, fido2_ok, wipe, got>>

\* SYS_EMERGENCY_WIPE of a user task, or the shell's wipe command.
EmergencyWipe ==
  /\ phase \in {"open", "running"}
  /\ phase' = "wiping" /\ wipe' = <<1, 1>>
  /\ UNCHANGED <<disk, boots, g_sector_cnt, keyVars, g_leaves, g_count, fido2_ok, got>>

----------------------------------------------------------------------------
(* destruct_trigger: three passes, one sector at a time, all raw.           *)

\* Mutant: the passes end with the zeroes.
ZeroesLast(p) == IF p = 3 THEN Zeroes ELSE Noise

PassData(p) == IF p = 2 THEN Zeroes ELSE Noise

\* Mutant: the position is reset and the pass is not advanced.
SamePass ==
  /\ phase = "wiping" /\ wipe[1] <= 3
  /\ wipe' = IF wipe[2] < Len(WipeList) THEN <<wipe[1], wipe[2] + 1>> ELSE <<wipe[1], 1>>
  /\ UNCHANGED <<disk, boots, phase, g_sector_cnt, keyVars, g_leaves, g_count, fido2_ok, got>>

WipeSector ==
  /\ phase = "wiping" /\ wipe[1] <= 3
  /\ \/ /\ g_sector_cnt > 0
        /\ \E rc \in Outcomes :
             disk' = usb_msc_write_sector(WipeList[wipe[2]], PassData(wipe[1]), NoKey, rc)
     \/ /\ g_sector_cnt = 0
        /\ UNCHANGED disk
  /\ wipe' = IF wipe[2] < Len(WipeList) THEN <<wipe[1], wipe[2] + 1>> ELSE <<wipe[1] + 1, 1>>
  /\ UNCHANGED <<boots, phase, g_sector_cnt, keyVars, g_leaves, g_count, fido2_ok, got>>

\* The exported key is zeroed and the processor halts; the XTS context keeps its
\* key, and with it the way to what the wipe has not overwritten.
Halt ==
  /\ phase = "wiping" /\ wipe[1] > 3
  /\ g_auth_derived_key' = NoKey
  /\ phase' = "halted"
  /\ UNCHANGED <<io_errors, machine, disk, boots, g_sector_cnt, g_encryption_enabled, g_xts_ctx,
                 g_leaves, g_count, fido2_ok, wipe, got>>

\* Power is cut at any point; RAM is lost, and the medium may go to another machine.
PowerOff ==
  /\ phase # "off"
  /\ phase' = "off"
  /\ g_sector_cnt' = 0 /\ g_encryption_enabled' = FALSE
  /\ g_xts_ctx' = NoKey /\ g_auth_derived_key' = NoKey
  /\ g_leaves' = merkle_init
  /\ g_count' = 0 /\ fido2_ok' = FALSE /\ wipe' = <<0, 0>> /\ got' = NoRead
  /\ machine' \in Machines
  /\ UNCHANGED <<io_errors, disk, boots>>

VaultNext ==
  \/ PowerOn \/ usb_msc_init \/ auth_counter_init \/ Assertion
  \/ auth_counter_increment \/ Granted
  \/ \E a \in Lbas : Read(a) \/ \E d \in Data : Write(a, d)
  \/ StandardBoot \/ EmergencyWipe \/ WipeSector \/ Halt \/ PowerOff

VaultSpec == VaultInit /\ [][VaultNext]_vaultVars

----------------------------------------------------------------------------
(* Properties.                                                              *)

VaultKeys == 0 .. MaxBoots

\* Every variable has its type.
VaultTypeOK ==
  /\ disk \in [Lbas -> [key : VaultKeys, data : Contents]]
  /\ machine \in Machines /\ boots \in 0 .. MaxBoots /\ phase \in Phases /\ g_sector_cnt \in {0, 1}
  /\ g_encryption_enabled \in BOOLEAN
  /\ g_xts_ctx \in VaultKeys /\ g_auth_derived_key \in VaultKeys /\ io_errors \in BOOLEAN
  /\ g_leaves \in [Covered -> Contents \cup {ZeroHash}]
  /\ g_count \in Counts /\ fido2_ok \in BOOLEAN
  /\ wipe \in (0 .. 4) \X (0 .. Len(WipeList))
  /\ got \in (Lbas \cup {"none"}) \X Contents

RawCounter(m, n) == [key |-> NoKey, data |-> Counter(m, n)]

\* On a sound medium, while attempts are taken the sector holds, in the clear and
\* under this machine's MAC, the count that is in RAM: cutting the power between two
\* attempts forgets none.
CounterDurable ==
  phase \in {"auth", "judged"} /\ g_sector_cnt > 0 /\ ~io_errors
  => disk[AUTH_COUNTER_LBA] = RawCounter(machine, g_count)

\* After an undisturbed self-destruct every sector of the key zone holds the
\* noise of the last pass, and the exported key is gone from RAM.  The key in the
\* XTS context is not.
WipeComplete ==
  phase = "halted" /\ g_sector_cnt > 0 /\ ~io_errors
  => /\ \A i \in DOMAIN WipeList : disk[WipeList[i]] = [key |-> NoKey, data |-> Noise]
     /\ g_auth_derived_key = NoKey

\* The counter in RAM and the one on the medium agree whenever it matters
\* (auth_counter_init, auth_counter_increment), and the self-destruct leaves no data
\* in the sectors of the key zone and no key in g_auth_derived_key
\* (destruct_trigger).  It is silent on the other copies of keys in RAM.
VaultInv == VaultTypeOK /\ CounterDurable /\ WipeComplete

\* A recorded count is only ever replaced by the next one, by a successful
\* authentication (and what runs after it) or by the wipe, over any number of
\* power cycles, and whichever machines the medium is plugged into: the count of
\* another machine is never written over, it locks this one out.
CounterNeverDrops ==
  [][\A m \in Machines, n \in Counts :
       /\ ~io_errors
       /\ disk[AUTH_COUNTER_LBA] = RawCounter(m, n)
       /\ disk'[AUTH_COUNTER_LBA] # RawCounter(m, n)
       => \/ disk'[AUTH_COUNTER_LBA] = RawCounter(m, n + 1)
          \/ phase' = "open" \/ phase = "wiping"]_vaultVars

\* A self-destruct that has begun ends in hlt unless the power is cut; failed
\* transfers do not hold it up.
WipeEnds == phase = "wiping" ~> phase \in {"halted", "off"}

\* A sector written under the key in use reads back without an alarm
\* (merkle.h: "Updated on every write. Verified on every read.").
ReadsBack ==
  [][\A a \in Lbas : Read(a) /\ disk[a].key = CurrentKey => phase' = "open"]_vaultVars
=============================================================================
