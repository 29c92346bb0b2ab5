# A verification project for StyxOS

StyxOS is a small x86-64 microkernel: one processor, capabilities and
synchronous message passing, a round-robin scheduler, and on top of these a USB
stick that carries an encrypted, integrity-checked session, an oblivious block
store, snapshots, pre-boot authentication with a self-destruct sequence, and a
network side with an e1000 driver, a TCP engine and an onion-routing layer.
This directory holds TLA+ models of those parts, the TLC configurations that
check them on small instances and TLAPS proofs that hold for every value of the
constants, of the core and of most components of the layers around it.
Every definition is translated from the code; `PROJECT.json` gives for each one
the lines it stands for.

    tlc -workers 2 -config MCCap.cfg MCCap       # one run
    tlapm Cap_proofs.tla                         # the proofs of one module

Contents: 1 how the code executes - 2 inventory - 3 modules - 4 runs and bounds -
5 where code and documentation disagree - 6 fairness and deadlock - 7 proofs -
8 what is only model-checked - 9 what is not modelled - 10 plan.

## 1 How the code executes, and what is atomic

Atomicity is where a model of a kernel is most easily wrong, so the rules come first.

- There is one processor. A system call enters with interrupts off (the
  `syscall` flag mask clears IF) and stays so: a call is atomic up to a
  `task_switch` inside it. The timer preempts only ring-3 code and the idle loop.
- The timer handler (`irq.c`, `sched_tick`) runs with interrupts off as well, and
  may switch tasks *inside* the handler. The end-of-interrupt command is sent after
  the handler returns, which is when the preempted task runs again.
- The boot code after `sti` (main.c:439), the milestone tests it runs from the boot
  menu and `shell_run` execute with interrupts **on**. There the keyboard and the
  timer interrupt any statement, which is what makes the key ring, the network
  transmit ring and the circuit state concurrent.
- Devices (USB controller, network controller) run beside the processor all the time.
- Power may fail between any two sector writes.

## 2 Inventory

| part | state it keeps | operations | hard behaviour | what makes it correct |
|---|---|---|---|---|
| capabilities (`cap.c`) | per-task slot tables, global endpoint pool with generations, parked party and buffer per endpoint | create, derive, revoke, free, send, recv | revocation by generation while slots, and parked buffers, refer to the endpoint | a revoked right never works again; rights only shrink; an endpoint's state agrees with what is parked on it |
| scheduler (`sched.c`, `irq.c`, `pit.c`, `task_switch.asm`) | queue, index, quantum, task states, interrupt in service | add, start, tick, yield, block, unblock, exit | switching in the middle of an interrupt; state overwritten by the yield that follows | one running task; nobody skipped; the timer is acknowledged |
| system calls (`syscall.c`) | none of its own | send, recv, yield, exit; keys, cells, sockets behind their own modules | a task suspended inside a call whose buffer is parked on an endpoint | buffers are used only in their owner's address space; a parked task waits |
| physical frames (`pmm.c`) | bitmap, hint, free counter | init from the memory map, alloc, free | overlapping and unaligned map entries | no frame owned twice, counter exact |
| heap (`heap.c`) | list of blocks with magic words | init, kmalloc, kfree, grow, merge, split | growth in the middle of an allocation | blocks tile the heap, callers own disjoint blocks |
| page tables (`vmm.c`) | tables in frames, the active root | map, unmap, translate, new space | running out of frames in the middle of a walk | one map per space, shared kernel half, no table reachable from ring 3 |
| loader (`task.c`, `elf.c`, `main.c`) | task slots, memory of a task | create, load from USB, embedded fallback | every allocation may fail | error paths undo what they did, the image is in memory exactly if its headers were read and its sums do not wrap |
| USB storage, Merkle tree, AES layer (`usb_msc.c`, `merkle.c`) | sectors, leaf table, key | read, write, verify | order of initialisation; failing transfers | what is written reads back |
| authentication and self-destruct (`auth*.c`, `destruct.c`) | attempt counter on the medium and in RAM, key | attempt, count, lock out, wipe | a power cut between any two sector writes | the counter never falls, on whichever machine; a started wipe ends and covers its list |
| oblivious storage (`oram.c`) | tree of buckets, position map, stash | access, evict, load and save the map | eviction with a full stash; a cut in the middle of a path | an array of blocks to its users; every stored block on the path the map names |
| snapshots (`snapshot.c`) | sealed blocks, header, sequence number | save, restore | a save that stops part way | a restore gives back one saved session |
| xHCI (`xhci.c`) | command, transfer, event rings with cycle bits | enqueue, poll, wait, enumerate, bulk | events left over from earlier transfers; waits that give up | rings are queues; a result belongs to the request |
| keyboard, shell, screen (`keyboard.c`, `shell.c`, `fb_shell.c`) | key ring, line buffer, cursor and cells | interrupt, getchar, edit, scroll | unlocked ring between interrupt and reader | keys arrive in order; the screen shows the line |
| network driver (`e1000.c`) | transmit and receive rings | send, receive, disable | a send from the timer inside a send | packets go out once, in order |
| onion circuit and padding (`tor.c`, `padding.c`) | keys, nonce counter, rotation and padding ticks, boost | cell, rotate, tick, dead reckoning | rotation by timer against use by a call; width of the tick field | no key and nonce pair is used twice; keys are young; padding pauses only for packets the interface refuses |
| TCP and frames (`tcp.c`, `net_proto.c`) | sockets, port counter, sequence numbers | create, connect, send, close, checksum | wrap of ports and sequence numbers; a refused packet | no two frames share a sequence number; a port names one socket |
| boot path and processor tables (`main.c`, `gdt.c`, `tss.c`, `idt.c`, `isr.c`, `irq.c`) | how far the boot is, descriptors, gates, interrupt mask, `STAR` | the calls of `_start`, the boot menu, exceptions and interrupts | interrupts are on while the parts their handlers call are being built; gates copy the segment in force | the processor can always go on; ring 3 is reached only through attestation, self-test and authentication |
| entering and leaving the kernel (`syscall.asm`, `irq.asm`, `task.asm`) | kernel stacks, saved registers, `tss.rsp0`, one scratch variable for all tasks | syscall, interrupt, switch, trampoline, sysret, iretq | a switch in the middle of a call or of an interrupt | each task goes on as itself, on its own stack and in its own address space |
| FAT32 and VFS (`fat32.c`, `vfs.c`) | what the boot sector said, the node of a file | mount, open, read | failing reads, broken and cyclic cluster chains | a file's bytes in order, the first live entry of that name, calls that end |
| TPM attestation (`tpm.c`, `tpm_tis.c`) | the kernel's copy of the PCRs, place in a command | init, measure, read, quote, verify | answers that come late, never or in part | a success is the answer to this command; the verdict comes if answers end, and rests on this boot's measurements or an answer that holds them |
| ciphers and hashes (`aes.c`, `gcm.c`, `xts.c`, `crypto.c`, `chacha20.c`) | none between calls | encrypt, decrypt, digest, derive | carries, padding, table entries that few inputs reach | what the standards define, and undone by the inverse |
| PCI, serial, framebuffer, MAC randomisation, random numbers, user programs | see section 9 | | | |

How they interact: system calls call the capability engine and the scheduler (composed in `Kernel`); the loader
uses frames, heap, page tables, and files of the FAT32 volume on the USB stick; the boot path waits
for the TPM and for authentication; the scheduler relies on the crossings in `Context`; snapshots use the oblivious
store (composed through `BlockStore`, its abstract specification), which uses sectors;
TCP, onion layer and padding send through the network driver, from calls and
from the timer; all waiting on USB goes through the xHCI rings.

`PROJECT.json` lists, under `hazards`, each place where this goes wrong in
an order nobody would write a test for, with the properties that guard it.

## 3 Modules

| module | models | correspondence |
|---|---|---|
| `CapAuthority` | what the capability engine promises | rights per (table, slot, object): minted once, attenuated, dropped, revoked |
| `Cap` | `cap.c`, `cap.h` | `slots` = every `cap_table_t`, `endpoints` and `ep_pool_used` = the pool; one action per `cap_*` function, each with all its error returns |
| `Sched` | `sched.c`, `task.c` states, `irq.c`, `pit.c` | `run_queue`, `current_idx`, `ticks`, `state` as in the code; `ctx` says in which call a task is suspended, and so stands for its kernel stack; `in_service` is the interrupt controller's bit (external) |
| `Kernel` | `syscall.c` and `cap_send`/`cap_recv` blocking | composes `Cap` and `Sched` by `INSTANCE`; every call is one action up to its switch |
| `Boot` | `_start` in `main.c`, `gdt.c`, `tss.c`, `idt.c`, `isr.c`, `irq.c`, `pit.c`, `syscall_init` | `at` counts the calls made; tables hold kinds of descriptors; an exception may come at any time, an interrupt when it is let through; the processor's rules (`Served`, `SyscallInsn`, `SysretInsn`) are external |
| `Context` | `syscall.asm`, `irq.asm`, `task.asm`, `tss.c` | a kernel stack is the sequence of frames on it, user registers are one value; `shadow` remembers what each program last had |
| `TPM` | `tpm_tis.c`, `tpm.c` | one action per wait of `tpm_tis_send_cmd`; the TPM is external and of three manners, as its standard leaves room for, or absent, with a bus that reads as zeroes or as ones; a PCR is read through `Window`, the bytes the code copies |
| `FAT32` | `fat32.c`, `vfs.c` | one action per sector read; a cell of a sector can be read as FAT entry, directory entry or contents, as the code's one buffer is |
| `AES`, `GCM`, `XTS`, `SHA512`, `ChaCha` | the primitives | real sizes, one step per round or block, beside definitions by polynomials, primes and padding rules that share nothing with the code |
| `HKDF` | `hmac_sha512`, `hkdf_sha512_*` | the hash is a free function, so that equal results mean equal inputs; small blocks |
| `Crypto` | the primitives side by side | |
| `PMM` | `pmm.c` | bitmap bits, byte addresses of the map entries, alignment and the bitmap's own place |
| `Heap` | `heap.c` | the block list as a sequence of (address, size, free); `used_magic` holds the addresses where the magic word of a block in use is found |
| `Spaces`, `VMM` | abstract address spaces; `vmm.c` and its callers | tables are frames whose entries are values; walks over `LEVELS` levels; `elf_load` may load any page of `LoadPages` |
| `Loader` | `task.c` creation, `elf.c`, main.c:788-818 | every allocation draws on finite rooms, every error path; addresses and offsets wrap at `WORD`; `headers` and `behind` say what `elf_load` reads when the file ends before its program headers |
| `Vault` | `usb_msc.c`, `merkle.c`, `auth*.c`, `destruct.c` | sectors hold abstract contents (counter value under a machine's MAC, ciphertext under a key, noise); RAM is lost at power-off, and the medium may then go to another machine |
| `BlockStore`, `ORAM` | an array of blocks; `oram.c` | tree, position map, stash; one action per access, power cuts between and inside accesses; `broken` is set when a transfer fails, an access is cut short, or one comes with encryption on or before `oram_init`; `intact` follows the last four bytes of a block |
| `Snapshot` | `snapshot.c`, pool import and export | sealed sectors with sequence numbers over `BlockStore`, while it is not broken; a buffer of `BUFFER` sectors; a restore that may skip sectors |
| `XHCI` | `xhci.c` | rings with cycle bits on both sides; the controller's consumption is external |
| `KeyQueue`, `Console` | a queue of characters; `keyboard.c`, `shell.c`, `fb_shell.c` | ring indices as the code has them; the screen as rows of cells |
| `NIC` | `e1000.c`, `padding.c` sending | a sender with interrupts on is split into its steps, a sender in the timer interrupt is one; `overlapped` remembers whether the second came inside the first; the controller is external |
| `Tor` | `tor.c`, `padding.c` | ticks, keys as numbers, `WIDTH` for the 32 bits of `last_rotation_ticks`; the interface takes or refuses each padding packet |
| `NetProto`, `TCP` | `net_proto.c` checksum; `tcp.c` | the checksum as arithmetic on digits of base `BYTE`; sockets, ports, sequence numbers modulo `SEQ`; each frame built has a number of its own |

`Cap_proofs`, `Sched_proofs` and `Kernel_proofs` hold the theorems about the core; `Boot_proofs` (`Boot`, `Context`, `TPM`, `FAT32`),
`Memory_proofs` (`PMM`, `Heap`, `VMM`, `Loader`), `Storage_proofs` (`Vault`, `ORAM`, `Snapshot`), `Devices_proofs` (`Console`, `XHCI`) and `Net_proofs`
(`NIC`, `Tor`, `TCP`, `NetProto`) those of one layer each.

`MCCap` and `MCKernel` instantiate the core for TLC. `MCBoot`, `MCMemory`,
`MCStorage`, `MCDevices` and `MCNet` each put the modules of one layer into one instance: the parts of a layer need
each other only through what their own modules or abstract specifications (`Spaces`, `BlockStore`) say, so a variable
`part`, chosen in the initial state, says which one takes steps while the others rest in a fixed state. Such a
run explores exactly the union of the parts' state spaces.

Each module ends with its properties. What must hold in every state is a conjunction of named parts,
`ContextInv == ContextTypeOK /\ RunsAsItself /\ FramesKept /\ BootStackBounded /\ EntersOnce` and likewise for the other components; properties
about steps, about time and about refinement stand alone. A conjunction has one or more mutated forms, aimed at its deeper
parts.

Operators whose names describe a slip (a dropped guard, an off-by-one) sit in the
modules before the definition they vary; they are the mutated forms that show a property can fail.

Abstractions common to all modules: messages, sectors, packets and keys are
values of small sets; in `Vault`, `Snapshot` and `Tor` cryptography is perfect (a ciphertext opens only
under its key and nonce), while `Crypto` is about the ciphers themselves; printing and logging are left out; hardware outside the
repository (interrupt controller, USB and network controllers) is modelled from how
the drivers use it and marked `external` in the map.

## 4 Runs and bounds

Passing runs:

| run | part | question | bounds, and why they suffice |
|---|---|---|---|
| `mc_cap` | `Cap` | isolation of tables, endpoint state, no resurrection of rights; implements `CapAuthority` | 2 tables, 2 slots, 2 endpoints, 1 generation, one buffer and null: reuse of an endpoint after revoke, stale slots and a second holder all occur |
| `boot` | `Boot` | `BootInv`: segments fit, interrupts are delivered, gates are passed | the whole path with every failure, every key of the menu, any state the loader may leave the interrupt controller in |
| | `TPM` | `TpmInv`: a success is this command's answer, attestation rests on own measurements or on an answer that holds them; `VerdictComes` | two runs of `tpm2_init`, commands of 2 or 3 bytes, answers up to 4, one gap in an answer, three manners of TPM and none, absent as zeroes or ones: late answers meet the next command |
| | `FAT32` | `FatInv`: exact reads, the right entry; `CallEnds` | sectors of 2 cells, 1 or 2 sectors a cluster, 1 or 2 FATs, 5 data clusters; chains that end, join, close on themselves, lead to a free or a missing cluster; deleted entries, labels, long names |
| | `Context` | `ContextInv`: each task goes on as itself | 3 tasks and the kernel task, 2 register values |
| | `Sched` | one running task, owner of the interrupt, rotation; `AckOrIdle`: the acknowledgement arrives or idle runs | idle and 3 tasks, quantum 2: preemption of a preempter, exits and blocks in any order |
| `mc_kernel` | `Kernel` | parked buffers; both refinements | 2 tasks, 4 endpoints (the boot capabilities), quantum 1 |
| `memory` | `PMM` | `PmmInv`: counter, bitmap and owners agree, only usable frames are handed out | every memory map of two entries over 13 bytes with frames of 2: overlaps, holes, partial frames |
| | `Heap` | `HeapInv`: tiling, magic words, retry after growth, callers own disjoint blocks | up to 3 pages, one size that splits and one that forces growth, frames vanishing at any time |
| | `VMM` | `VmmInv`: tables hidden, kernel addresses translate; `ImplementsSpaces` | 2 tasks and few enough frames that each kind of walk runs out of them; image pages in the user half |
| | `Loader` | `LoaderInv`: rollback, entry point, the image exactly | every amount of heap and frames up to what a load needs; a full slot table; an image whose sums wrap and one whose file ends before its headers |
| `storage` | `Vault` | `VaultInv`: the count survives a cut, a wipe is complete; `CounterNeverDrops`, `WipeEnds` | 3 sectors, 2 boots, 2 machines, a limit of 2 attempts, a medium that works and one whose transfers fail: a power cut between any two steps of an attempt and of a wipe, counts of the other machine |
| | `ORAM` | `OramInv`: paths, also after a cut in an access, no block twice, stash bound; `ImplementsStore` | 4 leaves, buckets of 1, stash of 2: full buckets on every path, cuts at every level and with any mix of old and new slots |
| | `Snapshot` | `CleanRestore` | 3 blocks, 2 saves, 2 power cycles, sessions of 2 to 4 sectors over a buffer of 3: saves that fit, that the store refuses half way and that overrun |
| | `Crypto` | `CryptoInv`: tables and constants, the field products, tweaks, padding, key streams never reused, changes noticed, inverses, known answers | real sizes (HKDF: blocks of 4, digests of 2, counter of 4); inputs of the self-tests and the standards and lengths around the ends of blocks; the 32 blocks of one sector under one key; messages of 111, 127, 128 and 240 bytes and of the standards, cut at 6 lengths |
| `devices` | `XHCI` | `XhciInv`: rings are queues that never overrun, an answer is the command's own; `WaitEnds` | rings of 9 (the least that `FewFailures` allows with one give-up) and 5; enough writes that the link is crossed twice, and so with both cycle states; commands with every data phase; one port change; one give-up with one error |
| | `Console` | `ConsoleInv`: the screen shows the line; `ImplementsQueue` | ring of 3, line of 2, screen of 2x2: full ring, lines over two rows, scrolling at each prompt |
| `net` | `NIC` | `NicInv`: sent and received in order; `RingDrains` | rings of 3, nearly two laps, a ring that fills up |
| | `Tor` | `TorInv`: key age, padding, fresh nonces; `RotationSpaced` | intervals 4, 3 and 1, 9 ticks, 2 cells: rotations by the timer and two by command, one in the middle of the other, packets refused at any time |
| | `TCP` | `TcpInv`: no overlap of sequence numbers; ports distinct | 2 sockets, 3 creations, 4 frames, refused and retried ones among them, sequence space of 5 that wraps |
| | `NetProto` | `ChecksumVerifies` | base 4, all segments up to 3 payload bytes, odd and even, double carries |

`CHECK_DEADLOCK FALSE` is used where the code stops by itself (idle halts, a wipe ends in
`hlt`, boot reaches its end) or where a named bound (`MaxBoots`, `MaxSent`, `MaxTicks`, ...) ends
the exploration; those constants are bounds of the model, the code has none. Symmetry is
used for capability tables and heap callers only, in runs with safety properties only.

Some properties say in their statement how far they reach. `PortsDistinct` claims nothing beyond one lap of the port
counter (16379 ports for 16 sockets): the code does not look whether a port is in use, and a socket kept open for a
whole lap shares its port with a new one. `SentInOrder` speaks of sends that do not overlap, `LineShown` of lines in
which no backspace was typed at the left edge of a wrapped row, `CounterDurable` and `WipeComplete` of media without
transfer errors, the latter of the sectors of the list and `g_auth_derived_key` only: the key in `g_xts_ctx` stays. `ImplementsStore`
holds until the store is broken, and of the first 508 bytes of a block; `PathInvariant` alone goes on after a cut, and says that what
is still there lies on its path, not that all of it is. `CleanRestore` speaks of saves that were not cut short and of a store that is not broken, and says of a sector that
was skipped only that it stays as it was. `AttestsOwn` speaks of the bytes that are copied, not of the digest they come from;
`VerdictComes` of a bus that does not read as ones. `ImplementsSpaces` and `TranslatesKernel` hold for images in the user half (`ImagesInUserHalf`),
`LoadedExactly` and `EntryMatches` of segments whose headers were read and whose sums do not wrap (`Loadable`). `PaddingSteady` counts an
interval more for every packet the interface refuses, which `Wedged` may do for ever; `BoostCovers` excepts rotations that
contain another. `RotationSpaced` speaks of the range of the
32-bit field `last_rotation_ticks`, `NoOverlap` of one turn of the sequence space on a connection, `RingDrains` of a ring that is not full, `CallEnds` of searches in a directory
whose chain ends, `Derived` of an info of at most 128 bytes and 255 blocks, `RingsFit` of budgets that meet `FewFailures`. Section 5 says what happens outside.

## 5 Where code and documentation disagree

Five runs must find a violation; their properties state what the quoted comment, document or test says. The
quotations are in `PROJECT.json`.

| run | what happens |
|---|---|
| `mc_sched_round_robin` (`MCBoot` with the scheduler alone) | a preemption that goes to idle is never acknowledged: idle halts for ever, ready tasks starve |
| `mc_kernel_waits` | `sched_yield` marks the task it leaves READY whatever it was: a parked task, and one that exited, runs again |
| `storage_read_back` | no write updates the integrity tree: an encrypted sector read back starts the self-destruct sequence |
| `oram_whole_block` (`MCStorage` with the block store alone) | a block is four bytes longer than a sector: read back from the medium it is not what was written |
| `nic_interrupted` | a send from the timer takes the descriptor an interrupted send has already found free |

Other disagreements met while modelling. They follow from the lines named; no run is kept for them, and the properties
of the passing runs are stated so as not to claim the contrary.

| place | what happens |
|---|---|
| cap.c:107 | `cap_derive` never asks for `CAP_RIGHT_DERIVE` (cap.h:32) |
| heap.c:248 | a second `kfree` after the block was handed out again frees the new owner's block (main.c:590) |
| destruct.c:70 | the wipe destroys the attempt counter, and the next boot starts a fresh one (auth_counter.h:7) |
| destruct.c:79, destruct.c:81 | "All key material wiped" holds of `g_auth_derived_key` only: the sector key in `g_xts_ctx` and the snapshot key (snapshot.h:16) stay in RAM |
| oram.c:49, oram.c:59 | results of transfers are ignored: after a failed read the buffer holds whatever was on the stack and is taken for a block |
| main.c:158-170 | the M10 test uses the store with encryption on: the region is formatted in the clear, the first access does not verify and starts the self-destruct sequence, which overwrites sector 500, the root's first slot |
| shell.c:71 | the shell's snapshot command never calls `oram_init`: without the M10 test the store is used with an empty map |
| oram.c:240 | a cut while a path is rewritten in place loses the blocks that were in the stash |
| snapshot.c:344 | sectors of an unfinished save are accepted under the old header |
| snapshot.c:257 | 88 of the header's 568 bytes are never saved, and a restore reads their place from behind its buffer of 480 |
| snapshot.c:106, snapshot.c:172-180 | nothing watches the end of the 32 KB buffer while pages are serialized into it: seven pages or so overrun the heap |
| snapshot.c:377-398, snapshot.c:411-421 | a task that cannot be created again and a page without a frame are skipped without a word, and the restore reports success; another processor's features (CPUID) are only mentioned |
| xhci.c:173 | an event left over from a control transfer ends a later wait early: a bulk transfer returns before it ran, or the configuration descriptor is parsed before it arrived |
| xhci.c:108 | `ring_enqueue` does not look whether the ring is full: when a controller stops executing and the driver goes on after enough time-outs, it overwrites TRBs not yet executed |
| fb_shell.c:80 | backspace past the start of a wrapped row leaves the screen behind the buffer |
| e1000.c:168, e1000.c:183 | with as many packets waiting as there are descriptors, tail equals head and the ring looks empty: nothing is sent or accepted any more (`Wedged`) |
| fat32.c:159 | `fat32_open` never ends on a root directory whose cluster chain closes on itself |
| tpm_tis.c:200 | `tpm2_pcr_extend_real` writes 65 bytes where its comment and its array say 61 |
| tpm_tis.c:242 | reading a PCR announces 33 bytes and sends 20: only a TPM that starts with bytes missing answers |
| tpm_tis.c:255-261 | the digest of a PCR_Read answer starts at byte 30 (the selection takes ten bytes, not eight): what is copied from byte 28 is its size field and 30 of its 32 bytes, never zero, so a PCR that is still zero passes |
| tpm_tis.c:132 | the loop that reads a response has no limit: where no TPM is and the bus reads as ones, it never ends (tpm.c:24 goes on without a TPM) |
| tpm_tis.c:110 | a TPM that raises Expect only after the first byte never gets it: each command times out and attestation rests on the kernel's own copy |
| tpm_tis.c:170 | after a time-out `tpm2_startup` looks at a response that was never written |
| main.c:188-262 | a snapshot test that fails goes on with the boot, with a test value in the task's `rbx` |
| crypto.c:235 | `hkdf_sha512_expand` cuts an info at 128 bytes and lets the block counter wrap beyond 255 blocks |
| gcm.c:161 | `aes_gcm_decrypt` writes the plaintext before the tag is compared |
| csprng.h:9 | the output is said to pass through ChaCha20; `csprng.c` does not do so |
| tor.c:136 | after 2^32 ticks every tick rotates the circuit |
| tor.c:116, tor.c:144 | a rotation by the timer sets and clears the boost within one interrupt, and so ends the boost of a rotation by command it interrupts; a dropped circuit leaves the interface active |
| padding.c:66, padding.c:86 | the interval is taken as served before the packet is sent: one that the interface refuses is not tried again until the next |
| cap.c:207 | a null message is accepted and parks; the partner's copy is skipped and its call succeeds with nothing received (syscall.c:117, syscall.c:130) |
| vmm.c:303 | translation uses the kernel's tables after a task switch, so a user page of the running task is not found |
| tcp.c:105 | a refused packet leaves a gap in the sequence numbers |
| elf.c:57, elf.c:69-96 | a segment in the kernel half is mapped with the USER bit in tables all spaces share |
| elf.c:45, elf.c:62 | `e_phoff` is not checked, and `offset + filesz` may wrap past the test: bytes from behind the file are loaded |
| elf.c:75, main.c:798 | segments that share a page lose the first one's bytes; after a failed load its task stays READY off the queue and keeps its memory |

## 6 Fairness and deadlock

- `FairSchedSpec`: weak fairness of `sched_start` (straight-line boot code), of the timer tick
  while the interrupt is not in service and interrupts are on (the PIT is free-running), and of each
  user task's next call when it is running. No fairness for block, unblock or exit, which a task
  may never call.
- `WaySpec`: the same for the scheduler; weak fairness of the TPM driver's and of the file system's loops, which
  wait only by polling with a limit; the one loop without a limit reads a response and goes on by itself. None for the TPM: it may never answer.
- `StackSpec`: weak fairness of the network controller while tail and head differ, and of the write of the tail that
  ends a send.
- `StorageSpec`: weak fairness of the wipe loop and its halt only: it has no wait and no exit.
  Nothing obliges a user to type or the power to fail.
- `DevSpec`: weak fairness of the driver's loop, and of the controller on each ring whose
  doorbell was rung. `WaitEnds` lets a wait on a halted endpoint go on, since nothing resets one; where waits may
  also give up after their polls no fairness is put on giving up.

## 7 Proofs

TLAPS checks the following for every value of the constants that meets the named assumptions
(`TABLE_SIZE`, `POOL_SIZE`, `MAX_GEN`, `QUANTUM` natural numbers, positive where the code requires it;
`UserTasks` any set of positive numbers; in `Kernel` one table per user task and at least two slots, as the boot
capabilities need). Nothing else is assumed about messages, buffers or rights: null is a buffer a caller may pass.

**`Cap_proofs`.** The invariant is

    CapInv == CapTypeOK /\ SlotsBehind /\ Isolation /\ EndpointConsistent

`SlotsBehind` is the strengthening: an occupied slot names an endpoint of the pool that is in use, with a
generation not above the endpoint's. Without it a slot could name an entry of the pool that has yet to be handed
out, or be ahead of its endpoint so that the next revocation makes it valid: neither isolation nor
no-resurrection would be inductive. From it follow
`CapTypeCorrect`, `CapIsolation`, `CapEndpointConsistent`, the action property `CapNoResurrection` (once no
working capability for an endpoint is left, none appears again) and the refinement
`CapImplementsAuthority` (initial states map to initial states, every action to an authority step or
a stutter).

**`Sched_proofs`.** The invariant is

    SchedInv == SchedTypeOK /\ QueueOK /\ NotStarted /\ OneRunning /\ InServiceOwner

`QueueOK` (the queue holds a task at most once and begins with idle) and `NotStarted` (before
`sched_start` every task is READY with a fresh stack) are what `OneRunning` needs to be inductive.
`SchedStrictRotation` is an action property proved from it. `SchedInServiceOwner` says that at most one
suspended task owes the acknowledgement of the timer interrupt, exactly while it is in service:
the fact behind both `AckOrIdle` and the starvation of section 5.

**`Kernel_proofs`.** `KernelImplementsCap` and `KernelImplementsSched`: each step of the composed kernel is a step
of each component or leaves it alone, so every safety theorem of the components holds of the kernel.
`KernelParkedInOwnSpace` uses `CapIsolation` through the first: a buffer parked on an endpoint
belongs to the task whose table names it.

**`Boot_proofs`.** For the boot path the invariant `BootIInv` says what the number `at` of calls made fixes: which
descriptors the GDT in force holds and which segments the gates copied (`Tables`), where the segment registers may
point (`Segments`), and that attestation, self-test and authentication lie behind (`Path`). `BootInv` speaks of
what the processor does with the tables and is not inductive alone: that a gate fits depends on the order of
`gdt_init`, `idt_init` and `sti`. For the crossings, `ContextIInv` gives for each place a task can stand at the
only kernel stack and saved registers that go with it (`StandsAt`), of the running task by `place` and of each
other by its saved `rip`; `ContextSafe` holds for any set of tasks and register values. For attestation, `TpmIInv`
follows a command through the waits of `tpm_tis_send_cmd` (`Sending`) together with what the TPM has of it (`Received`,
`Answered`). What makes it inductive is that the bytes and the answer the TPM holds are always those of the last command
sent, also while it goes on working on one that timed out: each command starts by writing commandReady, which
drops the one before. A PCR that was read keeps its value because a late extension can only be executed before the first read
begins. What attestation has seen is `Window` of such a PCR, or the kernel's own copy.

`FatSafe` proves `FatInv` for sectors, clusters, FATs and names of any size, any chains and any failing reads, under the
hypothesis `VolumesFormatted`: the FAT has an entry for every cluster, no cluster has the number of an end-of-chain mark, a start cluster
is below `MASK`, and the names in directories are filled up with spaces. A formatter guarantees this and `fat32_init` does not check it;
links may lead anywhere. TLC evaluates it on the volumes of `MCBoot` (`MCFormatted`). `FatInv` speaks of results and not of
the loops that make them, so `FatIInv` adds the position of a call: the number `q` of links followed so far. As long as those led to data clusters,
`cluster` is the chain's `q`-th (`Along`), what a read has copied is `q` clusters and `s` sectors of the file (`InFile`, `BehindCluster`),
and no entry a search has passed ends the directory or bears the name (`Searching`, `Unfound`). The rest is lemmas: sector arithmetic finds the entry of the FAT
and the sector of a cluster on the volume (`FatEntry`, `SectorOf`); the chain, a recursive function, exists and goes
link by link (`LinkIs`); and what `path_to_83` makes of a path that fits equals an entry's name exactly when the
entry, spelled with a dot, is the path in capitals (`SameName`).

**`Memory_proofs`.** `PmmIInv` has `HandsOutUsable` in the form `Sound(f)`: it is proved of the frames `pmm_init`
frees from the rounding up of bases, down of ends and up of the bitmap's end, for any frame size above 1
(the code's is 4096) and any map; after that it only has to be carried along. The
exact counter is a cardinality that changes by one. `HeapIInv` adds to `HeapInv` that any two blocks are in order, not only
neighbours (`Tiles`), and that callers and blocks in use correspond one to one; without this a
`kfree` could merge away another caller's block. One lemma per list operation (`TakeOK`, `SplitOK`, `AppendOK`,
`FreedOK`) says what it preserves, and the step lemmas use only these.

`VmmIInv` says that the tables of all tasks form a tree: there are labels, a level for every frame in use
(`LEVELS + 1` for data) and the set of tables that belong to user halves, such that an entry leads exactly one level down
and stays in its half, the USER bits agree with the half, no two entries name the same table except the same kernel entry of two
roots, and the kernel halves of the roots are equal (`Tree`). The labels are existentially quantified: the code does not
store them, and a frame gets its label when it is handed out. `VmmInv` alone is not inductive, since it speaks of what walks from
roots find and says nothing of entries off the present walks that a later mapping completes. `vmm_map_page` is treated level by level (`DescendOK`),
with a walk that runs out of frames half way leaving a tree too; `ApartPath` shows that two walks ending at one entry are
the same walk or walks to the same kernel page. From that `VmmImplementsSpaces` follows for any number of levels,
frames and tasks: a call changes the map at one page of one space, or of all spaces if it is a kernel page, and a frame it maps is
not in use, or a device on a kernel page, hence not reachable from ring 3. That a kernel page is mapped only where
all spaces see it is the guard `Shared` of `GrowHeap` and `MapDevice`; without it the kernel halves would part.
Both theorems have the hypothesis `ImagesInUserHalf`, for the same reason: `elf_load` maps whatever page a segment names in the tables of the
task, and a segment in the kernel half would give one task's frame, with the USER bit, to all.

`LoaderIInv` says at each place of `task_create_user` and `elf_load` what the task under way owns (`Owned`) and how much of the image is in
memory (`Loading`: all segments before the current one, and of that one the pages before the current one). `LoaderSafe`
has the hypothesis `ImagesLaidOut`: the loaded segments of an image lie on pages of their own.
`elf_load` does not check this, and two segments on one page would overwrite each other; `user.ld` lays
images out so. Nothing is assumed of offsets and sizes: sums wrap at `WORD`, and a segment whose sums do not (`Straight`) fills
the pages it should whatever the others did. TLC evaluates it on the images of `MCMemory` (`MCLaidOut`).

**`Storage_proofs`.** `VaultIInv` adds to `VaultInv` how far the wipe is (`WipeProgress`: in the last pass
the sectors before the current one are overwritten), that an attempt is only taken below the limit (`TriesLeft`) and
that encryption is off until the key is there (`Unopened`), or the counter sector would be written under a key that
the next boot does not have. The wipe list must not be empty; the code's has a fixed length. A count under another machine's MAC reads as the limit, so
the attempt loop is never reached with it and nothing but the wipe writes over it.
`OramIInv` adds bucket sizes to `OramInv`, and that nothing is stored before the region is formatted; it is `OramWeak /\ ~broken`, and a step
either keeps it or breaks the store, after which nothing moves and `OramWeak` is enough. A cut in an access leaves every bucket
of the path with blocks the old path had or the new one gets, all of which lie on the path of the leaf the saved map still names. The heart is the eviction:
the greedy filling of the path from the leaf up takes each block at most once, and puts it where the path to
its leaf passes. The stash bound rests on `Cardinality(Used) <= STASH_MAX`: `stash` has 64 entries for 64
logical blocks (oram.c:33), so that it can never overflow, whatever eviction leaves. `OramImplementsStore` maps the stored
blocks to an array that promises nothing once it is broken; each access is one read or write of the array, power-off and
`oram_init` lose some blocks, and what breaks the store breaks the array.

`SnapIInv` relates the store to the last complete save: a save under way has written the sectors before the current one,
and unless a save was begun since, block 0 holds the header of the last complete one and the blocks behind it its
sectors, each as written or lost. A session larger than the buffer ends in `overrun`, from which the model takes no step. `SnapshotCleanRestore` is an action property proved from it. The flag `torn`, which a
save sets when it begins and clears with the header, is what makes it inductive: the sectors of a save cut short
overwrite those of the one before while its header is still there.

**`Devices_proofs`.** `RingIInv` holds the key ring's indices in range, with what `keyboard_get_char` has read
between its steps while the interrupt may write. `ConsoleImplementsQueue`: the characters between tail and head are the queue, for
any ring length and any interleaving of interrupt and reader.

`ConsoleSafe` proves `ConsoleInv` for screens and lines of any size. `EditIInv` has besides the types where the cursor is: as long as no
backspace was stuck, the rows wrapped over times the columns plus the cursor's column are the length of prompt and line (`Behind`), and
the cells before that position show the text while all after it are blank (`Cells`). `LineShown` says only the second and is not inductive,
since a character goes where the cursor is. Wrapping with and without scrolling is one lemma (`TargetDrawn`), and the prompt is right because
every command ends with a newline, which leaves the cursor at the start of a blank row (`Fresh`).

`XhciSafe` proves `XhciInv` for any ring sizes and any number of commands under the hypothesis `FewFailures`: the waits that
give up and the port changes together number fewer than the entries of a ring less seven, 56 for the code's
64. The code does not state this bound; it is what `RingsFit` needs, since `ring_enqueue` never checks for room
and each wait that gives up leaves its TRBs behind. `XhciIInv` has three parts. `SharedOK`: each ring is a queue whose entries the cycle
bits and the two ends tell apart (`TrbQueue`, `EventQueue`), also while driver and controller are on different
laps. `CommandInv`: a command is enqueued only when all earlier ones are executed and their completions consumed, so the
next completion is its own. `RunAhead`: the TRBs not executed, the events not consumed and all that the budget and
the rest of the plan can still add; no step raises it, so the driver never gets a ring ahead. A lemma per
action shows these three.

**`Net_proofs`.** `NicIInv` says what each descriptor between head and tail holds by its distance from the head, for
each ring (`TxOK`, `RxOK`); the transmit ring only while no send was overlapped, which is the finding of section 5.
`TorIInv` adds the clocks behind `KeysYoung` and `PaddingSteady` (what `last_rotation_ticks`, truncated to its width,
means, and that the last attempt to pad is at most one interval per refused packet after the last that went out) and the history of nonces. `KeysYoung` holds even when the field wraps; `RotationSpaced` does not, and
its theorem has the hypothesis `MaxTicks < 2 ^ WIDTH`. `BoostTicks <= PadTicks` is 5 and 20 in the code. `TcpIInv` tells ports by the number
of sockets created before (`PortOfIncarnation`) and places each frame built, sent or refused, behind its socket's sequence number by
less than a turn (`SentBehind`), frames with the same number and length told apart by when they were built.

`NetChecksum` needs no invariant beyond the types: it is about what the builders compute. The receiver's sum over bytes is followed word by word
next to the builder's and exceeds it by the pseudo-header and, from the checksum's word on, by the checksum (`SumsAgree`); adding carries
back leaves a number what it is modulo the largest word and ends in a word (`FoldedFacts`), so the total is a multiple of it. The three recursive
functions are shown to exist first, the running sums by induction, the folding by its closed form (`FoldExists`).

Two assumptions are facts of arithmetic that the provers do not know, since they leave `^` uninterpreted: that `2 ^ WIDTH`
is a number above 1 (`TorAssumption`) and that the powers of two up to `ORAM_NUM_LEAVES` at least double
(`PowersAssumption`). TLC evaluates them, like every other assumption, with the values of each run. Where a proof needs
an induction it is by the least counterexample, through well-foundedness of the natural numbers (`LeastElement`).

## 8 What is only model-checked

Liveness under fairness (`AckOrIdle`, `VerdictComes`, `CallEnds`, `WipeEnds`, `WaitEnds`, `RingDrains`) is outside the
prover's reach. `CryptoInv` stays with TLC for another reason: its primitives use bitwise operators, which a module with
theorems cannot reach. Every other property the passing runs check is proved.

## 9 What is not modelled

- `pqc.c` holds placeholders without the arithmetic of the schemes they are named after; `csprng.c` reads the
  processor's generator. That a draw may be interrupted by the padding's draw in the timer interrupt is not modelled.
- `tpm2_get_random` has no caller, and `tpm_visual.c` draws.
- What the exception handler prints, PCI configuration, serial, framebuffer, string routines, MAC randomisation:
  written once or pure output.
- User programs: `Kernel` lets a task make any call at any time, which covers them.
- Milestone self-tests in `main.c`: read as statements of what is expected; `Boot` knows only whether they go on,
  halt or leave the task's registers changed.
- `tcp_handle_packet` has no caller and is left out.
- What follows undefined or destroyed state is not followed: an oblivious store that is `broken`, a heap behind a serialization that overran its buffer, a page fault
  in ring 0 on a null message that should have been copied, and a segment in the kernel half. Each is a step that ends the part, or a
  hypothesis by name, and stands in section 5. The four bytes an `oram_block_t` is longer than its buffer are written and read as if they hit nothing else.
- An interrupted `e1000_send_packet` writes its index and the tail register (e1000.c:183, e1000.c:184) in one step of `NIC`; in between an interrupt's
  send only makes the overlap that `overlapped` records anyway.

## 10 Plan

1. `FAT32` composed with `Loader`, which now takes any result from a read.
2. What a broken store still guarantees, and snapshots over one: `Snapshot` takes `BlockStore` as not broken.
3. The receive side of TCP, should it gain a caller.
