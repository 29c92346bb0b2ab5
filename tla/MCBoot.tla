------------------------------- MODULE MCBoot -------------------------------
(* The way to ring 3: the boot path with the tables it builds, the           *)
(* attestation it waits for, the file system it loads the first program      *)
(* from, and then the scheduler and the crossings between ring 3 and the     *)
(* kernel.  The boot path calls the others one after the other and sees of   *)
(* each only whether it succeeded, and the scheduler chooses tasks whatever  *)
(* their registers hold, so `part' says which one works while the others     *)
(* rest.                                                                     *)
EXTENDS Boot, TPM, FAT32, Context, Sched

CONSTANT Parts  \* the parts that are explored

\* Commands of two or three bytes; as in the code, reading a PCR announces more
\* than it sends, and its answer is longer than what is asked of it.
MCSent == [startup |-> 2, self_test |-> 2, extend |-> 3, read |-> 2, quote |-> 3]
MCAnnounced == [MCSent EXCEPT !.read = 3]
MCLength == [startup |-> 2, self_test |-> 2, extend |-> 2, read |-> 4, quote |-> 3]

----------------------------------------------------------------------------
(* Volumes: a root directory at cluster 2 that may go on at cluster 4, a     *)
(* file AB.C at cluster 5 with reserved bits in its link, and a file AB at   *)
(* cluster 3.                                                                *)

Entry(kind, name, c, size) ==
  [kind |-> kind, name |-> name, hi |-> c \div HALF, lo |-> c % HALF, size |-> size]
Long == Entry("file", <<"A", "B", "C">>, 5, 5)
Short == Entry("file", <<"A", "B", " ">>, 3, 3)
Deleted == Entry("deleted", <<"A", "B", "C">>, 3, 1)
Label == Entry("label", <<"A", "B", "C">>, 0, 0)
LongName == Entry("lfn", <<"A", "B", "C">>, 0, 0)
End == Entry("end", <<" ", " ", " ">>, 0, 0)

\* The entries in order over clusters 2 and 4, and behind them the end.
Root(spc, entries) ==
  LET per == spc * SECTOR
      At(k) == IF k \in DOMAIN entries THEN entries[k] ELSE End
  IN [c \in {2, 4} |-> [i \in 1 .. per |-> At(IF c = 2 THEN i ELSE per + i)]]

\* The file's chain ends, goes on at the other file, closes on itself, or leads to
\* a free or a missing cluster; the directory's chain has one or two clusters, or
\* closes on itself.
Tables ==
  { [i \in 0 .. 7 |-> CASE i \in {0, 1, 3} -> 15 [] i = 2 -> r [] i = 5 -> 6 + MASK [] i = 6 -> f
                        [] i = 4 -> IF r = 4 THEN q ELSE 0 [] OTHER -> 0]
    : r \in {4, 15}, q \in {15, 2}, f \in {3, 15, 5, 0, 13} }
Directories == { <<Deleted, Long>>, <<Label, LongName, Short, Long>>,
                 <<Short, Deleted, End, Long>>,
                 <<Short, LongName, Deleted, LongName, Label, Long>>,
                 [i \in 1 .. 8 |-> Deleted] }
MCVolumes ==
  { [sector_size_512 |-> TRUE, reserved |-> 1, num_fats |-> n, fat_size |-> 4, spc |-> spc,
     root |-> 2, clusters |-> 5, fat |-> t, dir |-> Root(spc, d)]
    : n \in {1, 2}, spc \in {1, 2}, t \in Tables, d \in Directories }
MCPaths == { <<"/", "a", "b", ".", "c">>, <<"a", "B">>,
             <<"/", "a", "b", "c", ".", "c">>, <<"b">> }
ASSUME MCFormatted == VolumesFormatted

----------------------------------------------------------------------------

VARIABLE part
wayVars == <<part, bootVars, tpmVars, fatVars, ctxVars, schedVars>>

WayInit ==
  /\ part \in Parts
  /\ part # "boot" => pic = [base |-> 8, open |-> {}]
  /\ part # "tpm" => manner = CHOOSE m \in Manners : TRUE
  /\ part # "fat" => volume = CHOOSE v \in Volumes : TRUE
  /\ BootInit /\ TpmInit /\ FatInit /\ ContextInit /\ SchedInit

BootPart ==
  part = "boot" /\ BootNext /\ UNCHANGED <<part, tpmVars, fatVars, ctxVars, schedVars>>
TpmPart ==
  part = "tpm" /\ TpmNext /\ UNCHANGED <<part, bootVars, fatVars, ctxVars, schedVars>>
FatPart ==
  part = "fat" /\ FatNext /\ UNCHANGED <<part, bootVars, tpmVars, ctxVars, schedVars>>
ContextPart ==
  part = "context" /\ ContextNext /\ UNCHANGED <<part, bootVars, tpmVars, fatVars, schedVars>>
SchedPart ==
  part = "sched" /\ SchedNext /\ UNCHANGED <<part, bootVars, tpmVars, fatVars, ctxVars>>

\* The loops of the driver and of the file system run without a wait of their
\* own: they take their next step, or time out.  The scheduler's fairness is
\* that of FairSchedSpec.
WaySpec ==
  /\ WayInit /\ [][BootPart \/ TpmPart \/ FatPart \/ ContextPart \/ SchedPart]_wayVars
  /\ WF_wayVars(TpmPart /\ (SendCmd \/ Returned))
  /\ WF_wayVars(FatPart /\ FatStep)
  /\ WF_wayVars(SchedPart /\ sched_start) /\ WF_wayVars(SchedPart /\ sched_tick)
  /\ \A t \in UserTasks : WF_wayVars(SchedPart /\ Yield(t))
=============================================================================
