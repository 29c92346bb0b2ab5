-------------------------------- MODULE TPM ---------------------------------
(***************************************************************************)
(* Measured boot: the TPM driver (kernel/tpm_tis.c) and the attestation    *)
(* that gates the boot (kernel/tpm.c), against a TPM behind its register   *)
(* interface.                                                              *)
(*                                                                         *)
(* The driver polls a status register with a limit; the TPM may be absent, *)
(* slow, or answer after the driver has given up.  A command is known by   *)
(* its number and kind; of its bytes only their count matters, and which   *)
(* command they belong to.  A PCR is the sequence of measurements it was   *)
(* extended with, <<>> for zero.  The interface is external: the TPM takes *)
(* bytes until the size announced in the header is there, answers once,    *)
(* and drops everything when commandReady is written.  Where there is no   *)
(* TPM, the bus may read as zeroes, and no interface is found, or as ones, *)
(* which looks like a TPM that is always ready and never runs out of data. *)
(***************************************************************************)
EXTENDS Integers, Sequences

CONSTANTS
  BytesSent,    \* by kind of command: bytes that are sent (12, 11, 65, 20, 73)
  Announced,    \* the size its header announces: the same, but 33 for a read
  AnswerLength, \* bytes of the answer when it succeeds (10, 10, 19, 62, 64 or more)
  READ_MIN,     \* bytes of an answer from which a PCR is copied (60)
  HEADER,       \* bytes of a response header, which is all of a failure (10)
  MaxInits,    \* bound: runs of tpm2_init (boot, then the M13 test)
  MaxGaps      \* bound: times the TPM withholds its status while it is read

Kinds == {"startup", "self_test", "extend", "read", "quote"}

ASSUME TpmAssumption ==
  /\ {BytesSent, Announced, AnswerLength} \subseteq [Kinds -> Nat \ {0}]
  /\ HEADER \in Nat \ {0} /\ READ_MIN \in HEADER .. AnswerLength.read
  /\ \A k \in Kinds : AnswerLength[k] >= HEADER
  /\ \A k \in Kinds : BytesSent[k] <= Announced[k]
  /\ {MaxInits, MaxGaps} \subseteq Nat

\* TPM_PCR_COUNT is larger; these are the ones that are measured.
Pcrs == 0 .. 2

Cmd(kind, pcr) == [kind |-> kind, pcr |-> pcr]
NoCmd == Cmd("none", 0)

\* The commands of tpm2_init and of tpm2_verify_attestation, in their order.
InitCmds == <<Cmd("startup", 0), Cmd("self_test", 0),
              Cmd("extend", 0), Cmd("extend", 1), Cmd("extend", 2)>>
VerifyCmds == <<Cmd("read", 0), Cmd("read", 1), Cmd("read", 2), Cmd("quote", 0)>>
Script == InitCmds \o VerifyCmds
FirstExtend == 3
FirstVerify == Len(InitCmds) + 1

VARIABLES
  manner,      \* strict: raises Expect only after the first byte; eager: before it;
               \* lenient: and takes a command at tpmGo though bytes are missing
  tis,         \* its interface: idle, ready, reception, execution, completion; or
               \* ones: there is none, and every register reads as all ones
  fifo,        \* what it received: bytes, the command they began, of which sends
  answer,      \* what it holds ready: command number, success, contents, length left
  hw,          \* its PCRs
  executed,    \* history: the last command it executed successfully
  gaps,
  g_tis_ready,
  pcr,         \* g_tpm2_state.pcr
  step,        \* which command of Script is next; 0 before tpm2_init
  number,      \* commands sent so far
  stage, sent, \* place in tpm_tis_send_cmd
  got,         \* bytes read of the response, and what they say
  result,      \* its return value
  seen,        \* the pcr0, pcr1, pcr2 of tpm2_verify_attestation
  verdict,     \* its return value: "none" while it has not returned
  inits

devVars == <<manner, tis, fifo, answer, hw, executed, gaps>>
drvVars == <<g_tis_ready, pcr, step, number, stage, sent, got, result, seen, verdict, inits>>
tpmVars == <<manner, tis, fifo, answer, hw, executed, gaps, g_tis_ready, pcr, step,
             number, stage, sent, got, result, seen, verdict, inits>>

EmptyFifo == [count |-> 0, of |-> {}, cmd |-> NoCmd, digest |-> <<>>]
Junk == <<-1>>
NoAnswer == [cmd |-> 0, ok |-> FALSE, value |-> <<>>, tag |-> FALSE, left |-> 0]
NoResponse == [count |-> 0, cmd |-> 0, ok |-> FALSE, value |-> Junk, tag |-> FALSE]

Manners == {"strict", "eager", "lenient"}

TpmInit ==
  /\ manner \in Manners /\ tis \in {"idle", "ones"} /\ fifo = EmptyFifo /\ answer = NoAnswer
  /\ hw = [i \in Pcrs |-> <<>>] /\ executed = 0 /\ gaps = 0
  /\ g_tis_ready = FALSE /\ pcr = [i \in Pcrs |-> <<>>]
  /\ step = 0 /\ number = 0 /\ stage = "idle" /\ sent = 0
  /\ got = NoResponse /\ result = FALSE
  /\ seen = [i \in Pcrs |-> <<>>] /\ verdict = "none" /\ inits = 0

\* The command that is being sent.
Pending == IF step \in DOMAIN Script THEN Script[step] ELSE NoCmd

----------------------------------------------------------------------------
(* The TPM (external).                                                      *)

CMD_READY == tis \in {"ready", "ones"}
EXPECT == \/ tis = "ones"
          \/ tis = "ready" /\ manner # "strict"
          \/ tis = "reception" /\ fifo.count < Announced[fifo.cmd.kind]
DATA_AVAIL == \/ tis = "ones"
              \/ tis = "completion" /\ answer.left > 0

\* commandReady is written: whatever was received or computed is dropped; a busy
\* TPM takes its time to become ready.
Abort == /\ tis' = IF tis = "ones" THEN tis
                   ELSE IF tis \in {"ready", "idle", "completion"} THEN "ready" ELSE "aborting"
         /\ fifo' = EmptyFifo /\ answer' = NoAnswer

BecomesReady == /\ tis = "aborting" /\ tis' = "ready"
                /\ UNCHANGED <<manner, fifo, answer, hw, executed, gaps, drvVars>>

\* A byte is written to the data register; after the last one it expects no more.
Accept == IF tis \in {"ready", "reception"}
          THEN /\ tis' = "reception"
               /\ fifo' = [count |-> fifo.count + 1, of |-> fifo.of \cup {number},
                           cmd |-> IF fifo.count = 0 THEN Pending ELSE fifo.cmd,
                           digest |-> IF fifo.count = 0 THEN pcr[Pending.pcr] ELSE fifo.digest]
          ELSE UNCHANGED <<tis, fifo>>

\* tpmGo is written.  With bytes missing a TPM may ignore it.
Start == IF tis = "reception"
         THEN \/ tis' = "execution"
              \/ fifo.count < Announced[fifo.cmd.kind] /\ UNCHANGED tis
         ELSE UNCHANGED tis

Whole == /\ fifo.count = Announced[fifo.cmd.kind] \/ manner = "lenient"
         /\ \E n \in fifo.of : fifo.of = {n}
Sender == CHOOSE n \in fifo.of : TRUE

\* The command is executed, sooner or later.  A command that is whole may still
\* fail; one that is not does.
Execute ==
  /\ tis = "execution" /\ tis' = "completion"
  /\ LET cmd == fifo.cmd
     IN \/ /\ Whole
           /\ hw' = IF cmd.kind = "extend"
                    THEN [hw EXCEPT ![cmd.pcr] = @ \o fifo.digest] ELSE hw
           /\ executed' = Sender
           /\ \E t \in IF cmd.kind = "quote" THEN BOOLEAN ELSE {FALSE} :
                answer' = [cmd |-> Sender, ok |-> TRUE, tag |-> t,
                           value |-> IF cmd.kind = "read" THEN hw[cmd.pcr] ELSE <<>>,
                           left |-> AnswerLength[cmd.kind]]
        \/ /\ answer' = [NoAnswer EXCEPT !.cmd = Sender, !.left = HEADER]
           /\ UNCHANGED <<hw, executed>>
  /\ UNCHANGED <<manner, fifo, gaps, drvVars>>

----------------------------------------------------------------------------
(* tpm_tis_send_cmd, from wait to wait.                                     *)

\* Mutant: the answer is waited for without a limit.
WaitsForever(waits, bit) == stage = waits /\ ~bit /\ waits # "answer"

\* The wait ends, and the command with it, before what it waits for has come.
TimesOut(waits, bit) == stage = waits /\ ~bit

Fails == stage' = "returned" /\ result' = FALSE
\* What a command leaves alone.
Rest == UNCHANGED <<manner, hw, executed, gaps, g_tis_ready, pcr, step, seen, verdict, inits>>

\* Up to the wait for commandReady; without an interface the call returns at once.
SendBegin ==
  /\ stage = "call"
  /\ number' = number + 1 /\ sent' = 0 /\ got' = NoResponse
  /\ IF g_tis_ready THEN Abort /\ stage' = "ready" /\ UNCHANGED result
     ELSE Fails /\ UNCHANGED <<tis, fifo, answer>>
  /\ Rest

SendReady ==
  /\ stage = "ready" /\ CMD_READY
  /\ stage' = "bytes"
  /\ UNCHANGED <<tis, fifo, answer, number, sent, got, result>> /\ Rest

\* All bytes but the last wait for Expect.
SendByte ==
  /\ stage = "bytes" /\ sent < BytesSent[Pending.kind] - 1 /\ EXPECT
  /\ Accept /\ sent' = sent + 1
  /\ UNCHANGED <<stage, answer, number, got, result>> /\ Rest

SendLast ==
  /\ stage = "bytes" /\ sent = BytesSent[Pending.kind] - 1
  /\ Accept /\ sent' = sent + 1 /\ stage' = "go"
  /\ UNCHANGED <<answer, number, got, result>> /\ Rest

SendGo ==
  /\ stage = "go" /\ Start /\ stage' = "answer"
  /\ UNCHANGED <<fifo, answer, number, sent, got, result>> /\ Rest

SendAnswered ==
  /\ stage = "answer" /\ DATA_AVAIL
  /\ stage' = "read"
  /\ UNCHANGED <<tis, fifo, answer, number, sent, got, result>> /\ Rest

\* The response is read while data is available.  A bus that reads as ones gives
\* bytes for ever: the loop has no limit, and looks at none of them.
SendRead ==
  /\ stage = "read" /\ tis = "completion" /\ answer.left > 0
  /\ answer' = [answer EXCEPT !.left = @ - 1]
  /\ got' = [count |-> got.count + 1, cmd |-> answer.cmd, ok |-> answer.ok,
             value |-> IF got.count + 1 >= READ_MIN THEN answer.value ELSE Junk,
             tag |-> answer.tag]
  /\ UNCHANGED <<stage, tis, fifo, number, sent, result>> /\ Rest

\* Mutant: a response counts as a success.
AnySuccess(response) == TRUE

\* The code in the header; a response shorter than a header has none.
Succeeded(response) == response.count < HEADER \/ response.ok

\* No more data, or none for a moment (a gap): the response ends here.
SendDone ==
  /\ stage = "read"
  /\ \/ ~DATA_AVAIL /\ UNCHANGED gaps
     \/ tis # "ones" /\ DATA_AVAIL /\ gaps < MaxGaps /\ gaps' = gaps + 1
  /\ Abort
  /\ stage' = "returned" /\ result' = Succeeded(got)
  /\ UNCHANGED <<number, sent, got>>
  /\ UNCHANGED <<manner, hw, executed, g_tis_ready, pcr, step, seen, verdict, inits>>

SendTimesOut ==
  /\ \/ TimesOut("ready", CMD_READY)
     \/ TimesOut("bytes", EXPECT \/ sent = BytesSent[Pending.kind] - 1)
     \/ TimesOut("answer", DATA_AVAIL)
  /\ Fails
  /\ UNCHANGED <<tis, fifo, answer, number, sent, got>> /\ Rest

----------------------------------------------------------------------------
(* tpm.c: what is sent, and what is made of the answers.                    *)

\* tpm2_pcr_extend first updates the kernel's own copy.
Measure(s, p) == IF Script[s].kind = "extend"
                 THEN [p EXCEPT ![Script[s].pcr] = Append(@, Script[s].pcr)] ELSE p
Issue(s, p) == step' = s /\ stage' = "call" /\ pcr' = Measure(s, p)

\* tpm2_init up to its first command: tpm_tis_init finds an interface and is
\* granted locality 0, or not (a flag set by an earlier init stays set).
\* Without one, the TPM is not started, only measured into.  What an earlier
\* attestation saw is gone.
tpm2_init ==
  /\ stage = "idle" /\ inits < MaxInits
  /\ inits' = inits + 1 /\ verdict' = "none"
  /\ \/ g_tis_ready' = TRUE /\ Issue(1, [i \in Pcrs |-> <<>>])
     \/ tis # "ones" /\ UNCHANGED g_tis_ready /\ Issue(FirstExtend, [i \in Pcrs |-> <<>>])
  /\ seen' = [i \in Pcrs |-> <<>>]
  /\ UNCHANGED <<devVars, number, sent, got, result>>

\* What tpm2_pcr_read_real copies from offset 28 of the answer.  The selection in
\* front of the digest is two bytes longer than it counts: it gets the digest's
\* size field and all but the last two bytes of the digest.  That tells digests
\* apart as they do, but is never zero.
SizeField == -2
Window(digest) == <<SizeField>> \o digest

\* Mutant: the length of the response is not looked at.
AnyLength == IF result THEN Window(got.value) ELSE pcr[Pending.pcr]

\* tpm2_get_pcr: what was copied from the response when it is long enough, or our
\* own value.
PcrValue == IF result /\ got.count >= READ_MIN THEN Window(got.value)
            ELSE pcr[Pending.pcr]

\* tpm2_quote_real never fails; the tag is the TPM's when it sent a quote.
QuoteTag == (result /\ got.count >= AnswerLength.quote) => got.tag

\* tpm2_verify_attestation reads three PCRs, stops when one of them is zero (our own,
\* then, since what is copied from a TPM never is), and
\* asks for a quote; the results of the commands of tpm2_init are not looked at.
Returned ==
  /\ stage = "returned"
  /\ seen' = IF Pending.kind = "read" THEN [seen EXCEPT ![Pending.pcr] = PcrValue] ELSE seen
  /\ LET refused == Pending = Cmd("read", 2) /\ \E i \in Pcrs : seen'[i] = <<>>
     IN IF step < Len(Script) /\ ~refused
        THEN Issue(step + 1, pcr) /\ UNCHANGED verdict
        ELSE /\ verdict' = (IF ~refused /\ QuoteTag THEN "attested" ELSE "refused")
             /\ stage' = "idle" /\ UNCHANGED <<step, pcr>>
  /\ UNCHANGED <<devVars, g_tis_ready, number, sent, got, result, inits>>

SendCmd == SendBegin \/ SendReady \/ SendByte \/ SendLast \/ SendGo \/ SendAnswered
           \/ SendRead \/ SendDone \/ SendTimesOut
Device == BecomesReady \/ Execute
TpmNext == tpm2_init \/ SendCmd \/ Returned \/ Device
TpmSpec == TpmInit /\ [][TpmNext]_tpmVars

----------------------------------------------------------------------------

\* A response holds no more bytes than the TPM had for it, and a command never
\* sends more than it announces (tpm_tis_send_cmd and its callers).
TpmTypeOK ==
  /\ tis \in {"ones", "idle", "ready", "aborting", "reception", "execution", "completion"}
  /\ stage \in {"idle", "call", "ready", "bytes", "go", "answer", "read", "returned"}
  /\ verdict \in {"none", "attested", "refused"} /\ g_tis_ready \in BOOLEAN
  /\ step \in 0 .. Len(Script) /\ executed \in 0 .. number
  /\ fifo.count <= Announced[IF fifo.count = 0 THEN "read" ELSE fifo.cmd.kind]

\* A whole response taken for a success is the answer to the command just sent,
\* not one that came late for a command given up earlier, and the TPM has
\* executed that command (tpm_tis_send_cmd).
OkMeansDone == (stage = "returned" /\ result /\ got.count >= HEADER) =>
                 got.cmd = number /\ executed = number

\* Attestation rests on this boot's own values: each of the three digests it
\* looked at is the kernel's measurement into that PCR, or the bytes copied from
\* an answer that holds that PCR of the TPM, whatever commands timed out or were
\* cut short on the way; and the TPM's PCRs were extended with nothing but
\* measurements into the same PCR.  Not that they were extended: a PCR the TPM
\* still has at zero passes (tpm2_get_pcr, tpm2_verify_attestation).
AttestsOwn ==
  verdict = "attested" =>
    \A i \in Pcrs : /\ pcr[i] = <<i>>
                    /\ seen[i] \in {pcr[i], Window(hw[i])}
                    /\ \A k \in DOMAIN hw[i] : hw[i][k] = i

\* Time-outs alone never refuse a boot: a refusal comes from a quote a TPM sent.
RefusalFromTpm ==
  verdict = "refused" => g_tis_ready /\ got.count >= AnswerLength.quote

\* What the driver reports and what attestation concludes are backed by what
\* was measured and executed.
TpmInv == TpmTypeOK /\ OkMeansDone /\ AttestsOwn /\ RefusalFromTpm

\* Measuring and attesting come to an end whatever a TPM does or fails to do,
\* since every wait has a limit (tis_wait_sts), as long as the answers end: the
\* loop that reads them has none, and a bus without a TPM may feed it for ever.
VerdictComes == stage # "idle" /\ tis # "ones" ~> verdict # "none"
=============================================================================
