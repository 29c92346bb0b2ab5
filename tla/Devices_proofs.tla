--------------------------- MODULE Devices_proofs ---------------------------
(***************************************************************************)
(* The key ring (keyboard.c) refines a queue of characters, the rings the  *)
(* USB driver shares with its controller (xhci.c) are queues, and the text *)
(* screen (fb_shell.c) shows the line the shell (shell.c) edits.           *)
(***************************************************************************)
EXTENDS Console, XHCI, SequenceTheorems, TLAPS

----------------------------------------------------------------------------
(* The key ring.                                                            *)

\* The remainder of a number less than a turn away from the range.
LEMMA WrapUp ==
  ASSUME NEW m \in Nat, m > 0, NEW x \in Int, -m < x, x < m + m
  PROVE  x % m = IF x < 0 THEN x + m ELSE IF x < m THEN x ELSE x - m
<1>1. x % m \in 0 .. m - 1 /\ x \div m \in Int
  OBVIOUS
<1>2. x = m * (x \div m) + (x % m)
  OBVIOUS
<1> DEFINE q == x \div m
           r == x % m
<1>3. q \in Int /\ r \in 0 .. m - 1 /\ x = m * q + r
  BY <1>1, <1>2
<1> HIDE DEF q, r
<1>4. q \in {-1, 0, 1}
  <2>1. ASSUME q <= -2 PROVE FALSE
    <3>1. m * q <= m * (-2)
      BY <1>3, <2>1
    <3>2. m * q \in Int /\ m * (-2) = -(m + m)
      BY <1>3
    <3> QED
      BY <1>3, <3>1, <3>2
  <2>2. ASSUME q >= 2 PROVE FALSE
    <3>1. m * q >= m * 2
      BY <1>3, <2>2
    <3>2. m * q \in Int /\ m * 2 = m + m
      BY <1>3
    <3> QED
      BY <1>3, <3>1, <3>2
  <2> QED
    BY <1>3, <2>1, <2>2
<1>5. CASE q = -1
  <2>1. x = r - m
    BY <1>3, <1>5
  <2> QED
    BY <1>3, <2>1 DEF r
<1>6. CASE q = 0
  <2>1. x = r
    BY <1>3, <1>6
  <2> QED
    BY <1>3, <2>1 DEF r
<1>7. CASE q = 1
  <2>1. x = r + m
    BY <1>3, <1>7
  <2> QED
    BY <1>3, <2>1 DEF r
<1> QED
  BY <1>4, <1>5, <1>6, <1>7

\* The characters between the ends t and h of a ring.
Between(cells, h, t) == [i \in 1 .. (h - t) % RING |-> cells[(t + i - 1) % RING]]

\* The ends of the ring, and what keyboard_get_char knows between its steps.
RingIInv ==
  /\ g_key_ring \in [0 .. RING - 1 -> Chars \cup {Nul}]
  /\ g_key_head \in 0 .. RING - 1 /\ g_key_tail \in 0 .. RING - 1
  /\ shell_pc \in {"read", "advance"} => g_key_head # g_key_tail
  /\ shell_pc = "advance" => tmp = g_key_ring[g_key_tail]

\* s is the content of the ring between the ends t and h.
HoldsRing(s, cells, h, t) ==
  /\ s \in Seq(Chars \cup {Nul}) /\ Len(s) \in Nat
  /\ Len(s) = IF h >= t THEN h - t ELSE h - t + RING
  /\ \A i \in 1 .. Len(s) : s[i] = cells[IF t + i - 1 < RING THEN t + i - 1 ELSE t + i - 1 - RING]

\* The content of the ring as a sequence.
LEMMA BetweenSeq ==
  ASSUME NEW cells \in [0 .. RING - 1 -> Chars \cup {Nul}],
         NEW h \in 0 .. RING - 1, NEW t \in 0 .. RING - 1
  PROVE  HoldsRing(Between(cells, h, t), cells, h, t)
<1> USE ConsoleAssumption
<1> DEFINE n == IF h >= t THEN h - t ELSE h - t + RING
<1>1. (h - t) % RING = n /\ n \in Nat /\ n < RING
  <2>1. -RING < h - t /\ h - t < RING + RING /\ h - t \in Int /\ RING > 0
    OBVIOUS
  <2>2. (h - t) % RING = IF h - t < 0 THEN h - t + RING ELSE IF h - t < RING THEN h - t
        ELSE h - t - RING
    BY <2>1, WrapUp
  <2> QED
    BY <2>2
<1>2. ASSUME NEW i \in 1 .. n
      PROVE  /\ (t + i - 1) % RING = IF t + i - 1 < RING THEN t + i - 1 ELSE t + i - 1 - RING
             /\ (t + i - 1) % RING \in 0 .. RING - 1
  <2>1. t + i - 1 \in Int /\ 0 <= t + i - 1 /\ t + i - 1 < RING + RING /\ -RING < t + i - 1
    BY <1>1
  <2>2. (t + i - 1) % RING = IF t + i - 1 < 0 THEN t + i - 1 + RING
                             ELSE IF t + i - 1 < RING THEN t + i - 1 ELSE t + i - 1 - RING
    BY <2>1, WrapUp
  <2> QED
    BY <2>1, <2>2
<1> HIDE DEF n
<1>3. Between(cells, h, t) = [i \in 1 .. n |-> cells[(t + i - 1) % RING]]
  BY <1>1 DEF Between
<1>4. \A i \in 1 .. n : cells[(t + i - 1) % RING] \in Chars \cup {Nul}
  BY <1>2
<1>5. Between(cells, h, t) \in Seq(Chars \cup {Nul}) /\ Len(Between(cells, h, t)) = n
  BY <1>1, <1>3, <1>4
<1> QED
  BY <1>1, <1>2, <1>3, <1>5 DEF n, HoldsRing

\* The test of key_ring_push: the ring is full when it holds one entry less than it has.
LEMMA RingFull ==
  ASSUME NEW cells \in [0 .. RING - 1 -> Chars \cup {Nul}],
         NEW h \in 0 .. RING - 1, NEW t \in 0 .. RING - 1,
         NEW g \in 0 .. RING - 1, g = (h + 1) % RING
  PROVE  /\ g = IF h + 1 < RING THEN h + 1 ELSE 0
         /\ g # t <=> Len(Between(cells, h, t)) < RING - 1
<1> USE ConsoleAssumption
<1>1. g = IF h + 1 < RING THEN h + 1 ELSE 0
  <2>1. h + 1 \in Int /\ -RING < h + 1 /\ h + 1 < RING + RING /\ RING \in Nat /\ RING > 0
    OBVIOUS
  <2>2. (h + 1) % RING = IF h + 1 < 0 THEN h + 1 + RING
                         ELSE IF h + 1 < RING THEN h + 1 ELSE h + 1 - RING
    BY <2>1, WrapUp
  <2> QED
    BY <2>2
<1>2. Len(Between(cells, h, t)) = IF h >= t THEN h - t ELSE h - t + RING
  BY BetweenSeq DEF HoldsRing
<1>3. g # t <=> Len(Between(cells, h, t)) < RING - 1
  BY <1>1, <1>2
<1> QED
  BY <1>1, <1>3

\* Entry h of the ring is written.
Stored(r2, cells, h, ch) == r2 = [cells EXCEPT ![h] = ch]

\* key_ring_push appends to a ring with room.
LEMMA PushAppends ==
  ASSUME NEW cells \in [0 .. RING - 1 -> Chars \cup {Nul}],
         NEW h \in 0 .. RING - 1, NEW t \in 0 .. RING - 1, NEW ch \in Chars,
         NEW g \in 0 .. RING - 1, g = (h + 1) % RING,
         NEW r2, Stored(r2, cells, h, ch)
  PROVE  /\ g # t <=> Len(Between(cells, h, t)) < RING - 1
         /\ g # t => Between(r2, g, t) = Append(Between(cells, h, t), ch)
<1> USE ConsoleAssumption
<1> DEFINE S == Chars \cup {Nul}
           old == Between(cells, h, t)
           new == Between(r2, g, t)
           n == Len(old)
<1>1. g = IF h + 1 < RING THEN h + 1 ELSE 0
  BY RingFull
<1>2. r2 \in [0 .. RING - 1 -> S] /\ r2[h] = ch
      /\ \A j \in 0 .. RING - 1 : j # h => r2[j] = cells[j]
  BY DEF Stored
<1>3. /\ old \in Seq(S) /\ n = (IF h >= t THEN h - t ELSE h - t + RING) /\ n \in Nat
      /\ \A i \in 1 .. n : old[i] = cells[IF t + i - 1 < RING THEN t + i - 1 ELSE t + i - 1 - RING]
  <2>1. HoldsRing(old, cells, h, t)
    BY BetweenSeq
  <2> QED
    BY <2>1 DEF HoldsRing
<1>4. /\ new \in Seq(S) /\ Len(new) = (IF g >= t THEN g - t ELSE g - t + RING)
      /\ \A i \in 1 .. Len(new) : new[i] = r2[IF t + i - 1 < RING THEN t + i - 1
         ELSE t + i - 1 - RING]
  <2>1. HoldsRing(new, r2, g, t)
    BY <1>2, BetweenSeq
  <2> QED
    BY <2>1 DEF HoldsRing
<1> HIDE DEF old, new, n, S
<1>5. g # t <=> n < RING - 1
  BY RingFull DEF n, old
<1>6. ASSUME g # t PROVE new = Append(old, ch)
  <2>1. Len(new) = n + 1
    BY <1>1, <1>3, <1>4, <1>6
  <2>2. /\ Append(old, ch) \in Seq(S) /\ Len(Append(old, ch)) = n + 1
        /\ Append(old, ch)[n + 1] = ch /\ \A i \in 1 .. n : Append(old, ch)[i] = old[i]
    <3>1. ch \in S
      BY DEF S
    <3>2. old \in Seq(S) /\ n = Len(old)
      BY <1>3 DEF n
    <3> QED
      BY ONLY <3>1, <3>2, AppendProperties
  <2>3. ASSUME NEW i \in 1 .. n + 1 PROVE new[i] = Append(old, ch)[i]
    <3> DEFINE j == IF t + i - 1 < RING THEN t + i - 1 ELSE t + i - 1 - RING
    <3>1. new[i] = r2[j]
      BY <1>4, <2>1
    <3>2. CASE i \in 1 .. n
      <4>1. j \in 0 .. RING - 1 /\ j # h
        BY <1>3, <3>2
      <4>2. old[i] = cells[j]
        BY <1>3, <3>2
      <4> QED
        BY <1>2, <2>2, <3>1, <3>2, <4>1, <4>2
    <3>3. CASE i = n + 1
      <4>1. j = h
        BY <1>3, <3>3
      <4> QED
        BY <1>2, <2>2, <3>1, <3>3, <4>1
    <3>4. i \in 1 .. n \/ i = n + 1
      <4>1. n \in Nat
        BY <1>3
      <4> QED
        BY <4>1
    <3> QED
      BY <3>2, <3>3, <3>4
  <2> QED
    BY <1>4, <2>1, <2>2, <2>3, SeqEqual
<1> QED
  BY <1>5, <1>6 DEF old, new, n

\* keyboard_get_char takes the oldest character off.
LEMMA AdvanceTakes ==
  ASSUME NEW cells \in [0 .. RING - 1 -> Chars \cup {Nul}],
         NEW h \in 0 .. RING - 1, NEW t \in 0 .. RING - 1, h # t,
         NEW u \in 0 .. RING - 1, u = (t + 1) % RING
  PROVE  /\ Between(cells, h, t) # <<>> /\ Head(Between(cells, h, t)) = cells[t]
         /\ Between(cells, h, u) = Tail(Between(cells, h, t))
<1> USE ConsoleAssumption
<1> DEFINE S == Chars \cup {Nul}
           old == Between(cells, h, t)
           new == Between(cells, h, u)
           n == Len(old)
<1>1. u = IF t + 1 < RING THEN t + 1 ELSE 0
  <2>1. t + 1 \in Int /\ -RING < t + 1 /\ t + 1 < RING + RING /\ RING \in Nat /\ RING > 0
    OBVIOUS
  <2>2. (t + 1) % RING = IF t + 1 < 0 THEN t + 1 + RING
                         ELSE IF t + 1 < RING THEN t + 1 ELSE t + 1 - RING
    BY <2>1, WrapUp
  <2> QED
    BY <2>2
<1>2. /\ old \in Seq(S) /\ n = (IF h >= t THEN h - t ELSE h - t + RING) /\ n \in Nat
      /\ \A i \in 1 .. n : old[i] = cells[IF t + i - 1 < RING THEN t + i - 1 ELSE t + i - 1 - RING]
  <2>1. HoldsRing(old, cells, h, t)
    BY BetweenSeq
  <2> QED
    BY <2>1 DEF HoldsRing
<1>3. /\ new \in Seq(S) /\ Len(new) = (IF h >= u THEN h - u ELSE h - u + RING)
      /\ \A i \in 1 .. Len(new) : new[i] = cells[IF u + i - 1 < RING THEN u + i - 1
         ELSE u + i - 1 - RING]
  <2>1. HoldsRing(new, cells, h, u)
    BY BetweenSeq
  <2> QED
    BY <2>1 DEF HoldsRing
<1> HIDE DEF old, new, n, S
<1>4. n > 0 /\ Len(new) = n - 1
  BY <1>1, <1>2, <1>3
<1>5. old # <<>> /\ Head(old) = old[1] /\ Len(Tail(old)) = n - 1 /\ Tail(old) \in Seq(S)
      /\ \A i \in 1 .. n - 1 : Tail(old)[i] = old[i + 1]
  <2>1. old # <<>>
    BY <1>2, <1>4 DEF n
  <2> QED
    BY <1>2, <2>1, HeadTailProperties DEF n
<1>6. old[1] = cells[t]
  <2>1. (IF t + 1 - 1 < RING THEN t + 1 - 1 ELSE t + 1 - 1 - RING) = t /\ 1 \in 1 .. n
    BY <1>2, <1>4
  <2> QED
    BY <1>2, <2>1
<1>7. ASSUME NEW i \in 1 .. n - 1 PROVE new[i] = Tail(old)[i]
  <2>1. (IF u + i - 1 < RING THEN u + i - 1 ELSE u + i - 1 - RING)
        = (IF t + (i + 1) - 1 < RING THEN t + (i + 1) - 1 ELSE t + (i + 1) - 1 - RING)
    <3>1. n \in Nat /\ i \in Int
      BY <1>2
    <3>2. CASE t + 1 < RING
      <4>1. u + i - 1 = t + (i + 1) - 1
        BY <1>1, <3>1, <3>2
      <4> QED
        BY ONLY <3>1, <4>1, t \in Int, u \in Int, RING \in Nat
    <3>3. CASE ~(t + 1 < RING)
      <4>1. u = 0 /\ t = RING - 1 /\ i < RING /\ i >= 1
        BY <1>1, <1>2, <3>1, <3>3
      <4> QED
        BY <3>1, <4>1
    <3> QED
      BY <3>2, <3>3
  <2>2. i + 1 \in 1 .. n /\ i \in 1 .. Len(new)
    BY <1>2, <1>4
  <2>3. Tail(old)[i] = old[i + 1]
    BY <1>5
  <2>4. old[i + 1]
        = cells[IF t + (i + 1) - 1 < RING THEN t + (i + 1) - 1 ELSE t + (i + 1) - 1 - RING]
    BY <1>2, <2>2
  <2>5. new[i] = cells[IF u + i - 1 < RING THEN u + i - 1 ELSE u + i - 1 - RING]
    BY <1>3, <2>2
  <2> QED
    BY ONLY <2>1, <2>3, <2>4, <2>5
<1>8. new = Tail(old)
  BY <1>3, <1>4, <1>5, <1>7, SeqEqual
<1> QED
  BY <1>5, <1>6, <1>8 DEF old, new

\* An empty ring is an empty queue.
LEMMA RingInitOK == ConsoleInit => RingIInv /\ Queue!QueueInit
<1> SUFFICES ASSUME ConsoleInit PROVE RingIInv /\ Queue!QueueInit
  OBVIOUS
<1> USE ConsoleAssumption
<1>1. g_key_ring \in [0 .. RING - 1 -> Chars \cup {Nul}] /\ g_key_head = 0 /\ g_key_tail = 0
      /\ shell_pc = "check" /\ c = Nul /\ typed = FALSE
  BY DEF ConsoleInit
<1>2. RingIInv
  BY <1>1 DEF RingIInv
<1>3. Between(g_key_ring, 0, 0) \in Seq(Chars \cup {Nul}) /\ Len(Between(g_key_ring, 0, 0)) = 0
  BY <1>1, BetweenSeq DEF HoldsRing
<1>4. InRing = <<>>
  <2>1. InRing = Between(g_key_ring, 0, 0)
    BY <1>1 DEF InRing, Between
  <2> QED
    BY <1>3, <2>1
<1> QED
  BY <1>1, <1>2, <1>4 DEF Queue!QueueInit

\* A step of the queue, or none.
QueueStep == Queue!QueueNext \/ UNCHANGED <<InRing, c, typed>>

\* The refinement mapping before and after a step.
LEMMA ViewOfRing == InRing = Between(g_key_ring, g_key_head, g_key_tail)
                    /\ InRing' = Between(g_key_ring', g_key_head', g_key_tail')
BY DEF InRing, Between

\* The keyboard interrupt appends a character, drops it when the ring is full, or only
\* changes the shift state.
LEMMA CallbackOK ==
  ASSUME RingIInv, NEW sc \in Scancodes, keyboard_callback(sc) PROVE RingIInv' /\ QueueStep
<1> USE ConsoleAssumption
<1> DEFINE ch == Ascii(sc, shift_pressed)
<1>1. UNCHANGED <<g_key_tail, shell_pc, tmp, c>>
  BY DEF keyboard_callback
<1>2. CASE ch = Nul
  <2>1. UNCHANGED <<g_key_ring, g_key_head, typed>>
    BY <1>2 DEF keyboard_callback
  <2> QED
    BY <1>1, <2>1 DEF RingIInv, QueueStep, InRing
<1>3. CASE ch # Nul
  <2>1. ch \in Chars
    BY <1>3 DEF Ascii, Chars, Printable
  <2>2. key_ring_push(ch) /\ typed' = ~typed
    BY <1>3 DEF keyboard_callback
  <2> HIDE DEF ch
  <2> DEFINE g == (g_key_head + 1) % RING
  <2>3. g \in 0 .. RING - 1
    BY DEF RingIInv
  <2>4. CASE g # g_key_tail
    <3>1. g_key_ring' = [g_key_ring EXCEPT ![g_key_head] = ch] /\ g_key_head' = g
      BY <2>2, <2>4 DEF key_ring_push
    <3> HIDE DEF g
    <3>2. Len(InRing) < RING - 1 /\ InRing' = Append(InRing, ch)
      <4> DEFINE old == Between(g_key_ring, g_key_head, g_key_tail)
                 new == Between(g_key_ring', g, g_key_tail)
      <4>1. /\ g_key_ring \in [0 .. RING - 1 -> Chars \cup {Nul}]
            /\ g_key_head \in 0 .. RING - 1 /\ g_key_tail \in 0 .. RING - 1
            /\ g = (g_key_head + 1) % RING
        BY DEF RingIInv, g
      <4>2. Len(old) < RING - 1 /\ new = Append(old, ch)
        <5>1. Stored(g_key_ring', g_key_ring, g_key_head, ch)
          BY <3>1 DEF Stored
        <5> QED
          BY ONLY <2>1, <2>3, <2>4, <4>1, <5>1, PushAppends
      <4>3. InRing = old /\ InRing' = new
        BY <1>1, <3>1, ViewOfRing
      <4> HIDE DEF old, new
      <4> QED
        BY <4>2, <4>3
    <3>3. RingIInv'
      <4>1. g_key_ring' \in [0 .. RING - 1 -> Chars \cup {Nul}]
        BY <2>1, <3>1 DEF RingIInv
      <4>2. g_key_ring'[g_key_tail] = g_key_ring[g_key_tail] \/ g_key_head = g_key_tail
        BY <3>1 DEF RingIInv
      <4> QED
        BY <1>1, <2>3, <2>4, <3>1, <4>1, <4>2 DEF RingIInv
    <3> QED
      BY <1>1, <2>1, <2>2, <3>2, <3>3 DEF QueueStep, Queue!QueueNext, Queue!Type
  <2>5. CASE g = g_key_tail
    <3>1. UNCHANGED <<g_key_ring, g_key_head>>
      BY <2>2, <2>5 DEF key_ring_push
    <3> HIDE DEF g
    <3>2. ~(Len(InRing) < RING - 1) /\ InRing' = InRing
      BY <1>1, <2>3, <2>5, <3>1, RingFull, ViewOfRing DEF RingIInv, g
    <3> QED
      BY <1>1, <2>1, <2>2, <3>1, <3>2 DEF RingIInv, QueueStep, Queue!QueueNext, Queue!Type
  <2> QED
    BY <2>4, <2>5
<1> QED
  BY <1>2, <1>3

\* keyboard_get_char finds nothing.
LEMMA EmptyOK == ASSUME RingIInv, GetEmpty PROVE RingIInv' /\ QueueStep
<1> USE ConsoleAssumption
<1>1. g_key_head = g_key_tail /\ c' = Nul /\ UNCHANGED <<ringVars, shell_pc, tmp>>
  BY DEF GetEmpty
<1>2. InRing \in Seq(Chars \cup {Nul}) /\ Len(InRing) = 0
  BY <1>1, BetweenSeq, ViewOfRing DEF RingIInv, HoldsRing
<1>3. InRing = <<>> /\ InRing' = InRing
  <2>1. InRing = <<>>
    BY <1>2, EmptySeq
  <2>2. InRing' = InRing
    BY <1>1, ViewOfRing DEF ringVars
  <2> QED
    BY <2>1, <2>2
<1> QED
  BY <1>1, <1>3 DEF RingIInv, ringVars, QueueStep, Queue!QueueNext, Queue!Get

\* keyboard_get_char moves the tail on and returns what it read.
LEMMA GetAdvanceOK == ASSUME RingIInv, GetAdvance PROVE RingIInv' /\ QueueStep
<1> USE ConsoleAssumption
<1>1. /\ shell_pc = "advance" /\ g_key_tail' = (g_key_tail + 1) % RING /\ c' = tmp
      /\ shell_pc' = "handle" /\ UNCHANGED <<g_key_ring, g_key_head, typed>>
  BY DEF GetAdvance
<1>2. g_key_tail' \in 0 .. RING - 1
  BY <1>1 DEF RingIInv
<1>3. g_key_head # g_key_tail /\ tmp = g_key_ring[g_key_tail]
  BY <1>1 DEF RingIInv
<1>4. InRing # <<>> /\ Head(InRing) = c' /\ InRing' = Tail(InRing)
  <2> DEFINE old == Between(g_key_ring, g_key_head, g_key_tail)
             new == Between(g_key_ring, g_key_head, g_key_tail')
  <2>1. old # <<>> /\ Head(old) = g_key_ring[g_key_tail] /\ new = Tail(old)
    BY <1>1, <1>2, <1>3, AdvanceTakes DEF RingIInv
  <2>2. InRing = old /\ InRing' = new
    BY <1>1, ViewOfRing
  <2> HIDE DEF old, new
  <2> QED
    BY <1>1, <1>3, <2>1, <2>2
<1> QED
  BY <1>1, <1>2, <1>4 DEF RingIInv, QueueStep, Queue!QueueNext, Queue!Get

\* The shell's own steps leave the ring alone.
LEMMA ShellOK == ASSUME RingIInv, Shell PROVE RingIInv' /\ QueueStep
<1>1. ASSUME GetCheck \/ GetRead PROVE RingIInv' /\ QueueStep
  BY <1>1 DEF GetCheck, GetRead, RingIInv, ringVars, QueueStep, InRing
<1>2. ASSUME ShellEnter \/ ShellBackspace \/ ShellChar PROVE RingIInv' /\ QueueStep
  <2>1. UNCHANGED ringVars /\ UNCHANGED <<c, tmp>> /\ shell_pc' \in {"handle", "check"}
    BY <1>2 DEF ShellEnter, ShellBackspace, ShellChar
  <2> QED
    BY <2>1 DEF RingIInv, ringVars, QueueStep, InRing
<1> QED
  BY <1>1, <1>2, EmptyOK, GetAdvanceOK DEF Shell

\* The unlocked key ring between interrupt and reader is a queue that drops only when it
\* is full, for a ring of any length and any keys, wherever between its steps
\* keyboard_get_char is interrupted (keyboard_callback, keyboard_get_char).
THEOREM ConsoleImplementsQueue == ConsoleSpec => ImplementsQueue
<1>1. RingIInv /\ [ConsoleNext]_consoleVars => RingIInv' /\ QueueStep
  <2>1. ASSUME RingIInv, UNCHANGED consoleVars PROVE RingIInv' /\ QueueStep
    BY <2>1 DEF consoleVars, RingIInv, QueueStep, InRing
  <2> QED
    BY <2>1, ShellOK, CallbackOK DEF ConsoleNext
<1>2. QueueStep => [Queue!QueueNext]_(Queue!queueVars)
  BY DEF QueueStep, Queue!queueVars
<1> QED
  BY <1>1, <1>2, RingInitOK, PTL DEF ConsoleSpec, ImplementsQueue, Queue!QueueSpec

----------------------------------------------------------------------------
(* The rings of the USB controller.                                         *)

\* The entries of the event ring.
Events == 0 .. XHCI_EVENT_RING_SIZE - 1

\* A ring of the driver, an event, and the controller's side of a ring.
RingType == [trbs : [0 .. Link -> [cycle : Bit, n : Nat]], enqueue : 0 .. Link - 1, pcs : Bit]

EventTypes == {"none", "command", "transfer", "port"}
EventType == [cycle : Bit, type : EventTypes, good : BOOLEAN, n : Nat]
EventRingType == [Events -> EventType]

HcType == [deq : 0 .. Link, ccs : Bit, running : BOOLEAN, halted : BOOLEAN]

\* A ring is a queue of the TRBs numbered d + 1 to n: which entries the driver filled in this
\* lap and which are left from the last one can be told by their cycle bits, and the
\* controller at deq with cycle state ccs has done d of them (ring_enqueue).
TrbQueue(R, deq, ccs, n, d) ==
  /\ n \in Nat /\ d \in Nat
  /\ \A i \in 0 .. Link - 1 : R.trbs[i].cycle = IF i < R.enqueue THEN R.pcs ELSE 1 - R.pcs
  /\ \A i \in 0 .. Link - 1 : i < R.enqueue => R.trbs[i].n = n - R.enqueue + i + 1
  /\ ccs = R.pcs => deq <= R.enqueue /\ d = n - R.enqueue + deq
  /\ ccs # R.pcs => /\ R.enqueue < deq /\ d = n - R.enqueue - Link + deq
                    /\ R.trbs[Link].cycle = ccs
                    /\ \A i \in 0 .. Link - 1 :
                         i >= R.enqueue => R.trbs[i].n = n - R.enqueue - Link + i + 1

\* The event ring is a queue of the events numbered d + 1 to n (consume_event).
EventQueue(E, enq, pcs, deq, ccs, n, d) ==
  /\ n \in Nat /\ d \in Nat
  /\ \A i \in Events : E[i].cycle = IF i < enq THEN pcs ELSE 1 - pcs
  /\ \A i \in Events : i < enq => E[i].n = n - enq + i + 1
  /\ ccs = pcs => deq <= enq /\ d = n - enq + deq
  /\ ccs # pcs => /\ enq < deq /\ d = n - enq - XHCI_EVENT_RING_SIZE + deq
                  /\ \A i \in Events :
                       i >= enq => E[i].n = n - enq - XHCI_EVENT_RING_SIZE + i + 1

\* Entry i holds an event posted and not consumed.
Waiting(enq, pcs, deq, ccs, i) ==
  IF ccs = pcs THEN deq <= i /\ i < enq ELSE deq <= i \/ i < enq

\* The event of entry i is the completion of a command.
Answer(E, i) == E[i].type = "command"

\* No completion of a command waits to be consumed; at most one does.
NoAnswer(E, enq, pcs, deq, ccs) ==
  \A i \in Events : Waiting(enq, pcs, deq, ccs, i) => ~Answer(E, i)

OneAnswer(E, enq, pcs, deq, ccs) ==
  \A i, j \in Events :
    (/\ Waiting(enq, pcs, deq, ccs, i) /\ Answer(E, i)
     /\ Waiting(enq, pcs, deq, ccs, j) /\ Answer(E, j)) => i = j

\* The same of the present state.
Unanswered == NoAnswer(evt, evt_hc.enq, evt_hc.pcs, evt_drv.deq, evt_drv.ccs)
OneAnswered == OneAnswer(evt, evt_hc.enq, evt_hc.pcs, evt_drv.deq, evt_drv.ccs)
\* All commands are executed and their completions consumed.
Settled == done["cmd"] = sent["cmd"] /\ Unanswered

\* The transfers and commands of a plan.
OpNames == {"enable_slot", "address_device", "device_desc", "config_desc",
            "set_configuration", "configure_ep", "bulk"}
Ops == [ring : Rings, trbs : 1 .. 3, name : OpNames]

\* TRBs the rest of xhci_init's plan enqueues beyond the one a wait accounts for.
Slack(name) == IF name \in {"enable_slot", "address_device"} THEN 5
               ELSE IF name = "device_desc" THEN 3
               ELSE IF name = "config_desc" THEN 1 ELSE 0

\* A plan: commands are one TRB, and no transfer exceeds the slack of the one before.
PlanOK(p) ==
  /\ p \in Seq(Ops)
  /\ \A i \in 1 .. Len(p) : p[i].ring = "cmd" => p[i].trbs = 1
  /\ \A i \in 1 .. Len(p) - 1 :
       p[i + 1].trbs - 1 + Slack(p[i + 1].name) <= Slack(p[i].name)

\* Commands follow the current transfer.
CommandsAhead(p) == \E i \in 2 .. Len(p) : p[i].ring = "cmd"

\* A command is enqueued only when the one before has been answered: the completion
\* wait_cmd_complete consumes is the one it waits for (issue_cmd).
CommandInv ==
  /\ pc = "off" => Settled
  /\ plan # <<>> /\ plan[1].ring # "cmd" /\ CommandsAhead(plan) => Settled
  /\ plan # <<>> /\ plan[1].ring = "cmd" =>
       /\ pc = "enqueue" => Settled /\ left = 1
       /\ pc = "wait" => \/ done["cmd"] = sent["cmd"] /\ OneAnswered
                         \/ done["cmd"] + 1 = sent["cmd"] /\ Unanswered
       /\ pc = "return" /\ ok => Settled

\* TRBs enqueued and not executed.
Ahead == (sent["cmd"] - done["cmd"]) + (sent["ep0"] - done["ep0"])
         + (sent["out"] - done["out"]) + (sent["in"] - done["in"])

\* What the current call may still enqueue unaccounted.
Reserve == IF pc = "off" THEN 6
           ELSE IF pc = "idle" THEN 1
           ELSE IF pc = "return" THEN 1 + Slack(plan[1].name)
           ELSE IF pc \in {"enqueue", "wait"} THEN Slack(plan[1].name) ELSE 0

\* The bound on how far the driver runs ahead: TRBs not executed, events not consumed, and
\* all that could still add to them.  No step raises it.
RunAhead == Ahead + (posted - taken) + left + budget.give_ups + budget.ports + Reserve

\* The budget is a budget.
BudgetOK == budget \in [commands : Nat, phases : SUBSET {"none", "in", "out"},
                        give_ups : Nat, errors : Nat, ports : Nat]

\* The memory driver and controller share: every ring is a queue.
SharedOK ==
  /\ ring \in [Rings -> RingType] /\ hc \in [Rings -> HcType]
  /\ evt \in EventRingType
  /\ evt_hc \in [enq : Events, pcs : Bit] /\ evt_drv \in [deq : Events, ccs : Bit]
  /\ sent \in [Rings -> Nat] /\ done \in [Rings -> Nat]
  /\ \A r \in Rings : TrbQueue(ring[r], hc[r].deq, hc[r].ccs, sent[r], done[r])
  /\ EventQueue(evt, evt_hc.enq, evt_hc.pcs, evt_drv.deq, evt_drv.ccs, posted, taken)
  /\ erdp = evt_drv.deq

\* The places of a call in progress.
Busy == {"enqueue", "wait", "return"}

\* The driver's own state.
DriverOK ==
  /\ pc \in {"off", "idle", "failed"} \cup Busy
  /\ left \in 0 .. 3 /\ ok \in BOOLEAN
  /\ pc \in Busy <=> plan # <<>>
  /\ pc = "enqueue" <=> left > 0
  /\ BudgetOK /\ PlanOK(plan)

\* The inductive invariant: the rings are queues, commands are answered in turn, and the
\* driver cannot run ahead by a whole ring.
XhciIInv == SharedOK /\ DriverOK /\ CommandInv /\ RunAhead < Link

\* The named assumption in the form the proofs use.
LEMMA LinkFacts == Link \in Nat /\ Link > 1
BY XhciAssumption DEF Link

\* The same for the event ring.
LEMMA EventSizes == XHCI_EVENT_RING_SIZE \in Nat /\ XHCI_EVENT_RING_SIZE > 1
BY XhciAssumption

\* What ring_enqueue does to each entry.
LEMMA EnqueueFields ==
  ASSUME NEW R \in RingType, NEW n \in Nat
  PROVE  /\ ring_enqueue(R, n) \in RingType
         /\ \A i \in 0 .. Link - 1 :
              ring_enqueue(R, n).trbs[i] = IF i = R.enqueue THEN [cycle |-> R.pcs, n |-> n]
                                                            ELSE R.trbs[i]
         /\ R.enqueue + 1 < Link =>
              /\ ring_enqueue(R, n).enqueue = R.enqueue + 1 /\ ring_enqueue(R, n).pcs = R.pcs
              /\ ring_enqueue(R, n).trbs[Link] = R.trbs[Link]
         /\ R.enqueue + 1 >= Link =>
              /\ ring_enqueue(R, n).enqueue = 0 /\ ring_enqueue(R, n).pcs = 1 - R.pcs
              /\ ring_enqueue(R, n).trbs[Link].cycle = R.pcs
<1> DEFINE put == [R.trbs EXCEPT ![R.enqueue] = [cycle |-> R.pcs, n |-> n]]
           linked == [put EXCEPT ![Link].cycle = R.pcs]
<1>1. /\ R.trbs \in [0 .. Link -> [cycle : Bit, n : Nat]]
      /\ R.enqueue \in 0 .. Link - 1 /\ R.pcs \in Bit /\ 1 - R.pcs \in Bit
  BY DEF RingType, Bit
<1>2. [cycle |-> R.pcs, n |-> n] \in [cycle : Bit, n : Nat]
  BY <1>1
<1>3. /\ put \in [0 .. Link -> [cycle : Bit, n : Nat]]
      /\ \A i \in 0 .. Link : put[i] = IF i = R.enqueue THEN [cycle |-> R.pcs, n |-> n]
                                                       ELSE R.trbs[i]
  BY <1>1, <1>2
<1>4. Link \in 0 .. Link /\ R.enqueue # Link /\ \A i \in 0 .. Link - 1 : i \in 0 .. Link /\ i # Link
  BY <1>1, LinkFacts
<1>5. put[Link] \in [cycle : Bit, n : Nat]
  BY <1>3, <1>4
<1>6. /\ linked \in [0 .. Link -> [cycle : Bit, n : Nat]]
      /\ \A i \in 0 .. Link - 1 : linked[i] = put[i]
      /\ linked[Link].cycle = R.pcs
  <2> HIDE DEF put
  <2>1. [put[Link] EXCEPT !.cycle = R.pcs] \in [cycle : Bit, n : Nat]
    BY <1>1, <1>5
  <2>2. [put[Link] EXCEPT !.cycle = R.pcs].cycle = R.pcs
    BY <1>5
  <2> QED
    BY <1>3, <1>4, <2>1, <2>2
<1>7. CASE R.enqueue + 1 < Link
  <2>1. ring_enqueue(R, n) = [trbs |-> put, enqueue |-> R.enqueue + 1, pcs |-> R.pcs]
    BY <1>1, <1>7, LinkFacts DEF ring_enqueue
  <2> HIDE DEF put, linked
  <2>2. R.enqueue + 1 \in 0 .. Link - 1 /\ ~(R.enqueue + 1 >= Link)
    BY <1>1, <1>7, LinkFacts
  <2>3. ring_enqueue(R, n) \in RingType
    BY <1>1, <1>3, <2>1, <2>2 DEF RingType
  <2>4. ring_enqueue(R, n).trbs = put
    BY <2>1
  <2>5. ring_enqueue(R, n).enqueue = R.enqueue + 1 /\ ring_enqueue(R, n).pcs = R.pcs
    BY <2>1
  <2> QED
    BY <1>3, <1>4, <2>2, <2>3, <2>4, <2>5
<1>8. CASE R.enqueue + 1 >= Link
  <2>1. ring_enqueue(R, n) = [trbs |-> linked, enqueue |-> 0, pcs |-> 1 - R.pcs]
    BY <1>8 DEF ring_enqueue
  <2> HIDE DEF put, linked
  <2>2. 0 \in 0 .. Link - 1 /\ ~(R.enqueue + 1 < Link)
    BY <1>1, <1>8, LinkFacts
  <2>3. ring_enqueue(R, n) \in RingType
    BY <1>1, <1>6, <2>1, <2>2 DEF RingType
  <2>4. ring_enqueue(R, n).trbs = linked
    BY <2>1
  <2>5. ring_enqueue(R, n).enqueue = 0 /\ ring_enqueue(R, n).pcs = 1 - R.pcs
    BY <2>1
  <2> QED
    BY <1>3, <1>4, <1>6, <2>2, <2>3, <2>4, <2>5
<1> QED
  BY <1>1, <1>7, <1>8, LinkFacts

\* ring_enqueue appends, also at the end of a lap, as long as the ring is not full.
LEMMA Enqueued ==
  ASSUME NEW R \in RingType, NEW deq \in 0 .. Link, NEW ccs \in Bit, NEW n, NEW d,
         TrbQueue(R, deq, ccs, n, d), n - d + 1 < Link
  PROVE  /\ ring_enqueue(R, n + 1) \in RingType
         /\ TrbQueue(ring_enqueue(R, n + 1), deq, ccs, n + 1, d)
<1> DEFINE Q == ring_enqueue(R, n + 1)
<1>1. n \in Nat /\ d \in Nat /\ n + 1 \in Nat
  BY DEF TrbQueue
<1>2. /\ R.trbs \in [0 .. Link -> [cycle : Bit, n : Nat]]
      /\ R.enqueue \in 0 .. Link - 1 /\ R.pcs \in {0, 1} /\ ccs \in {0, 1}
  BY DEF RingType, Bit
<1>3. Q \in RingType
  BY <1>1, EnqueueFields
<1>4. \A i \in 0 .. Link - 1 :
        /\ i # R.enqueue => Q.trbs[i] = R.trbs[i]
        /\ i = R.enqueue => Q.trbs[i] = [cycle |-> R.pcs, n |-> n + 1]
  BY <1>1, EnqueueFields
<1>5. /\ R.enqueue + 1 < Link => /\ Q.enqueue = R.enqueue + 1 /\ Q.pcs = R.pcs
                                 /\ Q.trbs[Link] = R.trbs[Link]
      /\ R.enqueue + 1 >= Link => /\ Q.enqueue = 0 /\ Q.pcs = 1 - R.pcs
                                  /\ Q.trbs[Link].cycle = R.pcs
  BY <1>1, EnqueueFields
<1> HIDE DEF Q
<1>6. PICK e \in 0 .. Link - 1, p \in {0, 1} : e = R.enqueue /\ p = R.pcs
  BY <1>2
<1>7. \A i \in 0 .. Link - 1 :
        /\ i # e => Q.trbs[i].cycle = R.trbs[i].cycle /\ Q.trbs[i].n = R.trbs[i].n
        /\ i = e => Q.trbs[i].cycle = p /\ Q.trbs[i].n = n + 1
  BY <1>4, <1>6
<1>8. \A i \in 0 .. Link - 1 : R.trbs[i].cycle = IF i < e THEN p ELSE 1 - p
  BY <1>6 DEF TrbQueue
<1>9. \A i \in 0 .. Link - 1 : i < e => R.trbs[i].n = n - e + i + 1
  BY <1>6 DEF TrbQueue
<1>10. /\ ccs = p => deq <= e /\ d = n - e + deq
       /\ ccs # p => e < deq /\ d = n - e - Link + deq /\ R.trbs[Link].cycle = ccs
  BY <1>6 DEF TrbQueue
<1>11. ccs # p => \A i \in 0 .. Link - 1 : i >= e => R.trbs[i].n = n - e - Link + i + 1
  BY <1>6 DEF TrbQueue
<1>12. CASE e + 1 < Link
  <2>1. Q.enqueue = e + 1 /\ Q.pcs = p /\ Q.trbs[Link] = R.trbs[Link]
    BY <1>5, <1>6, <1>12
  <2>2. \A i \in 0 .. Link - 1 : Q.trbs[i].cycle = IF i < e + 1 THEN p ELSE 1 - p
    BY <1>7, <1>8, LinkFacts
  <2>3. ASSUME NEW i \in 0 .. Link - 1, i < e + 1 PROVE Q.trbs[i].n = (n + 1) - (e + 1) + i + 1
    <3>1. n - e + i + 1 = (n + 1) - (e + 1) + i + 1 /\ (i = e => n + 1 = (n + 1) - (e + 1) + i + 1)
      BY <1>1, LinkFacts
    <3>2. CASE i = e
      BY <1>7, <3>1, <3>2
    <3>3. CASE i # e
      <4>1. i < e
        BY <2>3, <3>3, LinkFacts
      <4> QED
        BY <1>7, <1>9, <3>1, <3>3, <4>1
    <3> QED
      BY <3>2, <3>3
  <2>4. ccs = p => deq <= e + 1 /\ d = (n + 1) - (e + 1) + deq
    BY <1>1, <1>10, LinkFacts
  <2>5. ccs # p => e + 1 < deq /\ d = (n + 1) - (e + 1) - Link + deq
    BY <1>1, <1>10, LinkFacts
  <2>6. ASSUME ccs # p, NEW i \in 0 .. Link - 1, i >= e + 1
        PROVE  Q.trbs[i].n = (n + 1) - (e + 1) - Link + i + 1
    <3>1. /\ n - e - Link + i + 1 = (n + 1) - (e + 1) - Link + i + 1
          /\ i >= e /\ i # e
      BY <1>1, <2>6, LinkFacts
    <3> QED
      BY <1>7, <1>11, <2>6, <3>1
  <2>7. Q.trbs[Link].cycle = R.trbs[Link].cycle
    BY <2>1
  <2> QED
    BY <1>1, <1>3, <1>10, <2>1, <2>2, <2>3, <2>4, <2>5, <2>6, <2>7, Zenon DEF TrbQueue, Q
<1>13. CASE e + 1 >= Link
  <2>1. /\ Q.enqueue = 0 /\ Q.pcs = 1 - p /\ Q.trbs[Link].cycle = p
        /\ e = Link - 1
    BY <1>5, <1>6, <1>13, LinkFacts
  <2>2. ccs = p /\ ccs # 1 - p /\ 1 - (1 - p) = p
    <3>1. ccs # p => FALSE
      BY <1>1, <1>10, <2>1, LinkFacts
    <3> QED
      BY <3>1
  <2>3. \A i \in 0 .. Link - 1 : Q.trbs[i].cycle = IF i < 0 THEN 1 - p ELSE 1 - (1 - p)
    BY <1>7, <1>8, <2>1, LinkFacts
  <2>4. \A i \in 0 .. Link - 1 : ~(i < 0)
    BY LinkFacts
  <2>5. 0 < deq /\ d = (n + 1) - 0 - Link + deq
    BY <1>1, <1>10, <2>1, <2>2, LinkFacts
  <2>6. ASSUME NEW i \in 0 .. Link - 1 PROVE Q.trbs[i].n = (n + 1) - 0 - Link + i + 1
    <3>1. n - e + i + 1 = (n + 1) - 0 - Link + i + 1
          /\ (i = e => n + 1 = (n + 1) - 0 - Link + i + 1)
      BY <1>1, <2>1, LinkFacts
    <3>2. CASE i = e
      BY <1>7, <3>1, <3>2
    <3>3. CASE i # e
      <4>1. i < e
        BY <2>1, <3>3, LinkFacts
      <4> QED
        BY <1>7, <1>9, <3>1, <3>3, <4>1
    <3> QED
      BY <3>2, <3>3
  <2> QED
    BY <1>1, <1>3, <2>1, <2>2, <2>3, <2>4, <2>5, <2>6, Zenon DEF TrbQueue, Q
<1> QED
  BY <1>12, <1>13, LinkFacts

\* The entry the controller finds valid is the next of the queue.
LEMMA Executed ==
  ASSUME NEW R \in RingType, NEW deq \in 0 .. Link, NEW ccs \in Bit, NEW n, NEW d,
         TrbQueue(R, deq, ccs, n, d), deq # Link, R.trbs[deq].cycle = ccs
  PROVE  /\ R.trbs[deq].n = d + 1 /\ d + 1 <= n
         /\ TrbQueue(R, deq + 1, ccs, n, d + 1)
<1>1. n \in Nat /\ d \in Nat /\ R.enqueue \in 0 .. Link - 1 /\ R.pcs \in {0, 1}
      /\ ccs \in {0, 1} /\ deq \in 0 .. Link - 1
  BY LinkFacts DEF TrbQueue, RingType, Bit
<1>2. R.trbs[deq].cycle = IF deq < R.enqueue THEN R.pcs ELSE 1 - R.pcs
  BY <1>1 DEF TrbQueue
<1>3. CASE ccs = R.pcs
  <2>0. deq < R.enqueue
    <3>1. \A p \in {0, 1} : 1 - p # p
      OBVIOUS
    <3>2. 1 - R.pcs # R.pcs
      BY <1>1, <3>1
    <3> QED
      BY <1>2, <1>3, <3>2, Zenon
  <2>1. deq < R.enqueue /\ d = n - R.enqueue + deq /\ R.trbs[deq].n = n - R.enqueue + deq + 1
    BY <1>1, <1>3, <2>0 DEF TrbQueue
  <2> QED
    BY <1>1, <1>3, <2>1, LinkFacts DEF TrbQueue
<1>4. CASE ccs # R.pcs
  <2>1. /\ R.enqueue < deq /\ d = n - R.enqueue - Link + deq
        /\ R.trbs[deq].n = n - R.enqueue - Link + deq + 1
    BY <1>1, <1>4, LinkFacts DEF TrbQueue
  <2> QED
    BY <1>1, <1>4, <2>1, LinkFacts DEF TrbQueue
<1> QED
  BY <1>3, <1>4

\* Following the link changes nothing of the queue.
LEMMA Followed ==
  ASSUME NEW R \in RingType, NEW ccs \in Bit, NEW n, NEW d,
         TrbQueue(R, Link, ccs, n, d)
  PROVE  TrbQueue(R, 0, 1 - ccs, n, d)
<1>1. n \in Nat /\ d \in Nat /\ R.enqueue \in 0 .. Link - 1 /\ R.pcs \in {0, 1} /\ ccs \in {0, 1}
  BY DEF TrbQueue, RingType, Bit
<1>2. ccs # R.pcs /\ 1 - ccs = R.pcs
  BY <1>1, LinkFacts DEF TrbQueue
<1>3. d = n - R.enqueue + 0
  BY <1>1, <1>2, LinkFacts DEF TrbQueue
<1> QED
  BY <1>1, <1>2, <1>3, LinkFacts DEF TrbQueue

\* In a queue, the entry at the dequeue pointer is valid exactly if there is one to do.
LEMMA QueueInOrder ==
  ASSUME NEW R \in RingType, NEW deq \in 0 .. Link, NEW ccs \in Bit, NEW n, NEW d,
         TrbQueue(R, deq, ccs, n, d)
  PROVE  /\ d <= n
         /\ deq # Link => IF n > d THEN R.trbs[deq].cycle = ccs /\ R.trbs[deq].n = d + 1
                                   ELSE R.trbs[deq].cycle # ccs
         /\ deq = Link => /\ R.trbs[Link].cycle = ccs
                          /\ IF n > d THEN R.trbs[0].cycle = 1 - ccs /\ R.trbs[0].n = d + 1
                                      ELSE R.trbs[0].cycle # 1 - ccs
<1>1. n \in Nat /\ d \in Nat /\ R.enqueue \in 0 .. Link - 1 /\ R.pcs \in {0, 1}
      /\ ccs \in {0, 1} /\ 0 \in 0 .. Link - 1
  BY LinkFacts DEF TrbQueue, RingType, Bit
<1>2. d <= n
  BY <1>1, LinkFacts DEF TrbQueue
<1>3. CASE deq # Link /\ ccs = R.pcs
  <2>1. deq \in 0 .. Link - 1 /\ deq <= R.enqueue /\ d = n - R.enqueue + deq
    BY <1>3, LinkFacts DEF TrbQueue
  <2>2. R.trbs[deq].cycle = (IF deq < R.enqueue THEN R.pcs ELSE 1 - R.pcs)
        /\ (deq < R.enqueue => R.trbs[deq].n = n - R.enqueue + deq + 1)
    BY <2>1 DEF TrbQueue
  <2> QED
    BY <1>1, <1>2, <1>3, <2>1, <2>2
<1>4. CASE deq # Link /\ ccs # R.pcs
  <2>1. deq \in 0 .. Link - 1 /\ R.enqueue < deq /\ d = n - R.enqueue - Link + deq
    BY <1>4, LinkFacts DEF TrbQueue
  <2>2. R.trbs[deq].cycle = (IF deq < R.enqueue THEN R.pcs ELSE 1 - R.pcs)
        /\ (deq >= R.enqueue => R.trbs[deq].n = n - R.enqueue - Link + deq + 1)
    BY <1>4, <2>1 DEF TrbQueue
  <2> QED
    BY <1>1, <1>2, <1>4, <2>1, <2>2, LinkFacts
<1>5. CASE deq = Link
  <2>1. ccs # R.pcs /\ d = n - R.enqueue /\ R.trbs[Link].cycle = ccs
    BY <1>1, <1>5, LinkFacts DEF TrbQueue
  <2>2. R.trbs[0].cycle = (IF 0 < R.enqueue THEN R.pcs ELSE 1 - R.pcs)
        /\ (0 < R.enqueue => R.trbs[0].n = n - R.enqueue + 0 + 1)
    BY <1>1 DEF TrbQueue
  <2> QED
    BY <1>1, <1>2, <1>5, <2>1, <2>2, LinkFacts
<1> QED
  BY <1>3, <1>4, <1>5

\* The cycle state of an end of the event ring when it moves on from entry i; a ring with
\* one entry replaced.
CycleNext(i, w) == IF i + 1 >= XHCI_EVENT_RING_SIZE THEN 1 - w ELSE w
PutAt(E, i, x) == [E EXCEPT ![i] = x]

\* Posting appends to the event ring, if there is space.
LEMMA PostedOK ==
  ASSUME NEW E \in EventRingType, NEW enq \in Events, NEW pcs \in Bit, NEW deq \in Events,
         NEW ccs \in Bit, NEW n, NEW d, EventQueue(E, enq, pcs, deq, ccs, n, d),
         Next1(enq, XHCI_EVENT_RING_SIZE) # deq,
         NEW x \in EventType, x.cycle = pcs, x.n = n + 1,
         NEW F, F = PutAt(E, enq, x), NEW enq1, enq1 = Next1(enq, XHCI_EVENT_RING_SIZE),
         NEW pcs1, pcs1 = CycleNext(enq, pcs)
  PROVE  /\ F \in EventRingType /\ enq1 \in Events /\ pcs1 \in Bit
         /\ EventQueue(F, enq1, pcs1, deq, ccs, n + 1, d)
         /\ F[enq] = x /\ \A i \in Events : i # enq => F[i] = E[i]
         /\ ~Waiting(enq, pcs, deq, ccs, enq)
         /\ \A i \in Events : Waiting(enq1, pcs1, deq, ccs, i)
                                <=> Waiting(enq, pcs, deq, ccs, i) \/ i = enq
<1> DEFINE size == XHCI_EVENT_RING_SIZE
<1>1. n \in Nat /\ d \in Nat /\ n + 1 \in Nat /\ pcs \in {0, 1} /\ ccs \in {0, 1}
  BY DEF EventQueue, Bit
<1>2. size \in Nat /\ size > 1 /\ Events = 0 .. size - 1
  BY EventSizes DEF Events
<1>4. F \in EventRingType /\ F[enq] = x /\ F[enq].cycle = pcs /\ F[enq].n = n + 1
      /\ \A i \in Events : i # enq => F[i] = E[i]
  BY DEF EventRingType, PutAt
<1>5. \A i \in Events : i # enq => F[i].cycle = E[i].cycle /\ F[i].n = E[i].n
  BY <1>4
<1>6. \A i \in Events : E[i].cycle = IF i < enq THEN pcs ELSE 1 - pcs
  BY DEF EventQueue
<1>7. \A i \in Events : i < enq => E[i].n = n - enq + i + 1
  BY DEF EventQueue
<1>8. /\ ccs = pcs => deq <= enq /\ d = n - enq + deq
      /\ ccs # pcs => enq < deq /\ d = n - enq - size + deq
  BY DEF EventQueue
<1>9. ccs # pcs => \A i \in Events : i >= enq => E[i].n = n - enq - size + i + 1
  BY DEF EventQueue
<1> HIDE DEF size
<1>10. CASE enq + 1 < size
  <2>1. enq1 = enq + 1 /\ pcs1 = pcs /\ enq1 \in Events /\ pcs1 \in Bit /\ enq + 1 # deq
    BY <1>2, <1>10 DEF Next1, CycleNext, size
  <2>2. \A i \in Events : F[i].cycle = IF i < enq + 1 THEN pcs ELSE 1 - pcs
    BY <1>2, <1>4, <1>5, <1>6
  <2>3. ASSUME NEW i \in Events, i < enq + 1 PROVE F[i].n = (n + 1) - (enq + 1) + i + 1
    <3>1. n - enq + i + 1 = (n + 1) - (enq + 1) + i + 1
          /\ (i = enq => n + 1 = (n + 1) - (enq + 1) + i + 1)
      BY <1>1, <1>2
    <3>2. CASE i = enq
      BY <1>4, <3>1, <3>2
    <3>3. CASE i # enq
      <4>1. i < enq
        BY <1>2, <2>3, <3>3
      <4> QED
        BY <1>5, <1>7, <3>1, <3>3, <4>1
    <3> QED
      BY <3>2, <3>3
  <2>4. /\ ccs = pcs => deq <= enq + 1 /\ d = (n + 1) - (enq + 1) + deq
        /\ ccs # pcs => enq + 1 < deq /\ d = (n + 1) - (enq + 1) - size + deq
    BY <1>1, <1>2, <1>8, <2>1
  <2>5. ASSUME ccs # pcs, NEW i \in Events, i >= enq + 1
        PROVE  F[i].n = (n + 1) - (enq + 1) - size + i + 1
    <3>1. n - enq - size + i + 1 = (n + 1) - (enq + 1) - size + i + 1 /\ i >= enq /\ i # enq
      BY <1>1, <1>2, <2>5
    <3> QED
      BY <1>5, <1>9, <2>5, <3>1
  <2>6. EventQueue(F, enq + 1, pcs, deq, ccs, n + 1, d)
    BY <1>1, <2>2, <2>3, <2>4, <2>5, Zenon DEF EventQueue, size
  <2>7. ~Waiting(enq, pcs, deq, ccs, enq)
    BY <1>1, <1>2, <1>8 DEF Waiting
  <2>8. \A i \in Events : Waiting(enq + 1, pcs, deq, ccs, i)
                            <=> Waiting(enq, pcs, deq, ccs, i) \/ i = enq
    BY <1>1, <1>2, <1>8, <2>4 DEF Waiting
  <2> QED
    BY <1>4, <2>1, <2>6, <2>7, <2>8
<1>11. CASE enq + 1 >= size
  <2>1. enq1 = 0 /\ pcs1 = 1 - pcs /\ enq1 \in Events /\ pcs1 \in Bit /\ deq # 0 /\ enq = size - 1
    BY <1>1, <1>2, <1>11 DEF Next1, CycleNext, size, Bit
  <2>2. ccs = pcs /\ ccs # 1 - pcs /\ 1 - (1 - pcs) = pcs
    <3>1. ccs # pcs => FALSE
      BY <1>1, <1>2, <1>8, <2>1
    <3> QED
      BY <1>1, <3>1
  <2>3. \A i \in Events : F[i].cycle = IF i < 0 THEN 1 - pcs ELSE 1 - (1 - pcs)
    BY <1>1, <1>2, <1>4, <1>5, <1>6, <2>1
  <2>4. \A i \in Events : ~(i < 0)
    BY <1>2
  <2>5. 0 < deq /\ d = (n + 1) - 0 - size + deq
    BY <1>1, <1>2, <1>8, <2>1, <2>2
  <2>6. ASSUME NEW i \in Events PROVE F[i].n = (n + 1) - 0 - size + i + 1
    <3>1. n - enq + i + 1 = (n + 1) - 0 - size + i + 1
          /\ (i = enq => n + 1 = (n + 1) - 0 - size + i + 1)
      BY <1>1, <1>2, <2>1
    <3>2. CASE i = enq
      BY <1>4, <3>1, <3>2
    <3>3. CASE i # enq
      <4>1. i < enq
        BY <1>2, <2>1, <3>3
      <4> QED
        BY <1>5, <1>7, <3>1, <3>3, <4>1
    <3> QED
      BY <3>2, <3>3
  <2>7. EventQueue(F, 0, 1 - pcs, deq, ccs, n + 1, d)
    BY <1>1, <2>2, <2>3, <2>4, <2>5, <2>6, Zenon DEF EventQueue, size
  <2>8. ~Waiting(enq, pcs, deq, ccs, enq)
    BY <1>1, <1>2, <1>8 DEF Waiting
  <2>9. \A i \in Events : Waiting(0, 1 - pcs, deq, ccs, i)
                            <=> Waiting(enq, pcs, deq, ccs, i) \/ i = enq
    BY <1>1, <1>2, <1>8, <2>1, <2>2 DEF Waiting
  <2> QED
    BY <1>4, <2>1, <2>7, <2>8, <2>9
<1> QED
  BY <1>2, <1>10, <1>11

\* Consuming takes the oldest event.
LEMMA ConsumedOK ==
  ASSUME NEW E \in EventRingType, NEW enq \in Events, NEW pcs \in Bit, NEW deq \in Events,
         NEW ccs \in Bit, NEW n, NEW d, EventQueue(E, enq, pcs, deq, ccs, n, d),
         E[deq].cycle = ccs,
         NEW deq1, deq1 = Next1(deq, XHCI_EVENT_RING_SIZE),
         NEW ccs1, ccs1 = CycleNext(deq, ccs)
  PROVE  /\ deq1 \in Events /\ ccs1 \in Bit
         /\ d + 1 <= n /\ EventQueue(E, enq, pcs, deq1, ccs1, n, d + 1)
         /\ Waiting(enq, pcs, deq, ccs, deq)
         /\ \A i \in Events : Waiting(enq, pcs, deq1, ccs1, i)
                                <=> Waiting(enq, pcs, deq, ccs, i) /\ i # deq
<1> DEFINE size == XHCI_EVENT_RING_SIZE
<1>1. n \in Nat /\ d \in Nat /\ d + 1 \in Nat /\ pcs \in {0, 1} /\ ccs \in {0, 1}
  BY DEF EventQueue, Bit
<1>2. size \in Nat /\ size > 1 /\ Events = 0 .. size - 1
  BY EventSizes DEF Events
<1>3. E[deq].cycle = IF deq < enq THEN pcs ELSE 1 - pcs
  BY DEF EventQueue
<1>4. /\ ccs = pcs => deq <= enq /\ d = n - enq + deq
      /\ ccs # pcs => enq < deq /\ d = n - enq - size + deq
  BY DEF EventQueue
<1>5. /\ \A i \in Events : E[i].cycle = IF i < enq THEN pcs ELSE 1 - pcs
      /\ \A i \in Events : i < enq => E[i].n = n - enq + i + 1
      /\ ccs # pcs => \A i \in Events : i >= enq => E[i].n = n - enq - size + i + 1
  BY DEF EventQueue
<1> HIDE DEF size
<1>6. CASE ccs = pcs
  <2>1. deq < enq
    <3>1. \A p \in {0, 1} : 1 - p # p
      OBVIOUS
    <3>2. 1 - pcs # pcs
      BY <1>1, <3>1
    <3> QED
      BY <1>3, <1>6, <3>2, Zenon
  <2>2. deq1 = deq + 1 /\ ccs1 = pcs /\ deq1 \in Events /\ ccs1 \in Bit
    BY <1>2, <1>6, <2>1 DEF Next1, CycleNext, size
  <2>3. deq + 1 <= enq /\ d + 1 = n - enq + (deq + 1) /\ d + 1 <= n
    BY <1>1, <1>2, <1>4, <1>6, <2>1
  <2>4. EventQueue(E, enq, pcs, deq + 1, pcs, n, d + 1)
    BY <1>1, <1>5, <2>3, Zenon DEF EventQueue
  <2>5. \A i \in Events : Waiting(enq, pcs, deq + 1, pcs, i)
                            <=> Waiting(enq, pcs, deq, ccs, i) /\ i # deq
    BY <1>2, <1>6 DEF Waiting
  <2>6. Waiting(enq, pcs, deq, ccs, deq)
    BY <1>2, <1>6, <2>1 DEF Waiting
  <2> QED
    BY <2>2, <2>3, <2>4, <2>5, <2>6
<1>7. CASE ccs # pcs /\ deq + 1 < size
  <2>1. deq1 = deq + 1 /\ ccs1 = ccs /\ deq1 \in Events /\ ccs1 \in Bit
    BY <1>2, <1>7 DEF Next1, CycleNext, size
  <2>2. enq < deq + 1 /\ d + 1 = n - enq - size + (deq + 1) /\ d + 1 <= n
    BY <1>1, <1>2, <1>4, <1>7
  <2>3. EventQueue(E, enq, pcs, deq + 1, ccs, n, d + 1)
    BY <1>1, <1>5, <1>7, <2>2, Zenon DEF EventQueue, size
  <2>4. \A i \in Events : Waiting(enq, pcs, deq + 1, ccs, i)
                            <=> Waiting(enq, pcs, deq, ccs, i) /\ i # deq
    BY <1>2, <1>4, <1>7 DEF Waiting
  <2>5. Waiting(enq, pcs, deq, ccs, deq)
    BY <1>2, <1>7 DEF Waiting
  <2> QED
    BY <2>1, <2>2, <2>3, <2>4, <2>5
<1>8. CASE ccs # pcs /\ deq + 1 >= size
  <2>1. deq1 = 0 /\ ccs1 = pcs /\ deq1 \in Events /\ ccs1 \in Bit /\ deq = size - 1
    BY <1>1, <1>2, <1>8 DEF Next1, CycleNext, size, Bit
  <2>2. 0 <= enq /\ d + 1 = n - enq + 0 /\ d + 1 <= n
    BY <1>1, <1>2, <1>4, <1>8, <2>1
  <2>3. EventQueue(E, enq, pcs, 0, pcs, n, d + 1)
    BY <1>1, <1>5, <2>2, Zenon DEF EventQueue
  <2>4. \A i \in Events : Waiting(enq, pcs, 0, pcs, i)
                            <=> Waiting(enq, pcs, deq, ccs, i) /\ i # deq
    BY <1>2, <1>4, <1>8, <2>1 DEF Waiting
  <2>5. Waiting(enq, pcs, deq, ccs, deq)
    BY <1>2, <1>8 DEF Waiting
  <2> QED
    BY <2>1, <2>2, <2>3, <2>4, <2>5
<1> QED
  BY <1>2, <1>6, <1>7, <1>8

\* The entry at the driver's end is ready exactly if an event waits.
LEMMA EventInOrder ==
  ASSUME NEW E \in EventRingType, NEW enq \in Events, NEW pcs \in Bit, NEW deq \in Events,
         NEW ccs \in Bit, NEW n, NEW d, EventQueue(E, enq, pcs, deq, ccs, n, d)
  PROVE  /\ d <= n
         /\ IF n > d THEN E[deq].cycle = ccs /\ E[deq].n = d + 1 ELSE E[deq].cycle # ccs
<1>1. n \in Nat /\ d \in Nat /\ pcs \in {0, 1} /\ ccs \in {0, 1}
  BY DEF EventQueue, Bit
<1>2. XHCI_EVENT_RING_SIZE \in Nat /\ Events = 0 .. XHCI_EVENT_RING_SIZE - 1
  BY EventSizes DEF Events
<1>3. E[deq].cycle = IF deq < enq THEN pcs ELSE 1 - pcs
  BY DEF EventQueue
<1>4. CASE ccs = pcs
  <2>1. /\ deq <= enq /\ d = n - enq + deq
        /\ deq < enq => E[deq].n = n - enq + deq + 1
    BY <1>4 DEF EventQueue
  <2> QED
    BY <1>1, <1>2, <1>3, <1>4, <2>1
<1>5. CASE ccs # pcs
  <2>1. /\ enq < deq /\ d = n - enq - XHCI_EVENT_RING_SIZE + deq
        /\ deq >= enq => E[deq].n = n - enq - XHCI_EVENT_RING_SIZE + deq + 1
    BY <1>5 DEF EventQueue
  <2> QED
    BY <1>1, <1>2, <1>3, <1>5, <2>1
<1> QED
  BY <1>4, <1>5

\* The parts of the invariant give the types.
LEMMA TypesFollow == SharedOK /\ DriverOK => XhciTypeOK
<1> SUFFICES ASSUME SharedOK, DriverOK PROVE XhciTypeOK
  OBVIOUS
<1>1. erdp \in 0 .. XHCI_EVENT_RING_SIZE - 1
  BY DEF SharedOK, Events
<1>2. pc \in {"off", "enqueue", "wait", "return", "idle", "failed"}
  BY DEF DriverOK, Busy
<1> QED
  BY <1>1, <1>2, Zenon DEF SharedOK, DriverOK, XhciTypeOK, RingType, HcType, EventRingType,
                           EventType, EventTypes, Events, Busy

\* The controller posts an event.
LEMMA PostOK ==
  ASSUME SharedOK, NEW type \in EventTypes, NEW good \in BOOLEAN, Post(type, good),
         UNCHANGED <<evt_drv, erdp, taken>>
  PROVE  /\ evt' \in EventRingType /\ evt_hc' \in [enq : Events, pcs : Bit]
         /\ posted' = posted + 1
         /\ EventQueue(evt', evt_hc'.enq, evt_hc'.pcs, evt_drv'.deq, evt_drv'.ccs, posted', taken')
         /\ type # "command" => (Unanswered => Unanswered') /\ (OneAnswered => OneAnswered')
         /\ Unanswered => OneAnswered'
<1> DEFINE enq == evt_hc.enq
           pcs == evt_hc.pcs
           deq == evt_drv.deq
           ccs == evt_drv.ccs
           enq1 == Next1(enq, XHCI_EVENT_RING_SIZE)
           pcs1 == IF enq + 1 >= XHCI_EVENT_RING_SIZE THEN 1 - pcs ELSE pcs
<1>1. /\ evt \in EventRingType /\ enq \in Events /\ pcs \in Bit /\ deq \in Events /\ ccs \in Bit
      /\ EventQueue(evt, enq, pcs, deq, ccs, posted, taken) /\ erdp = deq
  BY DEF SharedOK
<1>2. /\ posted' = posted + 1 /\ enq1 # deq
      /\ evt' = [evt EXCEPT ![enq] = [cycle |-> pcs, type |-> type, good |-> good,
                                      n |-> posted + 1]]
      /\ evt_hc' = [enq |-> enq1, pcs |-> pcs1]
  BY <1>1 DEF Post, EventSpace
<1>3. evt_hc'.enq = enq1 /\ evt_hc'.pcs = pcs1 /\ evt_drv' = evt_drv /\ taken' = taken
  BY <1>2
<1> DEFINE F == evt'
           e1 == evt_hc'.enq
           p1 == evt_hc'.pcs
<1> DEFINE x == [cycle |-> pcs, type |-> type, good |-> good, n |-> posted + 1]
<1>x. x.cycle = pcs /\ x.n = posted + 1 /\ x.type = type /\ x.good = good
  BY Zenon
<1>y. posted + 1 \in Nat
  BY <1>1 DEF EventQueue
<1>z. x \in EventType
  BY <1>1, <1>y, Zenon DEF EventType
<1>4. F = PutAt(evt, enq, x) /\ e1 = Next1(enq, XHCI_EVENT_RING_SIZE) /\ p1 = CycleNext(enq, pcs)
  BY <1>2, <1>3 DEF CycleNext, PutAt
<1>5. Next1(enq, XHCI_EVENT_RING_SIZE) # deq
  BY <1>2
<1> HIDE DEF F, e1, p1, enq, pcs, deq, ccs, enq1, pcs1, x
<1>6. /\ F \in EventRingType /\ e1 \in Events /\ p1 \in Bit
      /\ EventQueue(F, e1, p1, deq, ccs, posted + 1, taken)
      /\ F[enq] = x /\ \A i \in Events : i # enq => F[i] = evt[i]
      /\ ~Waiting(enq, pcs, deq, ccs, enq)
      /\ \A i \in Events : Waiting(e1, p1, deq, ccs, i)
         <=> Waiting(enq, pcs, deq, ccs, i) \/ i = enq
  BY <1>1, <1>4, <1>5, <1>x, <1>z, PostedOK
<1>7. \A i \in Events : /\ i # enq => (Answer(F, i) <=> Answer(evt, i))
                        /\ i = enq => (Answer(F, i) <=> type = "command")
  BY <1>6, <1>x DEF Answer
<1>8. type # "command" => /\ NoAnswer(evt, enq, pcs, deq, ccs) => NoAnswer(F, e1, p1, deq, ccs)
                          /\ OneAnswer(evt, enq, pcs, deq, ccs) => OneAnswer(F, e1, p1, deq, ccs)
  BY <1>6, <1>7, Zenon DEF NoAnswer, OneAnswer
<1>9. NoAnswer(evt, enq, pcs, deq, ccs) => OneAnswer(F, e1, p1, deq, ccs)
  BY <1>6, <1>7, Zenon DEF NoAnswer, OneAnswer
<1>10. evt_hc' \in [enq : Events, pcs : Bit]
  BY <1>2, <1>3, <1>6 DEF e1, p1
<1> QED
  BY <1>2, <1>3, <1>6, <1>8, <1>9, <1>10 DEF Unanswered, OneAnswered, F, e1, p1, enq, pcs, deq, ccs

\* consume_event.
LEMMA ConsumeOK ==
  ASSUME SharedOK, consume_event, UNCHANGED <<evt, evt_hc, posted>>
  PROVE  /\ evt_drv' \in [deq : Events, ccs : Bit] /\ erdp' = evt_drv'.deq
         /\ taken' = taken + 1
         /\ EventQueue(evt', evt_hc'.enq, evt_hc'.pcs, evt_drv'.deq, evt_drv'.ccs, posted', taken')
         /\ (Unanswered => Unanswered') /\ (OneAnswered => OneAnswered')
         /\ evt[evt_drv.deq].type = "command" => ~Unanswered /\ (OneAnswered => Unanswered')
<1> DEFINE enq == evt_hc.enq
           pcs == evt_hc.pcs
           deq == evt_drv.deq
           ccs == evt_drv.ccs
           d1 == evt_drv'.deq
           c1 == evt_drv'.ccs
<1>1. /\ evt \in EventRingType /\ enq \in Events /\ pcs \in Bit /\ deq \in Events /\ ccs \in Bit
      /\ EventQueue(evt, enq, pcs, deq, ccs, posted, taken)
  BY DEF SharedOK
<1>2. /\ evt_drv' = [deq |-> Next1(evt_drv.deq, XHCI_EVENT_RING_SIZE),
                     ccs |-> IF evt_drv.deq + 1 >= XHCI_EVENT_RING_SIZE
                             THEN 1 - evt_drv.ccs ELSE evt_drv.ccs]
      /\ erdp' = evt_drv'.deq /\ taken' = taken + 1 /\ evt[evt_drv.deq].cycle = evt_drv.ccs
  BY DEF consume_event, EventReady
<1>3. /\ d1 = Next1(deq, XHCI_EVENT_RING_SIZE)
      /\ c1 = CycleNext(deq, ccs)
      /\ evt[deq].cycle = ccs /\ evt_drv' = [deq |-> d1, ccs |-> c1]
  BY <1>2 DEF CycleNext
<1> HIDE DEF enq, pcs, deq, ccs, d1, c1
<1>4. /\ d1 \in Events /\ c1 \in Bit
      /\ EventQueue(evt, enq, pcs, d1, c1, posted, taken + 1)
      /\ Waiting(enq, pcs, deq, ccs, deq)
      /\ \A i \in Events : Waiting(enq, pcs, d1, c1, i) <=> Waiting(enq, pcs, deq, ccs, i)
         /\ i # deq
  BY <1>1, <1>3, ConsumedOK
<1>5. /\ NoAnswer(evt, enq, pcs, deq, ccs) => NoAnswer(evt, enq, pcs, d1, c1)
      /\ OneAnswer(evt, enq, pcs, deq, ccs) => OneAnswer(evt, enq, pcs, d1, c1)
  BY <1>4, Zenon DEF NoAnswer, OneAnswer
<1>6. Answer(evt, deq) => /\ ~NoAnswer(evt, enq, pcs, deq, ccs)
                          /\ OneAnswer(evt, enq, pcs, deq, ccs) => NoAnswer(evt, enq, pcs, d1, c1)
  BY <1>1, <1>4, Zenon DEF NoAnswer, OneAnswer
<1>7. evt_drv' \in [deq : Events, ccs : Bit]
  BY <1>3, <1>4
<1> QED
  BY <1>2, <1>4, <1>5, <1>6, <1>7 DEF Unanswered, OneAnswered, Answer, enq, pcs, deq, ccs, d1, c1

\* The invariant for one ring.
LEMMA RingsOf == ASSUME SharedOK, NEW r \in Rings
                 PROVE  /\ ring[r] \in RingType /\ hc[r] \in HcType
                        /\ hc[r].deq \in 0 .. Link /\ hc[r].ccs \in Bit
                        /\ sent[r] \in Nat /\ done[r] \in Nat /\ done[r] <= sent[r]
                        /\ TrbQueue(ring[r], hc[r].deq, hc[r].ccs, sent[r], done[r])
<1>1. /\ ring[r] \in RingType /\ hc[r] \in HcType /\ sent[r] \in Nat /\ done[r] \in Nat
      /\ TrbQueue(ring[r], hc[r].deq, hc[r].ccs, sent[r], done[r])
  BY DEF SharedOK
<1>2. hc[r].deq \in 0 .. Link /\ hc[r].ccs \in Bit
  BY <1>1 DEF HcType
<1> QED
  BY <1>1, <1>2, QueueInOrder

\* The numbers of events.
LEMMA EventsOf == ASSUME SharedOK PROVE posted \in Nat /\ taken \in Nat /\ taken <= posted
<1>1. /\ evt \in EventRingType /\ evt_hc.enq \in Events /\ evt_hc.pcs \in Bit
      /\ evt_drv.deq \in Events /\ evt_drv.ccs \in Bit
      /\ EventQueue(evt, evt_hc.enq, evt_hc.pcs, evt_drv.deq, evt_drv.ccs, posted, taken)
  BY DEF SharedOK
<1>2. posted \in Nat /\ taken \in Nat
  BY <1>1 DEF EventQueue
<1>3. taken <= posted
  BY <1>1, EventInOrder
<1> QED
  BY <1>2, <1>3

\* Slack is a number.
LEMMA SlackNat == \A name : Slack(name) \in Nat
BY DEF Slack

\* There are four rings.
LEMMA FourRings == /\ "cmd" \in Rings /\ "ep0" \in Rings /\ "out" \in Rings /\ "in" \in Rings
                   /\ \A r \in Rings : r = "cmd" \/ r = "ep0" \/ r = "out" \/ r = "in"
BY DEF Rings

\* Every part of the bound is a number, and bounds the TRBs of each ring.
LEMMA NumbersOf ==
  ASSUME SharedOK, DriverOK, RunAhead < Link
  PROVE  /\ Ahead \in Nat /\ Reserve \in Nat
         /\ posted - taken \in Nat /\ left \in 0 .. 3
         /\ budget.give_ups \in Nat /\ budget.ports \in Nat
         /\ \A r \in Rings : sent[r] - done[r] \in Nat /\ sent[r] - done[r] <= Ahead
<1>1. \A r \in Rings : sent[r] \in Nat /\ done[r] \in Nat /\ sent[r] - done[r] \in Nat
  <2> TAKE r \in Rings
  <2>1. sent[r] \in Nat /\ done[r] \in Nat /\ done[r] <= sent[r]
    BY RingsOf
  <2> QED
    BY <2>1
<1>2. Ahead \in Nat /\ \A r \in Rings : sent[r] - done[r] <= Ahead
  <2> DEFINE a == sent["cmd"] - done["cmd"]
             b == sent["ep0"] - done["ep0"]
             w == sent["out"] - done["out"]
             d == sent["in"] - done["in"]
  <2>1. a \in Nat /\ b \in Nat /\ w \in Nat /\ d \in Nat
    BY <1>1, FourRings
  <2>2. Ahead = a + b + w + d
    BY DEF Ahead
  <2>3. \A r \in Rings : sent[r] - done[r] \in {a, b, w, d}
    BY FourRings
  <2> HIDE DEF a, b, w, d
  <2> QED
    BY <2>1, <2>2, <2>3
<1>3. Reserve \in Nat
  BY SlackNat DEF Reserve
<1>4. posted - taken \in Nat
  BY EventsOf
<1>5. left \in 0 .. 3 /\ budget.give_ups \in Nat /\ budget.ports \in Nat
  BY DEF DriverOK, BudgetOK
<1> QED
  BY <1>1, <1>2, <1>3, <1>4, <1>5

\* The bound with its parts named.
LEMMA Balance ==
  ASSUME SharedOK, DriverOK, RunAhead < Link
  PROVE  \E a, y, l, g, p, k \in Nat :
           /\ Ahead = a /\ posted - taken = y /\ left = l
           /\ budget.give_ups = g /\ budget.ports = p /\ Reserve = k
           /\ a + y + l + g + p + k < Link
<1>1. /\ Ahead \in Nat /\ Reserve \in Nat /\ posted - taken \in Nat /\ left \in Nat
      /\ budget.give_ups \in Nat /\ budget.ports \in Nat
  BY NumbersOf
<1>2. Ahead + (posted - taken) + left + budget.give_ups + budget.ports + Reserve < Link
  BY DEF RunAhead
<1> QED
  BY <1>1, <1>2, Zenon

\* A step of the driver that leaves the shared memory alone.
LEMMA QuietStep ==
  ASSUME SharedOK, UNCHANGED <<ring, hc, evt, evt_hc, evt_drv, erdp, sent, done, posted, taken>>
  PROVE  SharedOK' /\ Ahead' = Ahead /\ (Settled' <=> Settled)
         /\ (Unanswered' <=> Unanswered) /\ (OneAnswered' <=> OneAnswered)
BY DEF SharedOK, Ahead, Settled, Unanswered, OneAnswered

\* Concatenations of short tuples.
LEMMA TwoAndTwo ==
  ASSUME NEW S, NEW a \in S, NEW b \in S, NEW w \in S, NEW d \in S
  PROVE  <<a, b>> \o <<w, d>> = <<a, b, w, d>>
<1> DEFINE p == <<a, b>> \o <<w, d>>
           q == <<a, b, w, d>>
<1>1. p \in Seq(S) /\ q \in Seq(S) /\ Len(p) = 4 /\ Len(q) = 4
  OBVIOUS
<1>2. p[1] = a /\ p[2] = b
  OBVIOUS
<1>3. p[3] = w /\ p[4] = d
  OBVIOUS
<1>4. \A i \in 1 .. 4 : p[i] = q[i]
  BY <1>2, <1>3
<1> HIDE DEF p, q
<1>5. p = q
  BY <1>1, <1>4, SeqEqual
<1> QED
  BY <1>5 DEF p, q

\* Of four and two.
LEMMA FourAndTwo ==
  ASSUME NEW S, NEW a \in S, NEW b \in S, NEW w \in S, NEW d \in S, NEW e \in S, NEW f \in S
  PROVE  <<a, b, w, d>> \o <<e, f>> = <<a, b, w, d, e, f>>
<1> DEFINE p == <<a, b, w, d>> \o <<e, f>>
           q == <<a, b, w, d, e, f>>
<1>1. p \in Seq(S) /\ q \in Seq(S) /\ Len(p) = 6 /\ Len(q) = 6
  OBVIOUS
<1>2. p[1] = a /\ p[2] = b /\ p[3] = w /\ p[4] = d
  OBVIOUS
<1>3. p[5] = e /\ p[6] = f
  OBVIOUS
<1>4. \A i \in 1 .. 6 : p[i] = q[i]
  BY <1>2, <1>3
<1> HIDE DEF p, q
<1>5. p = q
  BY <1>1, <1>4, SeqEqual
<1> QED
  BY <1>5 DEF p, q

\* Of one and one.
LEMMA OneAndOne ==
  ASSUME NEW S, NEW a \in S, NEW b \in S
  PROVE  <<a>> \o <<b>> = <<a, b>>
<1> DEFINE p == <<a>> \o <<b>>
           q == <<a, b>>
<1>1. p \in Seq(S) /\ q \in Seq(S) /\ Len(p) = 2 /\ Len(q) = 2
  OBVIOUS
<1>2. p[1] = a /\ p[2] = b
  OBVIOUS
<1>3. \A i \in 1 .. 2 : p[i] = q[i]
  BY <1>2
<1> HIDE DEF p, q
<1>4. p = q
  BY <1>1, <1>3, SeqEqual
<1> QED
  BY <1>4 DEF p, q

\* Of two and one.
LEMMA TwoAndOne ==
  ASSUME NEW S, NEW a \in S, NEW b \in S, NEW w \in S
  PROVE  <<a, b>> \o <<w>> = <<a, b, w>>
<1> DEFINE p == <<a, b>> \o <<w>>
           q == <<a, b, w>>
<1>1. p \in Seq(S) /\ q \in Seq(S) /\ Len(p) = 3 /\ Len(q) = 3
  OBVIOUS
<1>2. p[1] = a /\ p[2] = b /\ p[3] = w
  OBVIOUS
<1>3. \A i \in 1 .. 3 : p[i] = q[i]
  BY <1>2
<1> HIDE DEF p, q
<1>4. p = q
  BY <1>1, <1>3, SeqEqual
<1> QED
  BY <1>4 DEF p, q

\* The fields of a transfer.
LEMMA OpFields ==
  ASSUME NEW r \in Rings, NEW t \in 1 .. 3, NEW name \in OpNames
  PROVE  /\ Op(r, t, name) \in Ops
         /\ Op(r, t, name).ring = r /\ Op(r, t, name).trbs = t /\ Op(r, t, name).name = name
BY DEF Op, Ops

\* What xhci_init does once a device is connected.
InitOps == AddressOps \o DescriptorOps \o ConfigureOps

\* xhci_init's list is a plan.
LEMMA InitPlan ==
  /\ PlanOK(InitOps) /\ InitOps # <<>>
  /\ InitOps[1].ring = "cmd" /\ InitOps[1].trbs = 1 /\ InitOps[1].name = "enable_slot"
<1> DEFINE o1 == Op("cmd", 1, "enable_slot")
           o2 == Op("cmd", 1, "address_device")
           o3 == Op("ep0", 3, "device_desc")
           o4 == Op("ep0", 3, "config_desc")
           o5 == Op("ep0", 2, "set_configuration")
           o6 == Op("cmd", 1, "configure_ep")
<1>1. 1 \in 1 .. 3 /\ 2 \in 1 .. 3 /\ 3 \in 1 .. 3
  OBVIOUS
<1>2. /\ "enable_slot" \in OpNames /\ "address_device" \in OpNames /\ "device_desc" \in OpNames
      /\ "config_desc" \in OpNames /\ "set_configuration" \in OpNames /\ "configure_ep" \in OpNames
  BY DEF OpNames
<1>3. /\ o1 \in Ops /\ o1.ring = "cmd" /\ o1.trbs = 1 /\ o1.name = "enable_slot"
      /\ o2 \in Ops /\ o2.ring = "cmd" /\ o2.trbs = 1 /\ o2.name = "address_device"
      /\ o3 \in Ops /\ o3.ring = "ep0" /\ o3.trbs = 3 /\ o3.name = "device_desc"
      /\ o4 \in Ops /\ o4.ring = "ep0" /\ o4.trbs = 3 /\ o4.name = "config_desc"
      /\ o5 \in Ops /\ o5.ring = "ep0" /\ o5.trbs = 2 /\ o5.name = "set_configuration"
      /\ o6 \in Ops /\ o6.ring = "cmd" /\ o6.trbs = 1 /\ o6.name = "configure_ep"
  <2>1. o1 \in Ops /\ o1.ring = "cmd" /\ o1.trbs = 1 /\ o1.name = "enable_slot"
    BY <1>1, <1>2, FourRings, OpFields
  <2>2. o2 \in Ops /\ o2.ring = "cmd" /\ o2.trbs = 1 /\ o2.name = "address_device"
    BY <1>1, <1>2, FourRings, OpFields
  <2>3. o3 \in Ops /\ o3.ring = "ep0" /\ o3.trbs = 3 /\ o3.name = "device_desc"
    BY <1>1, <1>2, FourRings, OpFields
  <2>4. o4 \in Ops /\ o4.ring = "ep0" /\ o4.trbs = 3 /\ o4.name = "config_desc"
    BY <1>1, <1>2, FourRings, OpFields
  <2>5. o5 \in Ops /\ o5.ring = "ep0" /\ o5.trbs = 2 /\ o5.name = "set_configuration"
    BY <1>1, <1>2, FourRings, OpFields
  <2>6. o6 \in Ops /\ o6.ring = "cmd" /\ o6.trbs = 1 /\ o6.name = "configure_ep"
    BY <1>1, <1>2, FourRings, OpFields
  <2> QED
    BY <2>1, <2>2, <2>3, <2>4, <2>5, <2>6
<1>4. InitOps = <<o1, o2, o3, o4, o5, o6>>
  <2>1. AddressOps = <<o1, o2>> /\ DescriptorOps = <<o3, o4>> /\ ConfigureOps = <<o5, o6>>
    BY DEF AddressOps, DescriptorOps, ConfigureOps, Control
  <2> HIDE DEF o1, o2, o3, o4, o5, o6
  <2>2. <<o1, o2>> \o <<o3, o4>> = <<o1, o2, o3, o4>>
    BY <1>3, TwoAndTwo
  <2>3. <<o1, o2, o3, o4>> \o <<o5, o6>> = <<o1, o2, o3, o4, o5, o6>>
    BY <1>3, FourAndTwo
  <2> QED
    BY <2>1, <2>2, <2>3, Zenon DEF InitOps
<1>5. /\ Slack("enable_slot") = 5 /\ Slack("address_device") = 5 /\ Slack("device_desc") = 3
      /\ Slack("config_desc") = 1 /\ Slack("set_configuration") = 0 /\ Slack("configure_ep") = 0
  BY DEF Slack
<1> HIDE DEF o1, o2, o3, o4, o5, o6
<1>6. InitOps \in Seq(Ops) /\ Len(InitOps) = 6
      /\ InitOps[1] = o1 /\ InitOps[2] = o2 /\ InitOps[3] = o3
      /\ InitOps[4] = o4 /\ InitOps[5] = o5 /\ InitOps[6] = o6
  BY <1>3, <1>4
<1>7. \A i \in 1 .. 6 : InitOps[i].ring = "cmd" => InitOps[i].trbs = 1
  BY <1>3, <1>6
<1>8. \A i \in 1 .. 5 :
      InitOps[i + 1].trbs - 1 + Slack(InitOps[i + 1].name) <= Slack(InitOps[i].name)
  <2> TAKE i \in 1 .. 5
  <2>1. i = 1 \/ i = 2 \/ i = 3 \/ i = 4 \/ i = 5
    OBVIOUS
  <2> QED
    BY <2>1, <1>3, <1>5, <1>6
<1>9. Len(InitOps) - 1 = 5
  BY <1>6
<1>10. PlanOK(InitOps)
  BY <1>6, <1>7, <1>8, <1>9, Zenon DEF PlanOK
<1>11. InitOps # <<>>
  BY <1>6
<1> QED
  BY <1>3, <1>6, <1>10, <1>11

\* bot_execute's list is a plan without commands.
LEMMA BotPlan ==
  ASSUME NEW phase \in {"none", "in", "out"}
  PROVE  /\ PlanOK(BotOps(phase)) /\ BotOps(phase) # <<>>
         /\ BotOps(phase)[1].trbs = 1 /\ BotOps(phase)[1].name = "bulk"
         /\ \A i \in 1 .. Len(BotOps(phase)) : BotOps(phase)[i].ring # "cmd"
<1> DEFINE o == Op("out", 1, "bulk")
           d == Op(phase, 1, "bulk")
           w == Op("in", 1, "bulk")
           p == BotOps(phase)
<1>0. 1 \in 1 .. 3 /\ "bulk" \in OpNames /\ (phase # "none" => phase \in Rings)
  BY DEF OpNames, Rings
<1>1. /\ o \in Ops /\ o.ring = "out" /\ o.trbs = 1 /\ o.name = "bulk"
      /\ w \in Ops /\ w.ring = "in" /\ w.trbs = 1 /\ w.name = "bulk"
      /\ phase # "none" => d \in Ops /\ d.ring = phase /\ d.trbs = 1 /\ d.name = "bulk"
  <2>1. o \in Ops /\ o.ring = "out" /\ o.trbs = 1 /\ o.name = "bulk"
    BY <1>0, FourRings, OpFields
  <2>2. w \in Ops /\ w.ring = "in" /\ w.trbs = 1 /\ w.name = "bulk"
    BY <1>0, FourRings, OpFields
  <2>3. phase # "none" => d \in Ops /\ d.ring = phase /\ d.trbs = 1 /\ d.name = "bulk"
    BY <1>0, OpFields
  <2> QED
    BY <2>1, <2>2, <2>3
<1>2. phase = "none" => p = <<o, w>>
  <2> SUFFICES ASSUME phase = "none" PROVE p = <<o, w>>
    OBVIOUS
  <2>1. p = <<o>> \o <<>> \o <<w>>
    BY Zenon DEF BotOps
  <2> HIDE DEF o, w, p
  <2>2. <<o>> \o <<>> = <<o>>
    OBVIOUS
  <2> QED
    BY <1>1, <2>1, <2>2, OneAndOne
<1>3. phase # "none" => p = <<o, d, w>>
  <2> SUFFICES ASSUME phase # "none" PROVE p = <<o, d, w>>
    OBVIOUS
  <2>1. p = <<o>> \o <<d>> \o <<w>>
    BY Zenon DEF BotOps
  <2> HIDE DEF o, d, w, p
  <2>2. <<o>> \o <<d>> = <<o, d>> /\ <<o, d>> \o <<w>> = <<o, d, w>>
    BY <1>1, OneAndOne, TwoAndOne
  <2> QED
    BY <2>1, <2>2
<1>4. Slack("bulk") = 0
  BY DEF Slack
<1> HIDE DEF o, d, w, p
<1>5. /\ p \in Seq(Ops) /\ Len(p) \in {2, 3} /\ p[1] = o
      /\ \A i \in 1 .. Len(p) : p[i].ring # "cmd" /\ p[i].trbs = 1 /\ p[i].name = "bulk"
  <2>1. CASE phase = "none"
    <3>0. p = <<o, w>> /\ o \in Ops /\ w \in Ops
      BY <1>1, <1>2, <2>1
    <3>1. p \in Seq(Ops) /\ Len(p) = 2 /\ p[1] = o /\ p[2] = w
      BY ONLY <3>0
    <3> QED
      BY <1>1, <3>1
  <2>2. CASE phase # "none"
    <3>0. p = <<o, d, w>> /\ o \in Ops /\ d \in Ops /\ w \in Ops
      BY <1>1, <1>3, <2>2
    <3>1. p \in Seq(Ops) /\ Len(p) = 3 /\ p[1] = o /\ p[2] = d /\ p[3] = w
      BY ONLY <3>0
    <3> QED
      BY <1>1, <2>2, <3>1
  <2> QED
    BY <2>1, <2>2
<1>6. \A i \in 1 .. Len(p) - 1 : p[i + 1].trbs - 1 + Slack(p[i + 1].name) <= Slack(p[i].name)
  <2> TAKE i \in 1 .. Len(p) - 1
  <2>1. i \in 1 .. Len(p) /\ i + 1 \in 1 .. Len(p)
    BY <1>5
  <2> QED
    BY <1>4, <1>5, <2>1
<1>7. PlanOK(p)
  BY <1>5, <1>6 DEF PlanOK
<1>8. 1 \in 1 .. Len(p) /\ p # <<>>
  BY <1>5
<1> QED
  BY <1>1, <1>5, <1>7, <1>8 DEF p

\* The rest of a plan is a plan, within the slack.
LEMMA TailPlan ==
  ASSUME NEW p, PlanOK(p), Len(p) # 1, p # <<>>
  PROVE  /\ PlanOK(Tail(p)) /\ Tail(p) # <<>>
         /\ Tail(p)[1].trbs - 1 + Slack(Tail(p)[1].name) <= Slack(p[1].name)
         /\ Tail(p)[1].trbs \in 1 .. 3
         /\ Tail(p)[1].ring = "cmd" => Tail(p)[1].trbs = 1
         /\ (\E i \in 1 .. Len(Tail(p)) : Tail(p)[i].ring = "cmd") => CommandsAhead(p)
<1> DEFINE q == Tail(p)
<1>0. p \in Seq(Ops)
  BY DEF PlanOK
<1>1. p \in Seq(Ops) /\ Len(p) \in Nat /\ Len(p) > 1
  <2>1. Len(p) # 0
    BY <1>0, EmptySeq, Zenon
  <2> QED
    BY <1>0, <2>1
<1>2. q \in Seq(Ops) /\ Len(q) = Len(p) - 1 /\ \A i \in 1 .. Len(q) : q[i] = p[i + 1]
  BY <1>1
<1> HIDE DEF q
<1>3. \A i \in 1 .. Len(q) : i + 1 \in 2 .. Len(p) /\ i + 1 \in 1 .. Len(p) /\ i \in 1 .. Len(p) - 1
  BY <1>1, <1>2
<1>4. \A i \in 1 .. Len(q) : q[i].ring = "cmd" => q[i].trbs = 1
  BY <1>2, <1>3 DEF PlanOK
<1>5. \A i \in 1 .. Len(q) - 1 : q[i + 1].trbs - 1 + Slack(q[i + 1].name) <= Slack(q[i].name)
  <2> TAKE i \in 1 .. Len(q) - 1
  <2>1. i \in 1 .. Len(q) /\ i + 1 \in 1 .. Len(q) /\ i + 1 \in 1 .. Len(p) - 1
    BY <1>1, <1>2
  <2>2. q[i] = p[i + 1] /\ q[i + 1] = p[(i + 1) + 1]
    BY <1>2, <2>1
  <2> QED
    BY <2>1, <2>2 DEF PlanOK
<1>6. 1 \in 1 .. Len(q) /\ q # <<>> /\ q[1] = p[2] /\ 1 \in 1 .. Len(p) - 1
  BY <1>1, <1>2
<1>7. p[1 + 1].trbs - 1 + Slack(p[1 + 1].name) <= Slack(p[1].name)
  BY <1>6 DEF PlanOK
<1>8. q[1] \in Ops
  BY <1>2, <1>6
<1>9. q[1].trbs \in 1 .. 3
  BY <1>8 DEF Ops
<1>10. (\E i \in 1 .. Len(q) : q[i].ring = "cmd") => CommandsAhead(p)
  BY <1>2, <1>3 DEF CommandsAhead
<1>11. PlanOK(q)
  BY <1>2, <1>4, <1>5 DEF PlanOK
<1>12. q[1].trbs - 1 + Slack(q[1].name) <= Slack(p[1].name)
  <2>1. 1 + 1 = 2
    OBVIOUS
  <2> QED
    BY <1>6, <1>7, <2>1
<1> QED
  BY <1>4, <1>6, <1>9, <1>10, <1>11, <1>12 DEF q

\* The initial state satisfies the invariant.
LEMMA XhciInitOK == XhciInit /\ FewFailures => XhciIInv
<1> SUFFICES ASSUME XhciInit, FewFailures PROVE XhciIInv
  OBVIOUS
<1>1. /\ ring = [r \in Rings |-> xhci_ring_init] /\ hc = [r \in Rings |-> FreshHc]
      /\ evt = [i \in Events |-> NoEvent]
      /\ evt_hc = [enq |-> 0, pcs |-> 1] /\ evt_drv = [deq |-> 0, ccs |-> 1] /\ erdp = 0
      /\ pc = "off" /\ plan = <<>> /\ left = 0 /\ ok = FALSE
      /\ sent = [r \in Rings |-> 0] /\ done = sent /\ posted = 0 /\ taken = 0
      /\ budget \in Budgets
  BY DEF XhciInit, Events
<1>2. 0 \in Events /\ 0 \in 0 .. Link /\ 0 \in 0 .. Link - 1 /\ 0 \in Bit /\ 1 \in Bit /\ 0 \in Nat
      /\ 1 - 1 = 0
  BY EventSizes, LinkFacts DEF Events, Bit
<1>3. /\ xhci_ring_init \in RingType /\ xhci_ring_init.enqueue = 0 /\ xhci_ring_init.pcs = 1
      /\ \A i \in 0 .. Link - 1 : xhci_ring_init.trbs[i].cycle = 0
  <2> DEFINE cells == [i \in 0 .. Link |-> [cycle |-> IF i = Link THEN 1 ELSE 0, n |-> 0]]
  <2>1. cells \in [0 .. Link -> [cycle : Bit, n : Nat]]
    BY <1>2
  <2>2. \A i \in 0 .. Link - 1 : cells[i].cycle = 0
    BY LinkFacts
  <2>3. xhci_ring_init = [trbs |-> cells, enqueue |-> 0, pcs |-> 1]
    BY DEF xhci_ring_init
  <2> HIDE DEF cells
  <2> QED
    BY <1>2, <2>1, <2>2, <2>3 DEF RingType
<1>4. FreshHc \in HcType /\ FreshHc.deq = 0 /\ FreshHc.ccs = 1
  <2>1. FreshHc.deq = 0 /\ FreshHc.ccs = 1
    BY DEF FreshHc
  <2>2. FreshHc \in HcType
    BY <1>2, Zenon DEF FreshHc, HcType
  <2> QED
    BY <2>1, <2>2
<1>5. NoEvent \in EventType /\ NoEvent.cycle = 0 /\ NoEvent.type = "none"
  <2>1. NoEvent.cycle = 0 /\ NoEvent.type = "none"
    BY DEF NoEvent
  <2>2. "none" \in EventTypes
    BY DEF EventTypes
  <2>3. NoEvent \in EventType
    BY <1>2, <2>2, Zenon DEF NoEvent, EventType
  <2> QED
    BY <2>1, <2>3
<1>6. TrbQueue(xhci_ring_init, 0, 1, 0, 0)
  BY <1>2, <1>3, LinkFacts DEF TrbQueue
<1>7. \A r \in Rings : /\ ring[r] = xhci_ring_init /\ hc[r] = FreshHc
                       /\ sent[r] = 0 /\ done[r] = 0
  BY <1>1
<1>8. EventQueue(evt, 0, 1, 0, 1, 0, 0)
  <2>1. \A i \in Events : evt[i].cycle = 0 /\ ~(i < 0)
    BY <1>1, <1>5, EventSizes DEF Events
  <2> QED
    BY <1>2, <2>1 DEF EventQueue
<1>9. SharedOK
  <2>1. ring \in [Rings -> RingType] /\ hc \in [Rings -> HcType]
    BY <1>1, <1>3, <1>4
  <2>2. evt \in EventRingType
    BY <1>1, <1>5 DEF EventRingType
  <2>3. evt_hc \in [enq : Events, pcs : Bit] /\ evt_drv \in [deq : Events, ccs : Bit]
    BY <1>1, <1>2
  <2>4. sent \in [Rings -> Nat] /\ done \in [Rings -> Nat]
    BY <1>1
  <2>5. \A r \in Rings : TrbQueue(ring[r], hc[r].deq, hc[r].ccs, sent[r], done[r])
    BY <1>4, <1>6, <1>7
  <2>6. evt_hc.enq = 0 /\ evt_hc.pcs = 1 /\ evt_drv.deq = 0 /\ evt_drv.ccs = 1
    BY <1>1
  <2>7. /\ EventQueue(evt, evt_hc.enq, evt_hc.pcs, evt_drv.deq, evt_drv.ccs, posted, taken)
        /\ erdp = evt_drv.deq
    BY <1>1, <1>8, <2>6, Zenon
  <2> QED
    BY <2>1, <2>2, <2>3, <2>4, <2>5, <2>7 DEF SharedOK
<1>10. BudgetOK /\ budget.give_ups + budget.ports + 6 < Link
  BY <1>1, XhciAssumption DEF BudgetOK, FewFailures
<1>11. DriverOK
  <2>1. PlanOK(<<>>)
    BY DEF PlanOK
  <2>2. pc \in {"off", "idle", "failed"} \cup Busy /\ left \in 0 .. 3
        /\ (pc \in Busy <=> plan # <<>>) /\ (pc = "enqueue" <=> left > 0)
    BY <1>1 DEF Busy
  <2>3. ok \in BOOLEAN
    BY <1>1, Zenon
  <2> QED
    BY <1>1, <1>10, <2>1, <2>2, <2>3, Zenon DEF DriverOK
<1>12. CommandInv
  <2>1. Unanswered
    BY <1>1, EventSizes DEF Unanswered, NoAnswer, Waiting, Events
  <2>2. Settled
    BY <1>7, <2>1, FourRings DEF Settled
  <2> QED
    BY <1>1, <2>2 DEF CommandInv
<1>13. RunAhead < Link
  <2>1. Ahead = 0 /\ Reserve = 6
    BY <1>1, <1>7, FourRings DEF Ahead, Reserve
  <2>2. budget.give_ups \in Nat /\ budget.ports \in Nat
    BY <1>10 DEF BudgetOK
  <2> QED
    BY <1>1, <1>10, <2>1, <2>2 DEF RunAhead
<1> QED
  BY <1>9, <1>11, <1>12, <1>13 DEF XhciIInv

\* xhci_init begins.
LEMMA StartControllerOK == XhciIInv /\ StartController => XhciIInv'
<1> SUFFICES ASSUME XhciIInv, StartController PROVE XhciIInv'
  OBVIOUS
<1>1. SharedOK /\ DriverOK /\ CommandInv /\ RunAhead < Link
  BY DEF XhciIInv
<1>2. /\ pc = "off" /\ ok' = ok /\ budget' = budget
      /\ UNCHANGED <<ring, hc, evt, evt_hc, evt_drv, erdp, sent, done, posted, taken>>
  BY DEF StartController
<1>3. SharedOK' /\ Ahead' = Ahead /\ (Settled' <=> Settled)
  BY <1>1, <1>2, QuietStep
<1>4. Settled /\ Settled'
  BY <1>1, <1>2, <1>3 DEF CommandInv
<1>5. plan = <<>> /\ left = 0 /\ ok \in BOOLEAN /\ BudgetOK /\ PlanOK(plan) /\ BudgetOK'
  BY <1>1, <1>2 DEF DriverOK, Busy, BudgetOK
<1>6. PICK a, y, l, g, p, k \in Nat :
           /\ Ahead = a /\ posted - taken = y /\ left = l
           /\ budget.give_ups = g /\ budget.ports = p /\ Reserve = k /\ k = 6
           /\ a + y + l + g + p + k < Link
  <2>1. Reserve = 6
    BY <1>2 DEF Reserve
  <2> QED
    BY <1>1, <2>1, Balance
<1>7. CASE Begin(InitOps)
  <2>1. plan' = InitOps /\ pc' = "enqueue" /\ left' = 1 /\ plan'[1].ring = "cmd"
        /\ plan'[1].name = "enable_slot" /\ PlanOK(plan') /\ plan' # <<>>
    BY <1>7, InitPlan DEF Begin
  <2>2. DriverOK'
    BY <1>2, <1>5, <2>1 DEF DriverOK, Busy
  <2>3. CommandInv'
    BY <1>4, <2>1 DEF CommandInv
  <2>4. Reserve' = 5
    BY <2>1 DEF Reserve, Slack
  <2>5. RunAhead' < Link
    <3>1. RunAhead' = a + y + 1 + g + p + 5
      BY <1>2, <1>3, <1>6, <2>1, <2>4 DEF RunAhead
    <3> QED
      BY <1>6, <3>1, LinkFacts
  <2> QED
    BY <1>3, <2>2, <2>3, <2>5 DEF XhciIInv
<1>8. CASE pc' = "failed" /\ UNCHANGED <<plan, left>>
  <2>1. plan' = <<>> /\ left' = 0 /\ pc' = "failed" /\ PlanOK(plan')
    BY <1>5, <1>8
  <2>2. DriverOK'
    BY <1>2, <1>5, <2>1 DEF DriverOK, Busy
  <2>3. CommandInv'
    BY <2>1 DEF CommandInv
  <2>4. Reserve' = 0
    BY <2>1 DEF Reserve
  <2>5. RunAhead' < Link
    <3>1. RunAhead' = a + y + 0 + g + p + 0
      BY <1>2, <1>3, <1>6, <2>1, <2>4 DEF RunAhead
    <3> QED
      BY <1>6, <3>1, LinkFacts
  <2> QED
    BY <1>3, <2>2, <2>3, <2>5 DEF XhciIInv
<1> QED
  BY <1>7, <1>8 DEF StartController, InitOps

\* A TRB is enqueued, the doorbell rung after the last.
LEMMA EnqueueOK == XhciIInv /\ Enqueue => XhciIInv'
<1> SUFFICES ASSUME XhciIInv, Enqueue PROVE XhciIInv'
  OBVIOUS
<1>1. SharedOK /\ DriverOK /\ CommandInv /\ RunAhead < Link
  BY DEF XhciIInv
<1> DEFINE r == plan[1].ring
<1>2. /\ pc = "enqueue"
      /\ ring' = [ring EXCEPT ![r] = ring_enqueue(ring[r], sent[r] + 1)]
      /\ sent' = [sent EXCEPT ![r] = @ + 1]
      /\ left' = left - 1
      /\ left = 1 => pc' = "wait" /\ hc' = [hc EXCEPT ![r].running = TRUE]
      /\ left # 1 => pc' = pc /\ hc' = hc
      /\ UNCHANGED <<evt, evt_hc, evt_drv, erdp, plan, ok, done, posted, taken, budget>>
  BY DEF Enqueue
<1>3. plan # <<>> /\ left \in 1 .. 3 /\ PlanOK(plan)
  BY <1>1, <1>2 DEF DriverOK, Busy
<1>4. r \in Rings
  <2>1. plan \in Seq(Ops) /\ Len(plan) \in Nat \ {0}
    BY <1>3, EmptySeq DEF PlanOK
  <2>2. plan[1] \in Ops
    BY <2>1
  <2> QED
    BY <2>2 DEF Ops
<1>0. PICK a, y, l, g, p, k \in Nat :
           /\ Ahead = a /\ posted - taken = y /\ left = l
           /\ budget.give_ups = g /\ budget.ports = p /\ Reserve = k
           /\ a + y + l + g + p + k < Link
  BY <1>1, Balance
<1>5. sent[r] - done[r] + 1 < Link
  <2> HIDE DEF r
  <2>1. PICK x \in Nat : x = sent[r] - done[r] /\ x <= a
    BY <1>0, <1>1, <1>4, NumbersOf
  <2>2. l >= 1
    BY <1>0, <1>3
  <2>3. x + 1 < Link
    BY <1>0, <2>1, <2>2, LinkFacts
  <2> QED
    BY <2>1, <2>3
<1> HIDE DEF r
<1>6. /\ ring[r] \in RingType /\ hc[r] \in HcType /\ hc[r].deq \in 0 .. Link /\ hc[r].ccs \in Bit
      /\ sent[r] \in Nat /\ done[r] \in Nat
      /\ TrbQueue(ring[r], hc[r].deq, hc[r].ccs, sent[r], done[r])
  BY <1>1, <1>4, RingsOf
<1>7. /\ ring_enqueue(ring[r], sent[r] + 1) \in RingType
      /\ TrbQueue(ring_enqueue(ring[r], sent[r] + 1), hc[r].deq, hc[r].ccs, sent[r] + 1, done[r])
  BY <1>5, <1>6, Enqueued
<1>8. hc' \in [Rings -> HcType] /\ \A t \in Rings : hc'[t].deq = hc[t].deq /\ hc'[t].ccs = hc[t].ccs
  <2>0. hc \in [Rings -> HcType]
    BY <1>1 DEF SharedOK
  <2>1. CASE left # 1
    BY <1>2, <2>0, <2>1
  <2>2. CASE left = 1
    <3>1. hc' = [hc EXCEPT ![r] = [hc[r] EXCEPT !.running = TRUE]]
      BY <1>2, <2>2
    <3>2. [hc[r] EXCEPT !.running = TRUE] \in HcType
      BY <1>6, Zenon DEF HcType
    <3>3. [hc[r] EXCEPT !.running = TRUE].deq = hc[r].deq
          /\ [hc[r] EXCEPT !.running = TRUE].ccs = hc[r].ccs
      BY <1>6 DEF HcType
    <3> QED
      BY <1>4, <2>0, <3>1, <3>2, <3>3
  <2> QED
    BY <2>1, <2>2
<1>9. ring \in [Rings -> RingType] /\ sent \in [Rings -> Nat] /\ done \in [Rings -> Nat]
  BY <1>1 DEF SharedOK
<1>10. /\ ring' \in [Rings -> RingType] /\ sent' \in [Rings -> Nat]
       /\ ring'[r] = ring_enqueue(ring[r], sent[r] + 1) /\ sent'[r] = sent[r] + 1
       /\ \A t \in Rings : t # r => ring'[t] = ring[t] /\ sent'[t] = sent[t]
  BY <1>2, <1>4, <1>6, <1>7, <1>9
<1>11. \A t \in Rings : TrbQueue(ring'[t], hc'[t].deq, hc'[t].ccs, sent'[t], done'[t])
  <2> TAKE t \in Rings
  <2>1. TrbQueue(ring[t], hc[t].deq, hc[t].ccs, sent[t], done[t])
    BY <1>1, RingsOf
  <2>2. CASE t = r
    BY <1>2, <1>7, <1>8, <1>10, <2>2
  <2>3. CASE t # r
    BY <1>2, <1>8, <1>10, <2>1, <2>3
  <2> QED
    BY <2>2, <2>3
<1>12. SharedOK'
  <2>1. /\ evt \in EventRingType /\ evt_hc \in [enq : Events, pcs : Bit]
        /\ evt_drv \in [deq : Events, ccs : Bit] /\ erdp = evt_drv.deq
        /\ EventQueue(evt, evt_hc.enq, evt_hc.pcs, evt_drv.deq, evt_drv.ccs, posted, taken)
    BY <1>1 DEF SharedOK
  <2>2. /\ evt' = evt /\ evt_hc' = evt_hc /\ evt_drv' = evt_drv /\ erdp' = erdp
        /\ posted' = posted /\ taken' = taken /\ done' = done
    BY <1>2
  <2> QED
    BY <1>8, <1>9, <1>10, <1>11, <2>1, <2>2 DEF SharedOK
<1>13. pc' = (IF left = 1 THEN "wait" ELSE "enqueue") /\ left' = left - 1
       /\ plan' = plan /\ ok' = ok /\ budget' = budget
  BY <1>2
<1>14. DriverOK'
  <2>1. pc' \in Busy /\ left' \in 0 .. 3 /\ (pc' = "enqueue" <=> left' > 0)
    BY <1>3, <1>13 DEF Busy
  <2>2. BudgetOK' /\ PlanOK(plan') /\ plan' # <<>> /\ ok' \in BOOLEAN
    BY <1>1, <1>3, <1>13 DEF DriverOK, BudgetOK
  <2> QED
    BY <2>1, <2>2 DEF DriverOK
<1>15. (Unanswered' <=> Unanswered) /\ done' = done
  BY <1>2 DEF Unanswered
<1>16. CommandInv'
  <2>1. CASE r = "cmd"
    <3>1. Settled /\ left = 1
      BY <1>1, <1>2, <1>3, <2>1 DEF CommandInv, r
    <3>2. pc' = "wait" /\ done'["cmd"] + 1 = sent'["cmd"] /\ Unanswered'
      BY <1>2, <1>10, <1>15, <2>1, <3>1 DEF Settled
    <3>3. plan'[1].ring = "cmd"
      BY <1>13, <2>1 DEF r
    <3> QED
      BY <3>2, <3>3 DEF CommandInv
  <2>2. CASE r # "cmd"
    <3>1. Settled' <=> Settled
      BY <1>10, <1>15, <2>2, FourRings DEF Settled
    <3>2. CommandsAhead(plan) => Settled
      BY <1>1, <1>3, <2>2 DEF CommandInv, r
    <3>3. plan'[1].ring # "cmd" /\ pc' # "off" /\ plan' = plan
      BY <1>13, <2>2 DEF r
    <3> QED
      BY <3>1, <3>2, <3>3 DEF CommandInv
  <2> QED
    BY <2>1, <2>2
<1>17. Ahead' = Ahead + 1
  <2>1. \A t \in Rings : sent[t] \in Nat /\ done[t] \in Nat
    BY <1>9
  <2>2. \A t \in Rings : sent'[t] = IF t = r THEN sent[t] + 1 ELSE sent[t]
    BY <1>10
  <2>3. r = "cmd" \/ r = "ep0" \/ r = "out" \/ r = "in"
    BY <1>4, FourRings
  <2> QED
    BY <1>15, <2>1, <2>2, <2>3, FourRings DEF Ahead
<1>18. RunAhead' < Link
  <2>1. Reserve' = Reserve
    BY <1>2, <1>13 DEF Reserve
  <2>2. posted' - taken' = posted - taken /\ budget' = budget
    BY <1>2
  <2>3. RunAhead' = (a + 1) + y + (l - 1) + g + p + k
    BY <1>0, <1>13, <1>17, <2>1, <2>2 DEF RunAhead
  <2> QED
    BY <1>0, <2>3, LinkFacts
<1> QED
  BY <1>12, <1>14, <1>16, <1>18 DEF XhciIInv

\* A wait consumes an event, and takes it for its answer or drops it.
LEMMA PollOK == XhciIInv /\ Poll => XhciIInv'
<1> SUFFICES ASSUME XhciIInv, Poll PROVE XhciIInv'
  OBVIOUS
<1>1. SharedOK /\ DriverOK /\ CommandInv /\ RunAhead < Link
  BY DEF XhciIInv
<1> DEFINE e == evt[evt_drv.deq]
<1>2. /\ pc = "wait" /\ consume_event
      /\ e.type \in Awaited(plan[1].ring) => pc' = "return" /\ ok' = e.good
      /\ e.type \notin Awaited(plan[1].ring) => pc' = pc /\ ok' = ok
      /\ UNCHANGED <<ring, hc, evt, evt_hc, plan, left, sent, done, posted, budget>>
  BY DEF Poll
<1>3. UNCHANGED <<evt, evt_hc, posted>>
  BY <1>2
<1>4. /\ evt_drv' \in [deq : Events, ccs : Bit] /\ erdp' = evt_drv'.deq
      /\ taken' = taken + 1
      /\ EventQueue(evt', evt_hc'.enq, evt_hc'.pcs, evt_drv'.deq, evt_drv'.ccs, posted', taken')
      /\ (Unanswered => Unanswered') /\ (OneAnswered => OneAnswered')
      /\ e.type = "command" => ~Unanswered /\ (OneAnswered => Unanswered')
  BY <1>1, <1>2, <1>3, ConsumeOK
<1>5. e.good \in BOOLEAN
  <2>1. evt \in EventRingType /\ evt_drv.deq \in Events
    BY <1>1 DEF SharedOK
  <2>2. e \in EventType
    BY <2>1 DEF EventRingType
  <2> HIDE DEF e
  <2> QED
    BY <2>2, Zenon DEF EventType
<1> HIDE DEF e
<1>6. SharedOK'
  <2>1. /\ ring \in [Rings -> RingType] /\ hc \in [Rings -> HcType]
        /\ evt \in EventRingType /\ evt_hc \in [enq : Events, pcs : Bit]
        /\ sent \in [Rings -> Nat] /\ done \in [Rings -> Nat]
        /\ \A r \in Rings : TrbQueue(ring[r], hc[r].deq, hc[r].ccs, sent[r], done[r])
    BY <1>1 DEF SharedOK
  <2>2. ring' = ring /\ hc' = hc /\ evt' = evt /\ evt_hc' = evt_hc /\ sent' = sent /\ done' = done
    BY <1>2
  <2> QED
    BY <1>4, <2>1, <2>2 DEF SharedOK
<1>7. plan # <<>> /\ left = 0 /\ ok \in BOOLEAN /\ BudgetOK /\ PlanOK(plan)
  BY <1>1, <1>2 DEF DriverOK, Busy
<1>8. /\ pc' \in {"wait", "return"} /\ left' = 0 /\ plan' = plan /\ budget' = budget
      /\ sent' = sent /\ done' = done /\ posted' = posted
  BY <1>2, <1>7
<1>9. DriverOK'
  <2>1. ok' \in BOOLEAN
    BY <1>2, <1>5, <1>7
  <2>2. /\ pc' \in {"off", "idle", "failed"} \cup Busy /\ left' \in 0 .. 3
        /\ (pc' \in Busy <=> plan' # <<>>) /\ (pc' = "enqueue" <=> left' > 0)
    BY <1>7, <1>8 DEF Busy
  <2>3. BudgetOK' /\ PlanOK(plan')
    BY <1>7, <1>8 DEF BudgetOK
  <2> QED
    BY <2>1, <2>2, <2>3, Zenon DEF DriverOK
<1>10. CommandInv'
  <2>1. CASE plan[1].ring # "cmd"
    <3>1. CommandsAhead(plan) => Settled
      BY <1>1, <1>7, <2>1 DEF CommandInv
    <3>2. Settled => Settled'
      BY <1>4, <1>8 DEF Settled
    <3>3. pc' # "off" /\ plan'[1].ring # "cmd"
      BY <1>8, <2>1
    <3> QED
      BY <1>8, <3>1, <3>2, <3>3 DEF CommandInv
  <2>2. CASE plan[1].ring = "cmd"
    <3>1. \/ done["cmd"] = sent["cmd"] /\ OneAnswered
          \/ done["cmd"] + 1 = sent["cmd"] /\ Unanswered
      BY <1>1, <1>2, <1>7, <2>2 DEF CommandInv
    <3>2. Awaited(plan[1].ring) = {"command"}
      BY <2>2 DEF Awaited
    <3>3. CASE e.type = "command"
      <4>1. done["cmd"] = sent["cmd"] /\ Unanswered'
        BY <1>4, <3>1, <3>3
      <4>2. Settled' /\ pc' = "return"
        BY <1>2, <1>8, <3>2, <3>3, <4>1 DEF Settled
      <4> QED
        BY <4>2 DEF CommandInv
    <3>4. CASE e.type # "command"
      <4>1. pc' = "wait"
        BY <1>2, <3>2, <3>4
      <4>2. \/ done'["cmd"] = sent'["cmd"] /\ OneAnswered'
            \/ done'["cmd"] + 1 = sent'["cmd"] /\ Unanswered'
        BY <1>4, <1>8, <3>1
      <4>3. plan'[1].ring = "cmd"
        BY <1>8, <2>2
      <4> QED
        BY <4>1, <4>2, <4>3 DEF CommandInv
    <3> QED
      BY <3>3, <3>4
  <2> QED
    BY <2>1, <2>2
<1>11. RunAhead' < Link
  <2>1. PICK a, y, l, g, p, k \in Nat :
             /\ Ahead = a /\ posted - taken = y /\ left = l
             /\ budget.give_ups = g /\ budget.ports = p /\ Reserve = k
             /\ a + y + l + g + p + k < Link
    BY <1>1, Balance
  <2>2. Ahead' = Ahead
    BY <1>8 DEF Ahead
  <2>3. k = Slack(plan[1].name)
    BY <1>2, <2>1 DEF Reserve
  <2>4. PICK m \in {k, k + 1} : Reserve' = m
    BY <1>8, <2>3 DEF Reserve
  <2>5. posted' - taken' = y - 1
    <3>1. posted \in Nat /\ taken \in Nat
      BY <1>1, EventsOf
    <3> QED
      BY <1>4, <1>8, <2>1, <3>1
  <2>6. RunAhead' = a + (y - 1) + l + g + p + m
    BY <1>2, <1>8, <2>1, <2>2, <2>4, <2>5 DEF RunAhead
  <2> QED
    BY <2>1, <2>4, <2>6, LinkFacts
<1> QED
  BY <1>6, <1>9, <1>10, <1>11 DEF XhciIInv

\* A wait runs out of polls.
LEMMA GiveUpOK == XhciIInv /\ GiveUp => XhciIInv'
<1> SUFFICES ASSUME XhciIInv, GiveUp PROVE XhciIInv'
  OBVIOUS
<1>1. SharedOK /\ DriverOK /\ CommandInv /\ RunAhead < Link
  BY DEF XhciIInv
<1>2. /\ pc = "wait" /\ pc' = "return" /\ ok' = FALSE /\ plan' = plan /\ left' = left
      /\ budget.give_ups > 0 /\ budget' = [budget EXCEPT !.give_ups = @ - 1]
      /\ UNCHANGED <<ring, hc, evt, evt_hc, evt_drv, erdp, sent, done, posted, taken>>
  BY DEF GiveUp
<1>3. SharedOK' /\ Ahead' = Ahead /\ (Settled' <=> Settled)
  BY <1>1, <1>2, QuietStep
<1>4. plan # <<>> /\ left = 0 /\ BudgetOK /\ PlanOK(plan)
  BY <1>1, <1>2 DEF DriverOK, Busy
<1>5. BudgetOK' /\ budget.give_ups \in Nat /\ budget.ports \in Nat
      /\ budget'.give_ups = budget.give_ups - 1 /\ budget'.ports = budget.ports
  BY <1>2, <1>4 DEF BudgetOK
<1>6. DriverOK'
  <2>1. ok' \in BOOLEAN
    BY <1>2, Zenon
  <2>2. /\ pc' \in {"off", "idle", "failed"} \cup Busy /\ left' \in 0 .. 3
        /\ (pc' \in Busy <=> plan' # <<>>) /\ (pc' = "enqueue" <=> left' > 0)
    BY <1>2, <1>4 DEF Busy
  <2> QED
    BY <1>2, <1>4, <1>5, <2>1, <2>2, Zenon DEF DriverOK
<1>7. CommandInv'
  BY <1>1, <1>2, <1>3 DEF CommandInv
<1>8. RunAhead' < Link
  <2>1. PICK a, y, l, g, p, k \in Nat :
             /\ Ahead = a /\ posted - taken = y /\ left = l
             /\ budget.give_ups = g /\ budget.ports = p /\ Reserve = k
             /\ a + y + l + g + p + k < Link
    BY <1>1, Balance
  <2>2. k = Slack(plan[1].name)
    BY <1>2, <2>1 DEF Reserve
  <2>3. Reserve' = 1 + k
    BY <1>2, <2>2 DEF Reserve
  <2>4. posted' - taken' = y /\ budget'.give_ups = g - 1 /\ budget'.ports = p
    BY <1>2, <1>5, <2>1
  <2>5. RunAhead' = a + y + l + (g - 1) + p + (1 + k)
    BY <1>2, <1>3, <2>1, <2>3, <2>4 DEF RunAhead
  <2> QED
    BY <2>1, <2>5, LinkFacts
<1> QED
  BY <1>3, <1>6, <1>7, <1>8 DEF XhciIInv

\* The caller goes on or stops.
LEMMA ReturnOK == XhciIInv /\ Return => XhciIInv'
<1> SUFFICES ASSUME XhciIInv, Return PROVE XhciIInv'
  OBVIOUS
<1>1. SharedOK /\ DriverOK /\ CommandInv /\ RunAhead < Link
  BY DEF XhciIInv
<1>2. /\ pc = "return" /\ ok' = ok /\ budget' = budget
      /\ UNCHANGED <<ring, hc, evt, evt_hc, evt_drv, erdp, sent, done, posted, taken>>
  BY DEF Return
<1>3. \/ pc' \in {"failed", "idle"} /\ plan' = <<>> /\ left' = 0
      \/ Len(plan) # 1 /\ Begin(Tail(plan)) /\ ~(plan[1].ring = "cmd" /\ ~ok)
  BY DEF Return
<1>4. SharedOK' /\ Ahead' = Ahead /\ (Settled' <=> Settled)
  BY <1>1, <1>2, QuietStep
<1>5. plan # <<>> /\ left = 0 /\ BudgetOK /\ PlanOK(plan) /\ ok \in BOOLEAN /\ BudgetOK'
  BY <1>1, <1>2 DEF DriverOK, Busy, BudgetOK
<1>6. PICK a, y, l, g, p, j \in Nat :
           /\ Ahead = a /\ posted - taken = y /\ left = l
           /\ budget.give_ups = g /\ budget.ports = p /\ Reserve = j
           /\ a + y + l + g + p + j < Link
  BY <1>1, Balance
<1>7. PICK k \in Nat : k = Slack(plan[1].name) /\ j = 1 + k
  <2>1. Reserve = 1 + Slack(plan[1].name) /\ Slack(plan[1].name) \in Nat
    BY <1>2, SlackNat DEF Reserve
  <2> QED
    BY <1>6, <2>1
<1>8. CASE pc' \in {"failed", "idle"} /\ plan' = <<>> /\ left' = 0
  <2>1. PlanOK(plan')
    BY <1>8 DEF PlanOK
  <2>2. DriverOK'
    <3>1. /\ pc' \in {"off", "idle", "failed"} \cup Busy /\ left' \in 0 .. 3
          /\ (pc' \in Busy <=> plan' # <<>>) /\ (pc' = "enqueue" <=> left' > 0)
      BY <1>8 DEF Busy
    <3> QED
      BY <1>2, <1>5, <2>1, <3>1, Zenon DEF DriverOK
  <2>3. CommandInv'
    BY <1>8 DEF CommandInv
  <2>4. PICK m \in {0, 1} : Reserve' = m
    BY <1>8 DEF Reserve
  <2>5. RunAhead' < Link
    <3>1. RunAhead' = a + y + 0 + g + p + m
      BY <1>2, <1>4, <1>6, <1>8, <2>4 DEF RunAhead
    <3> QED
      BY <1>6, <1>7, <2>4, <3>1, LinkFacts
  <2> QED
    BY <1>4, <2>2, <2>3, <2>5 DEF XhciIInv
<1>9. CASE Len(plan) # 1 /\ Begin(Tail(plan)) /\ ~(plan[1].ring = "cmd" /\ ~ok)
  <2> DEFINE q == Tail(plan)
  <2>1. /\ PlanOK(q) /\ q # <<>>
        /\ q[1].trbs - 1 + Slack(q[1].name) <= k
        /\ q[1].trbs \in 1 .. 3
        /\ q[1].ring = "cmd" => q[1].trbs = 1
        /\ (\E i \in 1 .. Len(q) : q[i].ring = "cmd") => CommandsAhead(plan)
    BY <1>5, <1>7, <1>9, TailPlan
  <2>2. plan' = q /\ pc' = "enqueue" /\ left' = q[1].trbs
    BY <1>9 DEF Begin
  <2> HIDE DEF q
  <2>3. DriverOK'
    <3>1. /\ pc' \in {"off", "idle", "failed"} \cup Busy /\ left' \in 0 .. 3
          /\ (pc' \in Busy <=> plan' # <<>>) /\ (pc' = "enqueue" <=> left' > 0)
      BY <2>1, <2>2 DEF Busy
    <3> QED
      BY <1>2, <1>5, <2>1, <2>2, <3>1, Zenon DEF DriverOK
  <2>4. (\E i \in 1 .. Len(q) : q[i].ring = "cmd") => Settled
    <3>1. plan[1].ring = "cmd" => Settled
      BY <1>1, <1>2, <1>5, <1>9 DEF CommandInv
    <3>2. plan[1].ring # "cmd" /\ CommandsAhead(plan) => Settled
      BY <1>1, <1>5 DEF CommandInv
    <3> QED
      BY <2>1, <3>1, <3>2
  <2>5. Len(q) \in Nat /\ 1 \in 1 .. Len(q) /\ \A i \in 2 .. Len(q) : i \in 1 .. Len(q)
    <3>1. q \in Seq(Ops) /\ Len(q) \in Nat \ {0}
      BY <2>1, EmptySeq DEF PlanOK
    <3> QED
      BY <3>1
  <2>6. CommandInv'
    <3>1. CommandsAhead(q) \/ q[1].ring = "cmd" => Settled'
      BY <1>4, <2>4, <2>5 DEF CommandsAhead
    <3> QED
      BY <2>1, <2>2, <3>1 DEF CommandInv
  <2>7. PICK m \in Nat : m = Slack(q[1].name) /\ Reserve' = m
    BY <2>2, SlackNat DEF Reserve
  <2>8. left' \in 1 .. 3 /\ left' - 1 + m <= k
    BY <2>1, <2>2, <2>7
  <2>9. RunAhead' < Link
    <3>1. PICK t \in 1 .. 3 : t = left' /\ t - 1 + m <= k
      BY <2>8
    <3>2. RunAhead' = a + y + t + g + p + m
      BY <1>2, <1>4, <1>6, <2>7, <3>1 DEF RunAhead
    <3>3. t + m <= j
      BY <1>7, <3>1
    <3> QED
      BY <1>6, <3>2, <3>3, LinkFacts
  <2> QED
    BY <1>4, <2>3, <2>6, <2>9 DEF XhciIInv
<1> QED
  BY <1>3, <1>8, <1>9

\* bot_execute begins.
LEMMA StartCommandOK == XhciIInv /\ StartCommand => XhciIInv'
<1> SUFFICES ASSUME XhciIInv, StartCommand PROVE XhciIInv'
  OBVIOUS
<1>1. SharedOK /\ DriverOK /\ CommandInv /\ RunAhead < Link
  BY DEF XhciIInv
<1>2. /\ pc = "idle" /\ ok' = ok /\ budget.commands > 0
      /\ budget' = [budget EXCEPT !.commands = @ - 1]
      /\ UNCHANGED <<ring, hc, evt, evt_hc, evt_drv, erdp, sent, done, posted, taken>>
  BY DEF StartCommand
<1>3. PICK phase \in budget.phases : Begin(BotOps(phase))
  BY DEF StartCommand
<1>4. SharedOK' /\ Ahead' = Ahead /\ (Settled' <=> Settled)
  BY <1>1, <1>2, QuietStep
<1>5. left = 0 /\ BudgetOK /\ ok \in BOOLEAN
  BY <1>1, <1>2 DEF DriverOK, Busy
<1>6. /\ BudgetOK' /\ phase \in {"none", "in", "out"}
      /\ budget.give_ups \in Nat /\ budget.ports \in Nat
      /\ budget'.give_ups = budget.give_ups /\ budget'.ports = budget.ports
  BY <1>2, <1>5 DEF BudgetOK
<1> DEFINE p == BotOps(phase)
<1>7. /\ PlanOK(p) /\ p # <<>> /\ p[1].trbs = 1 /\ p[1].name = "bulk"
      /\ \A i \in 1 .. Len(p) : p[i].ring # "cmd"
  BY <1>6, BotPlan
<1>8. plan' = p /\ pc' = "enqueue" /\ left' = 1
  BY <1>3, <1>7 DEF Begin
<1> HIDE DEF p
<1>9. DriverOK'
  <2>1. /\ pc' \in {"off", "idle", "failed"} \cup Busy /\ left' \in 0 .. 3
        /\ (pc' \in Busy <=> plan' # <<>>) /\ (pc' = "enqueue" <=> left' > 0)
    BY <1>7, <1>8 DEF Busy
  <2> QED
    BY <1>2, <1>5, <1>6, <1>7, <1>8, <2>1, Zenon DEF DriverOK
<1>10. CommandInv'
  <2>1. Len(p) \in Nat /\ 1 \in 1 .. Len(p) /\ \A i \in 2 .. Len(p) : i \in 1 .. Len(p)
    <3>1. p \in Seq(Ops) /\ Len(p) \in Nat \ {0}
      BY <1>7, EmptySeq DEF PlanOK
    <3> QED
      BY <3>1
  <2>2. ~CommandsAhead(p) /\ p[1].ring # "cmd"
    BY <1>7, <2>1 DEF CommandsAhead
  <2> QED
    BY <1>8, <2>2 DEF CommandInv
<1>11. RunAhead' < Link
  <2>1. PICK a, y, l, g, h, k \in Nat :
             /\ Ahead = a /\ posted - taken = y /\ left = l
             /\ budget.give_ups = g /\ budget.ports = h /\ Reserve = k
             /\ a + y + l + g + h + k < Link
    BY <1>1, Balance
  <2>2. k = 1 /\ Reserve' = 0
    BY <1>2, <1>7, <1>8, <2>1 DEF Reserve, Slack
  <2>3. RunAhead' = a + y + 1 + g + h + 0
    BY <1>2, <1>4, <1>6, <1>8, <2>1, <2>2 DEF RunAhead
  <2> QED
    BY <2>1, <2>2, <2>3, LinkFacts
<1> QED
  BY <1>4, <1>9, <1>10, <1>11 DEF XhciIInv

\* A step that moves no command.
LEMMA CommandKept ==
  ASSUME CommandInv, UNCHANGED drvVars, Settled => Settled',
         OneAnswered => OneAnswered', Unanswered
           => Unanswered', sent'["cmd"] = sent["cmd"], done'["cmd"] = done["cmd"]
  PROVE  CommandInv'
BY DEF CommandInv, drvVars

\* A step of the controller leaves the driver alone.
LEMMA DriverKept ==
  ASSUME DriverOK, UNCHANGED drvVars, BudgetOK'
  PROVE  DriverOK' /\ Reserve' = Reserve /\ left' = left
<1>1. pc' = pc /\ plan' = plan /\ left' = left /\ ok' = ok
  BY DEF drvVars
<1> QED
  BY <1>1 DEF DriverOK, Reserve

\* A port changes.
LEMMA PortEventOK == XhciIInv /\ PortEvent => XhciIInv'
<1> SUFFICES ASSUME XhciIInv, PortEvent PROVE XhciIInv'
  OBVIOUS
<1>1. SharedOK /\ DriverOK /\ CommandInv /\ RunAhead < Link
  BY DEF XhciIInv
<1>2. /\ budget.ports > 0 /\ budget' = [budget EXCEPT !.ports = @ - 1]
      /\ Post("port", TRUE) /\ UNCHANGED <<ring, hc, evt_drv, erdp, drvVars, sent, done, taken>>
  BY DEF PortEvent
<1>3. "port" \in EventTypes /\ TRUE \in BOOLEAN /\ "port" # "command"
  BY DEF EventTypes
<1>4. UNCHANGED <<evt_drv, erdp, taken>> /\ UNCHANGED drvVars
  BY <1>2
<1>5. /\ evt' \in EventRingType /\ evt_hc' \in [enq : Events, pcs : Bit]
      /\ posted' = posted + 1
      /\ EventQueue(evt', evt_hc'.enq, evt_hc'.pcs, evt_drv'.deq, evt_drv'.ccs, posted', taken')
      /\ (Unanswered => Unanswered') /\ (OneAnswered => OneAnswered')
  BY <1>1, <1>2, <1>3, <1>4, PostOK
<1>6. BudgetOK' /\ budget.give_ups \in Nat /\ budget.ports \in Nat
      /\ budget'.ports = budget.ports - 1 /\ budget'.give_ups = budget.give_ups
  <2>1. BudgetOK
    BY <1>1 DEF DriverOK
  <2> QED
    BY <1>2, <2>1 DEF BudgetOK
<1>7. SharedOK'
  <2>1. /\ ring \in [Rings -> RingType] /\ hc \in [Rings -> HcType]
        /\ evt_drv \in [deq : Events, ccs : Bit] /\ erdp = evt_drv.deq
        /\ sent \in [Rings -> Nat] /\ done \in [Rings -> Nat]
        /\ \A r \in Rings : TrbQueue(ring[r], hc[r].deq, hc[r].ccs, sent[r], done[r])
    BY <1>1 DEF SharedOK
  <2>2. /\ ring' = ring /\ hc' = hc /\ evt_drv' = evt_drv /\ erdp' = erdp
        /\ sent' = sent /\ done' = done
    BY <1>2
  <2> QED
    BY <1>5, <2>1, <2>2 DEF SharedOK
<1>8. DriverOK' /\ Reserve' = Reserve /\ left' = left
  BY <1>1, <1>4, <1>6, DriverKept
<1>9. CommandInv'
  <2>1. sent' = sent /\ done' = done
    BY <1>2
  <2>2. Settled => Settled'
    BY <1>5, <2>1 DEF Settled
  <2> QED
    BY <1>1, <1>4, <1>5, <2>1, <2>2, CommandKept
<1>10. RunAhead' < Link
  <2>1. PICK a, y, l, g, p, k \in Nat :
             /\ Ahead = a /\ posted - taken = y /\ left = l
             /\ budget.give_ups = g /\ budget.ports = p /\ Reserve = k
             /\ a + y + l + g + p + k < Link
    BY <1>1, Balance
  <2>2. Ahead' = Ahead
    BY <1>2 DEF Ahead
  <2>3. posted' - taken' = y + 1
    <3>1. posted \in Nat /\ taken \in Nat /\ taken' = taken
      BY <1>1, <1>2, EventsOf
    <3> QED
      BY <1>5, <2>1, <3>1
  <2>4. RunAhead' = a + (y + 1) + l + g + (p - 1) + k
    BY <1>6, <1>8, <2>1, <2>2, <2>3 DEF RunAhead
  <2> QED
    BY <2>1, <2>4, LinkFacts
<1> QED
  BY <1>7, <1>8, <1>9, <1>10 DEF XhciIInv

\* The controller moves on a ring without executing.
LEMMA HcStep ==
  ASSUME SharedOK, NEW r \in Rings, NEW w \in HcType, hc' = [hc EXCEPT ![r] = w],
         TrbQueue(ring[r], w.deq, w.ccs, sent[r], done[r]),
         UNCHANGED <<ring, evt, evt_hc, evt_drv, erdp, sent, done, posted, taken>>
  PROVE  SharedOK'
<1>1. /\ ring \in [Rings -> RingType] /\ hc \in [Rings -> HcType]
      /\ evt \in EventRingType
      /\ evt_hc \in [enq : Events, pcs : Bit] /\ evt_drv \in [deq : Events, ccs : Bit]
      /\ sent \in [Rings -> Nat] /\ done \in [Rings -> Nat]
      /\ \A t \in Rings : TrbQueue(ring[t], hc[t].deq, hc[t].ccs, sent[t], done[t])
      /\ EventQueue(evt, evt_hc.enq, evt_hc.pcs, evt_drv.deq, evt_drv.ccs, posted, taken)
      /\ erdp = evt_drv.deq
  BY DEF SharedOK
<1>2. hc' \in [Rings -> HcType] /\ hc'[r] = w /\ \A t \in Rings : t # r => hc'[t] = hc[t]
  BY <1>1
<1>3. \A t \in Rings : TrbQueue(ring[t], hc'[t].deq, hc'[t].ccs, sent[t], done[t])
  <2> TAKE t \in Rings
  <2>1. CASE t = r
    BY <1>2, <2>1
  <2>2. CASE t # r
    BY <1>1, <1>2, <2>2
  <2> QED
    BY <2>1, <2>2
<1>4. /\ ring' = ring /\ evt' = evt /\ evt_hc' = evt_hc /\ evt_drv' = evt_drv /\ erdp' = erdp
      /\ sent' = sent /\ done' = done /\ posted' = posted /\ taken' = taken
  OBVIOUS
<1> QED
  BY <1>1, <1>2, <1>3, <1>4 DEF SharedOK

\* The link is followed, or the controller stops at an entry not its own.
LEMMA HcOnlyOK ==
  ASSUME XhciIInv, NEW r \in Rings, FollowLink(r) \/ Stop(r) PROVE XhciIInv'
<1>1. SharedOK /\ DriverOK /\ CommandInv /\ RunAhead < Link
  BY DEF XhciIInv
<1>2. /\ UNCHANGED <<ring, evt, evt_hc, evt_drv, erdp, sent, done, posted, taken>>
      /\ UNCHANGED drvVars /\ budget' = budget
  BY DEF FollowLink, Stop, evtVars
<1>3. /\ ring[r] \in RingType /\ hc[r] \in HcType /\ hc[r].ccs \in Bit
      /\ TrbQueue(ring[r], hc[r].deq, hc[r].ccs, sent[r], done[r])
  BY <1>1, RingsOf
<1>4. SharedOK'
  <2>1. CASE FollowLink(r)
    <3> DEFINE w == [hc[r] EXCEPT !.deq = 0, !.ccs = 1 - @]
    <3>1. hc' = [hc EXCEPT ![r] = w] /\ hc[r].deq = Link
      BY <2>1 DEF FollowLink
    <3>2. w.deq = 0 /\ w.ccs = 1 - hc[r].ccs
      BY <1>3 DEF HcType
    <3>3. 0 \in 0 .. Link /\ 1 - hc[r].ccs \in Bit
      BY <1>3, LinkFacts DEF Bit
    <3>4. w \in HcType
      BY <1>3, <3>3 DEF HcType
    <3> HIDE DEF w
    <3>5. TrbQueue(ring[r], 0, 1 - hc[r].ccs, sent[r], done[r])
      BY <1>3, <3>1, Followed
    <3> QED
      BY <1>1, <1>2, <3>1, <3>2, <3>4, <3>5, HcStep
  <2>2. CASE Stop(r)
    <3> DEFINE w == [hc[r] EXCEPT !.running = FALSE]
    <3>1. hc' = [hc EXCEPT ![r] = w]
      BY <2>2 DEF Stop
    <3>2. w.deq = hc[r].deq /\ w.ccs = hc[r].ccs
      BY <1>3 DEF HcType
    <3>3. w \in HcType
      BY <1>3, Zenon DEF HcType
    <3> HIDE DEF w
    <3> QED
      BY <1>1, <1>2, <1>3, <3>1, <3>2, <3>3, HcStep
  <2> QED
    BY <2>1, <2>2
<1>5. BudgetOK'
  BY <1>1, <1>2 DEF DriverOK, BudgetOK
<1>6. DriverOK' /\ Reserve' = Reserve /\ left' = left
  BY <1>1, <1>2, <1>5, DriverKept
<1>7. (Unanswered' <=> Unanswered) /\ (OneAnswered' <=> OneAnswered) /\ sent' = sent /\ done' = done
  BY <1>2 DEF Unanswered, OneAnswered
<1>8. CommandInv'
  <2>1. Settled => Settled'
    BY <1>7 DEF Settled
  <2> QED
    BY <1>1, <1>2, <1>7, <2>1, CommandKept
<1>9. RunAhead' < Link
  BY <1>1, <1>2, <1>6, <1>7 DEF RunAhead, Ahead
<1> QED
  BY <1>4, <1>6, <1>8, <1>9 DEF XhciIInv

\* The controller executes a TRB and reports it, or its failure.
LEMMA ExecuteOK == ASSUME XhciIInv, NEW r \in Rings, Execute(r) PROVE XhciIInv'
<1>1. SharedOK /\ DriverOK /\ CommandInv /\ RunAhead < Link
  BY DEF XhciIInv
<1> DEFINE type == IF r = "cmd" THEN "command" ELSE "transfer"
<1>2. PICK good \in BOOLEAN :
        /\ good \/ budget.errors > 0
        /\ Post(type, good)
        /\ budget' = [budget EXCEPT !.errors = IF good THEN @ ELSE @ - 1]
        /\ hc' = [hc EXCEPT ![r].deq = @ + 1, ![r].halted = ~good /\ r # "cmd"]
  BY DEF Execute
<1>3. /\ ring[r].trbs[hc[r].deq].cycle = hc[r].ccs /\ hc[r].deq # Link
      /\ done' = [done EXCEPT ![r] = ring[r].trbs[hc[r].deq].n]
      /\ UNCHANGED <<ring, evt_drv, erdp, taken>> /\ sent' = sent /\ UNCHANGED drvVars
  BY DEF Execute, TrbReady
<1>4. type \in EventTypes /\ (r # "cmd" => type # "command")
  BY DEF EventTypes
<1> HIDE DEF type
<1>5. UNCHANGED <<evt_drv, erdp, taken>>
  BY <1>3
<1>6. /\ evt' \in EventRingType /\ evt_hc' \in [enq : Events, pcs : Bit]
      /\ posted' = posted + 1
      /\ EventQueue(evt', evt_hc'.enq, evt_hc'.pcs, evt_drv'.deq, evt_drv'.ccs, posted', taken')
      /\ r # "cmd" => (Unanswered => Unanswered') /\ (OneAnswered => OneAnswered')
      /\ Unanswered => OneAnswered'
  BY <1>1, <1>2, <1>4, <1>5, PostOK
<1>7. /\ ring[r] \in RingType /\ hc[r] \in HcType /\ hc[r].deq \in 0 .. Link /\ hc[r].ccs \in Bit
      /\ sent[r] \in Nat /\ done[r] \in Nat
      /\ TrbQueue(ring[r], hc[r].deq, hc[r].ccs, sent[r], done[r])
  BY <1>1, RingsOf
<1>8. /\ ring[r].trbs[hc[r].deq].n = done[r] + 1 /\ done[r] + 1 <= sent[r]
      /\ TrbQueue(ring[r], hc[r].deq + 1, hc[r].ccs, sent[r], done[r] + 1)
  BY <1>3, <1>7, Executed
<1>9. hc \in [Rings -> HcType] /\ ring \in [Rings -> RingType]
      /\ sent \in [Rings -> Nat] /\ done \in [Rings -> Nat]
  BY <1>1 DEF SharedOK
<1> DEFINE w == [hc[r] EXCEPT !.deq = @ + 1, !.halted = ~good /\ r # "cmd"]
<1>10. hc' = [hc EXCEPT ![r] = w]
  BY <1>2, <1>9
<1>11. w.deq = hc[r].deq + 1 /\ w.ccs = hc[r].ccs
  BY <1>7 DEF HcType
<1>12. w \in HcType
  <2>1. hc[r].deq + 1 \in 0 .. Link
    BY <1>3, <1>7, LinkFacts
  <2>2. (~good /\ r # "cmd") \in BOOLEAN
    BY Zenon
  <2> QED
    BY <1>7, <2>1, <2>2, Zenon DEF HcType
<1> HIDE DEF w
<1>13. /\ hc' \in [Rings -> HcType] /\ done' \in [Rings -> Nat]
       /\ hc'[r] = w /\ done'[r] = done[r] + 1
       /\ \A t \in Rings : t # r => hc'[t] = hc[t] /\ done'[t] = done[t]
  <2>1. done' = [done EXCEPT ![r] = done[r] + 1] /\ done[r] + 1 \in Nat
    BY <1>3, <1>7, <1>8
  <2> QED
    BY <1>9, <1>10, <1>12, <2>1
<1>14. \A t \in Rings : TrbQueue(ring'[t], hc'[t].deq, hc'[t].ccs, sent'[t], done'[t])
  <2> TAKE t \in Rings
  <2>1. TrbQueue(ring[t], hc[t].deq, hc[t].ccs, sent[t], done[t])
    BY <1>1, RingsOf
  <2>2. ring' = ring /\ sent' = sent
    BY <1>3
  <2>3. CASE t = r
    BY <1>8, <1>11, <1>13, <2>2, <2>3
  <2>4. CASE t # r
    BY <1>13, <2>1, <2>2, <2>4
  <2> QED
    BY <2>3, <2>4
<1>15. SharedOK'
  <2>1. evt_drv \in [deq : Events, ccs : Bit] /\ erdp = evt_drv.deq
    BY <1>1 DEF SharedOK
  <2>2. ring' = ring /\ sent' = sent /\ evt_drv' = evt_drv /\ erdp' = erdp
    BY <1>3
  <2> QED
    BY <1>6, <1>9, <1>13, <1>14, <2>1, <2>2 DEF SharedOK
<1>16. BudgetOK' /\ budget'.give_ups = budget.give_ups /\ budget'.ports = budget.ports
  <2>1. BudgetOK
    BY <1>1 DEF DriverOK
  <2>2. CASE good
    <3>1. budget' = [budget EXCEPT !.errors = @]
      BY <1>2, <2>2
    <3> QED
      BY <2>1, <3>1 DEF BudgetOK
  <2>3. CASE ~good
    <3>1. budget' = [budget EXCEPT !.errors = @ - 1] /\ budget.errors > 0
      BY <1>2, <2>3
    <3> QED
      BY <2>1, <3>1 DEF BudgetOK
  <2> QED
    BY <2>2, <2>3
<1>17. DriverOK' /\ Reserve' = Reserve /\ left' = left
  BY <1>1, <1>3, <1>16, DriverKept
<1>18. CommandInv'
  <2>1. CASE r # "cmd"
    <3>1. done'["cmd"] = done["cmd"] /\ sent'["cmd"] = sent["cmd"]
      BY <1>3, <1>13, <2>1, FourRings
    <3>2. Settled => Settled'
      BY <1>6, <2>1, <3>1 DEF Settled
    <3> QED
      BY <1>1, <1>3, <1>6, <2>1, <3>1, <3>2, CommandKept
  <2>2. CASE r = "cmd"
    <3>1. done["cmd"] + 1 <= sent["cmd"] /\ done["cmd"] \in Nat /\ sent["cmd"] \in Nat
          /\ done'["cmd"] = done["cmd"] + 1 /\ sent' = sent
      BY <1>3, <1>7, <1>8, <1>13, <2>2
    <3>2. ~Settled /\ done["cmd"] # sent["cmd"]
      BY <3>1 DEF Settled
    <3>3. pc' = pc /\ plan' = plan /\ left' = left /\ ok' = ok
      BY <1>3 DEF drvVars
    <3>4. pc # "off" /\ ~(plan # <<>> /\ plan[1].ring # "cmd" /\ CommandsAhead(plan))
      BY <1>1, <3>2 DEF CommandInv
    <3>5. plan # <<>> /\ plan[1].ring = "cmd" =>
            /\ pc # "enqueue" /\ ~(pc = "return" /\ ok)
            /\ pc = "wait" => done["cmd"] + 1 = sent["cmd"] /\ Unanswered
      BY <1>1, <3>2 DEF CommandInv
    <3>6. plan # <<>> /\ plan[1].ring = "cmd" /\ pc = "wait" => done'["cmd"] = sent'["cmd"]
          /\ OneAnswered'
      BY <1>6, <3>1, <3>5
    <3> QED
      BY <3>3, <3>4, <3>5, <3>6 DEF CommandInv
  <2> QED
    BY <2>1, <2>2
<1>19. Ahead' = Ahead - 1 /\ Ahead \in Nat
  <2>1. \A t \in Rings : sent[t] \in Nat /\ done[t] \in Nat
    BY <1>9
  <2>2. \A t \in Rings : done'[t] = IF t = r THEN done[t] + 1 ELSE done[t]
    BY <1>13
  <2>3. r = "cmd" \/ r = "ep0" \/ r = "out" \/ r = "in"
    BY FourRings
  <2>4. Ahead' = Ahead - 1
    BY <1>3, <2>1, <2>2, <2>3, FourRings DEF Ahead
  <2> QED
    BY <1>1, <2>4, NumbersOf
<1>20. RunAhead' < Link
  <2>1. PICK a, y, l, g, p, k \in Nat :
             /\ Ahead = a /\ posted - taken = y /\ left = l
             /\ budget.give_ups = g /\ budget.ports = p /\ Reserve = k
             /\ a + y + l + g + p + k < Link
    BY <1>1, Balance
  <2>2. posted' - taken' = y + 1
    <3>1. posted \in Nat /\ taken \in Nat /\ taken' = taken
      BY <1>1, <1>3, EventsOf
    <3> QED
      BY <1>6, <2>1, <3>1
  <2>3. RunAhead' = (a - 1) + (y + 1) + l + g + p + k
    BY <1>16, <1>17, <1>19, <2>1, <2>2 DEF RunAhead
  <2> QED
    BY <2>1, <2>3, LinkFacts
<1> QED
  BY <1>15, <1>17, <1>18, <1>20 DEF XhciIInv

\* Every step keeps the invariant.
LEMMA XhciStep == XhciIInv /\ [XhciNext]_xhciVars => XhciIInv'
<1> SUFFICES ASSUME XhciIInv, [XhciNext]_xhciVars PROVE XhciIInv'
  OBVIOUS
<1>1. CASE Driver
  BY <1>1, StartControllerOK, EnqueueOK, PollOK, GiveUpOK, ReturnOK, StartCommandOK DEF Driver
<1>2. CASE Controller
  BY <1>2, PortEventOK, ExecuteOK, HcOnlyOK DEF Controller
<1>3. CASE UNCHANGED xhciVars
  <2>1. /\ ring' = ring /\ hc' = hc /\ evt' = evt /\ evt_hc' = evt_hc /\ evt_drv' = evt_drv
        /\ erdp' = erdp /\ pc' = pc /\ plan' = plan /\ left' = left /\ ok' = ok /\ sent' = sent
        /\ done' = done /\ posted' = posted /\ taken' = taken /\ budget' = budget
    BY <1>3 DEF xhciVars
  <2>2. SharedOK' /\ Ahead' = Ahead /\ (Settled' <=> Settled) /\ (Unanswered' <=> Unanswered)
        /\ (OneAnswered' <=> OneAnswered)
    BY <2>1, QuietStep DEF XhciIInv
  <2>3. DriverOK' /\ CommandInv'
    BY <2>1, <2>2 DEF XhciIInv, DriverOK, BudgetOK, CommandInv
  <2>4. RunAhead' < Link
    BY <2>1, <2>2 DEF XhciIInv, RunAhead, Reserve
  <2> QED
    BY <2>2, <2>3, <2>4 DEF XhciIInv
<1> QED
  BY <1>1, <1>2, <1>3 DEF XhciNext

\* The invariant gives every part of XhciInv.
LEMMA XhciIInvImplies == XhciIInv => XhciInv
<1> SUFFICES ASSUME XhciIInv PROVE XhciInv
  OBVIOUS
<1>1. SharedOK /\ DriverOK /\ CommandInv /\ RunAhead < Link
  BY DEF XhciIInv
<1>2. XhciTypeOK
  BY <1>1, TypesFollow
<1>3. RingsFit
  <2> SUFFICES ASSUME NEW r \in Rings PROVE sent[r] - done[r] < Link
    BY DEF RingsFit
  <2>1. PICK a, y, l, g, p, k \in Nat :
             /\ Ahead = a /\ posted - taken = y /\ left = l
             /\ budget.give_ups = g /\ budget.ports = p /\ Reserve = k
             /\ a + y + l + g + p + k < Link
    BY <1>1, Balance
  <2>2. PICK x \in Nat : x = sent[r] - done[r] /\ x <= a
    BY <1>1, <2>1, NumbersOf
  <2>3. x < Link
    BY <2>1, <2>2, LinkFacts
  <2> QED
    BY <2>2, <2>3
<1>4. RingsInOrder
  <2> SUFFICES ASSUME NEW r \in Rings
               PROVE  LET w == hc[r]
                          at == IF w.deq = Link THEN 0 ELSE w.deq
                          live == IF w.deq = Link
                                  THEN ring[r].trbs[Link].cycle = w.ccs
                                       /\ ring[r].trbs[0].cycle = 1 - w.ccs
                                  ELSE ring[r].trbs[at].cycle = w.ccs
                      IN IF sent[r] > done[r] THEN live /\ ring[r].trbs[at].n = done[r] + 1
                                              ELSE ~live
    BY Zenon DEF RingsInOrder
  <2>1. /\ ring[r] \in RingType /\ hc[r].deq \in 0 .. Link /\ hc[r].ccs \in Bit
        /\ TrbQueue(ring[r], hc[r].deq, hc[r].ccs, sent[r], done[r])
    BY <1>1, RingsOf
  <2>2. /\ hc[r].deq # Link => IF sent[r] > done[r]
                               THEN /\ ring[r].trbs[hc[r].deq].cycle = hc[r].ccs
                                    /\ ring[r].trbs[hc[r].deq].n = done[r] + 1
                               ELSE ring[r].trbs[hc[r].deq].cycle # hc[r].ccs
        /\ hc[r].deq = Link => /\ ring[r].trbs[Link].cycle = hc[r].ccs
                               /\ IF sent[r] > done[r]
                                  THEN /\ ring[r].trbs[0].cycle = 1 - hc[r].ccs
                                       /\ ring[r].trbs[0].n = done[r] + 1
                                  ELSE ring[r].trbs[0].cycle # 1 - hc[r].ccs
    BY <2>1, QueueInOrder
  <2>3. CASE hc[r].deq = Link
    BY <2>2, <2>3, Zenon
  <2>4. CASE hc[r].deq # Link
    BY <2>2, <2>4, Zenon
  <2> QED
    BY <2>3, <2>4, Zenon
<1>5. EventsInOrder
  <2>1. /\ evt \in EventRingType /\ evt_hc.enq \in Events /\ evt_hc.pcs \in Bit
        /\ evt_drv.deq \in Events /\ evt_drv.ccs \in Bit
        /\ EventQueue(evt, evt_hc.enq, evt_hc.pcs, evt_drv.deq, evt_drv.ccs, posted, taken)
    BY <1>1 DEF SharedOK
  <2>2. IF posted > taken
        THEN evt[evt_drv.deq].cycle = evt_drv.ccs /\ evt[evt_drv.deq].n = taken + 1
        ELSE evt[evt_drv.deq].cycle # evt_drv.ccs
    BY <2>1, EventInOrder
  <2> QED
    BY <2>2, Zenon DEF EventsInOrder, EventReady
<1>6. CommandOwn
  <2>1. pc = "return" => plan # <<>>
    BY <1>1 DEF DriverOK, Busy
  <2> QED
    BY <1>1, <2>1 DEF CommandOwn, CommandInv, Settled
<1> QED
  BY <1>2, <1>3, <1>4, <1>5, <1>6 DEF XhciInv

\* All rings shared with the controller are queues on every lap, none is ever overrun though
\* the driver never checks, and no command counts as done that is not, for rings of any
\* length and any lag of the controller, as long as time-outs and port changes are fewer
\* than the ring has room for (ring_enqueue, consume_event, wait_cmd_complete).
THEOREM XhciSafe == FewFailures => (XhciSpec => []XhciInv)
<1>1. FewFailures /\ XhciInit => XhciIInv
  BY XhciInitOK
<1>2. XhciIInv /\ [XhciNext]_xhciVars => XhciIInv'
  BY XhciStep
<1>3. XhciIInv => XhciInv
  BY XhciIInvImplies
<1>4. CASE FewFailures
  <2>1. XhciInit => XhciIInv
    BY <1>1, <1>4
  <2> QED
    BY <2>1, <1>2, <1>3, PTL DEF XhciSpec
<1> QED
  BY <1>4

----------------------------------------------------------------------------
(* The line editor and the text screen.                                     *)

\* The screen's record.
Screen == [lines : [0 .. FB_SHELL_ROWS - 1 -> Row], row : 0 .. FB_SHELL_ROWS - 1,
           col : 0 .. FB_SHELL_COLS, span : Nat, stuck : BOOLEAN]

\* The cursor is at the left edge of a blank row.
Fresh(s) == s.col = 0 /\ s.lines[s.row] = BlankRow

\* Cell n after the start of the prompt, once line was typed.
CharAt(line, n) == IF n = 0 THEN "#" ELSE IF n <= Len(line) THEN line[n] ELSE Nul

\* The cursor stands behind the line, and the rows it wrapped over show the line as far as
\* they are on the screen.
Behind(s, line) == s.span * FB_SHELL_COLS + s.col = Len(line) + 1
Cells(s, line) ==
  s.span <= s.row =>
    \A r \in 0 .. s.span, i \in 0 .. FB_SHELL_COLS - 1 :
      s.lines[s.row - s.span + r][i] = CharAt(line, r * FB_SHELL_COLS + i)
Drawn(s, line) == ~s.stuck => Behind(s, line) /\ Cells(s, line)

\* The inductive invariant, next to the ring's: the variables have their types, a halt is
\* for good, and the screen shows the line at every step, also while a character is on its
\* way.
EditIInv ==
  /\ shift_pressed \in BOOLEAN /\ halted \in BOOLEAN
  /\ shell_pc \in {"check", "read", "advance", "handle"}
  /\ tmp \in Chars \cup {Nul} /\ c \in Chars \cup {Nul}
  /\ line_buf \in Seq(Printable) /\ Len(line_buf) <= LINE_MAX /\ scr \in Screen
  /\ halted => shell_pc = "handle" /\ c = "nl"
  /\ ~halted => Drawn(scr, line_buf)

\* The sizes of the screen.
LEMMA ScreenSize ==
  /\ FB_SHELL_ROWS \in Nat /\ FB_SHELL_ROWS > 0 /\ FB_SHELL_COLS \in Nat /\ FB_SHELL_COLS > 0
  /\ LINE_MAX \in Nat
  BY ConsoleAssumption

\* fb_shell_newline moves to a blank row: the one below, or the last after all others
\* moved up.
LEMMA NewlineFacts ==
  ASSUME NEW s \in Screen
  PROVE  LET t == fb_shell_newline(s)
         IN  /\ t \in Screen /\ Fresh(t) /\ t.span = s.span /\ t.stuck = s.stuck
             /\ s.row + 1 < FB_SHELL_ROWS =>
                  t.row = s.row + 1 /\ \A r \in 0 .. s.row : t.lines[r] = s.lines[r]
             /\ ~(s.row + 1 < FB_SHELL_ROWS) =>
                  t.row = s.row /\ \A r \in 0 .. s.row - 1 : t.lines[r] = s.lines[r + 1]
<1> DEFINE t == fb_shell_newline(s)
<1>0. FB_SHELL_ROWS \in Nat /\ FB_SHELL_ROWS > 0 /\ FB_SHELL_COLS \in Nat /\ FB_SHELL_COLS > 0
  BY ScreenSize
<1>1. BlankRow \in Row /\ 0 \in 0 .. FB_SHELL_COLS
  BY <1>0 DEF BlankRow, Row
<1>2. /\ DOMAIN s.lines = 0 .. FB_SHELL_ROWS - 1 /\ s.row \in 0 .. FB_SHELL_ROWS - 1
      /\ s.lines \in [0 .. FB_SHELL_ROWS - 1 -> Row]
  BY DEF Screen
<1>3. CASE s.row + 1 < FB_SHELL_ROWS
  <2> DEFINE l == [s.lines EXCEPT ![s.row + 1] = BlankRow]
  <2>1. t = [s EXCEPT !.col = 0, !.row = s.row + 1, !.lines = l]
    BY <1>3 DEF fb_shell_newline, Screen
  <2>2. s.row + 1 \in 0 .. FB_SHELL_ROWS - 1
    BY <1>0, <1>2, <1>3
  <2>3. /\ l \in [0 .. FB_SHELL_ROWS - 1 -> Row] /\ l[s.row + 1] = BlankRow
        /\ \A r \in 0 .. s.row : l[r] = s.lines[r]
    BY <1>0, <1>1, <1>2, <2>2
  <2> HIDE DEF l
  <2>4. /\ t.lines = l /\ t.row = s.row + 1 /\ t.col = 0 /\ t.span = s.span /\ t.stuck = s.stuck
        /\ t \in Screen
    BY <1>1, <2>1, <2>2, <2>3 DEF Screen
  <2> HIDE DEF t
  <2> QED BY <1>3, <2>3, <2>4 DEF Fresh, t
<1>4. CASE ~(s.row + 1 < FB_SHELL_ROWS)
  <2> DEFINE l == [r \in DOMAIN s.lines |->
                     IF r = FB_SHELL_ROWS - 1 THEN BlankRow ELSE s.lines[r + 1]]
  <2>1. t = [s EXCEPT !.col = 0, !.row = FB_SHELL_ROWS - 1, !.lines = l]
    BY <1>4 DEF fb_shell_newline, Screen
  <2>2. s.row = FB_SHELL_ROWS - 1 /\ FB_SHELL_ROWS - 1 \in 0 .. FB_SHELL_ROWS - 1
    BY <1>0, <1>2, <1>4
  <2>3. /\ l \in [0 .. FB_SHELL_ROWS - 1 -> Row] /\ l[s.row] = BlankRow
        /\ \A r \in 0 .. s.row - 1 : l[r] = s.lines[r + 1]
    <3>1. \A r \in 0 .. FB_SHELL_ROWS - 1 : r # FB_SHELL_ROWS - 1 => r + 1 \in 0 .. FB_SHELL_ROWS - 1
      BY <1>0
    <3>2. \A r \in 0 .. s.row - 1 : r \in 0 .. FB_SHELL_ROWS - 1 /\ r # FB_SHELL_ROWS - 1
      BY <1>0, <2>2
    <3> QED BY <1>1, <1>2, <2>2, <3>1, <3>2
  <2> HIDE DEF l
  <2>4. /\ t.lines = l /\ t.row = s.row /\ t.col = 0 /\ t.span = s.span /\ t.stuck = s.stuck
        /\ t \in Screen
    BY <1>1, <2>1, <2>2, <2>3 DEF Screen
  <2> HIDE DEF t
  <2> QED BY <1>4, <2>3, <2>4 DEF Fresh, t
<1> QED BY <1>3, <1>4

\* fb_shell_puts of one and of two characters.
LEMMA PutsOne == ASSUME NEW s, NEW x PROVE fb_shell_puts(s, <<x>>) = fb_shell_putchar(s, x)
<1> DEFINE Eqn(f) == f = [i \in 0 .. Len(<<x>>) |->
                            IF i = 0 THEN s ELSE fb_shell_putchar(f[i - 1], <<x>>[i])]
           f == CHOOSE f : Eqn(f)
           g == [i \in 0 .. 1 |-> IF i = 0 THEN s ELSE fb_shell_putchar(s, x)]
<1>1. Len(<<x>>) = 1 /\ <<x>>[1] = x /\ 0 .. 1 = {0, 1}
  OBVIOUS
<1>2. Eqn(g)
  <2>1. g[0] = s /\ g[1] = fb_shell_putchar(s, x)
    OBVIOUS
  <2>2. \A i \in 0 .. 1 : g[i] = IF i = 0 THEN s ELSE fb_shell_putchar(g[i - 1], <<x>>[i])
    <3>1. 1 - 1 = 0 /\ 1 # 0
      OBVIOUS
    <3> HIDE DEF g
    <3> QED BY <1>1, <2>1, <3>1
  <2>3. g = [i \in 0 .. 1 |-> g[i]]
    OBVIOUS
  <2> HIDE DEF g
  <2> QED BY <1>1, <2>2, <2>3
<1>3. Eqn(f)
  <2> HIDE DEF Eqn, g
  <2> QED BY <1>2, Zenon
<1>4. fb_shell_puts(s, <<x>>) = f[Len(<<x>>)]
  BY DEF fb_shell_puts
<1> HIDE DEF f
<1>5. \A i \in 0 .. 1 : f[i] = IF i = 0 THEN s ELSE fb_shell_putchar(f[i - 1], <<x>>[i])
  BY <1>1, <1>3
<1>6. f[0] = s /\ f[1] = fb_shell_putchar(f[0], x)
  <2>1. 1 - 1 = 0 /\ 1 # 0 /\ 0 \in 0 .. 1 /\ 1 \in 0 .. 1
    OBVIOUS
  <2> QED BY <1>1, <1>5, <2>1
<1> QED BY <1>1, <1>4, <1>6

\* fb_shell_puts of two characters.
LEMMA PutsTwo ==
  ASSUME NEW s, NEW x, NEW y
  PROVE  fb_shell_puts(s, <<x, y>>) = fb_shell_putchar(fb_shell_putchar(s, x), y)
<1> DEFINE t == <<x, y>>
           Eqn(f) == f = [i \in 0 .. Len(t) |-> IF i = 0 THEN s ELSE fb_shell_putchar(f[i - 1], t[i])]
           f == CHOOSE f : Eqn(f)
           g == [i \in 0 .. 2 |-> IF i = 0 THEN s ELSE IF i = 1 THEN fb_shell_putchar(s, x)
                                  ELSE fb_shell_putchar(fb_shell_putchar(s, x), y)]
<1>1. Len(t) = 2 /\ t[1] = x /\ t[2] = y
  OBVIOUS
<1>0. 0 .. 2 = {0, 1, 2} /\ 1 - 1 = 0 /\ 2 - 1 = 1 /\ 1 # 0 /\ 2 # 0
  OBVIOUS
<1>2. Eqn(g)
  <2>1. g[0] = s /\ g[1] = fb_shell_putchar(s, x) /\ g[2] = fb_shell_putchar(g[1], y)
    OBVIOUS
  <2>2. \A i \in 0 .. 2 : g[i] = IF i = 0 THEN s ELSE fb_shell_putchar(g[i - 1], t[i])
    <3> HIDE DEF g, t
    <3> QED BY <1>0, <1>1, <2>1
  <2>3. g = [i \in 0 .. 2 |-> g[i]]
    OBVIOUS
  <2> HIDE DEF g, t
  <2> QED BY <1>1, <2>2, <2>3
<1>3. Eqn(f)
  <2> HIDE DEF Eqn, g
  <2> QED BY <1>2, Zenon
<1>4. fb_shell_puts(s, t) = f[Len(t)]
  BY DEF fb_shell_puts
<1> HIDE DEF f, t
<1>5. \A i \in 0 .. 2 : f[i] = IF i = 0 THEN s ELSE fb_shell_putchar(f[i - 1], t[i])
  BY <1>1, <1>3
<1>6. f[0] = s /\ f[1] = fb_shell_putchar(f[0], x) /\ f[2] = fb_shell_putchar(f[1], y)
  <2>1. 0 \in 0 .. 2 /\ 1 \in 0 .. 2 /\ 2 \in 0 .. 2
    OBVIOUS
  <2> QED BY <1>0, <1>1, <1>5, <2>1
<1>7. fb_shell_puts(s, t) = fb_shell_putchar(fb_shell_putchar(s, x), y)
  BY <1>1, <1>4, <1>6
<1> QED BY <1>7 DEF t

\* The characters a cell may hold besides the line's.
Ink == Printable \cup {"#"}

\* The row a character goes to: the cursor's, or a new one when that is full.
Target(s) == IF s.col >= FB_SHELL_COLS THEN [fb_shell_newline(s) EXCEPT !.span = @ + 1] ELSE s

\* Where that row is.
LEMMA TargetFacts ==
  ASSUME NEW s \in Screen
  PROVE  LET t == Target(s)
         IN  t \in Screen /\ t.col < FB_SHELL_COLS /\ t.stuck = s.stuck
             /\ (s.col < FB_SHELL_COLS => t = s)
             /\ (~(s.col < FB_SHELL_COLS) => s.col = FB_SHELL_COLS /\ t.span = s.span + 1 /\ Fresh(t))
<1>0. FB_SHELL_COLS \in Nat /\ FB_SHELL_COLS > 0 /\ s.col \in 0 .. FB_SHELL_COLS /\ s.span \in Nat
  BY ScreenSize DEF Screen
<1>1. CASE s.col < FB_SHELL_COLS
  BY <1>0, <1>1 DEF Target
<1>2. CASE ~(s.col < FB_SHELL_COLS)
  <2> DEFINE n == fb_shell_newline(s)
             t == [n EXCEPT !.span = @ + 1]
  <2>1. n \in Screen /\ Fresh(n) /\ n.span = s.span /\ n.stuck = s.stuck
    BY NewlineFacts
  <2>2. Target(s) = t
    BY <1>0, <1>2 DEF Target
  <2> HIDE DEF n
  <2>3. t \in Screen /\ t.col = n.col /\ t.stuck = n.stuck /\ t.span = n.span + 1
        /\ t.lines = n.lines /\ t.row = n.row
    BY <2>1 DEF Screen
  <2> HIDE DEF t
  <2> QED BY <1>0, <1>2, <2>1, <2>2, <2>3 DEF Fresh
<1> QED BY <1>1, <1>2

\* A character is put in its cell; nothing else changes in that row or another.
LEMMA PutInk ==
  ASSUME NEW s \in Screen, NEW x \in Ink
  PROVE  LET t == Target(s)
             u == fb_shell_putchar(s, x)
         IN  /\ u \in Screen /\ u.col = t.col + 1 /\ u.row = t.row /\ u.span = t.span
             /\ u.stuck = t.stuck
             /\ \A r \in 0 .. FB_SHELL_ROWS - 1, i \in 0 .. FB_SHELL_COLS - 1 :
                  u.lines[r][i] = IF r = t.row /\ i = t.col THEN x ELSE t.lines[r][i]
<1> DEFINE t == Target(s)
           u == fb_shell_putchar(s, x)
<1>0. FB_SHELL_COLS \in Nat /\ FB_SHELL_ROWS \in Nat
  BY ScreenSize
<1>1. t \in Screen /\ t.col < FB_SHELL_COLS
  BY TargetFacts
<1>2. x # "nl" /\ x # "bs" /\ x \in Chars \cup {Nul} \cup {"#"}
  BY DEF Ink, Printable, Chars
<1>3. u = [t EXCEPT !.lines[t.row][t.col] = x, !.col = @ + 1]
  BY <1>2 DEF fb_shell_putchar, Target
<1> HIDE DEF t, u
<1> DEFINE l == [t.lines EXCEPT ![t.row] = [t.lines[t.row] EXCEPT ![t.col] = x]]
<1>4. u = [t EXCEPT !.lines = l, !.col = t.col + 1]
  BY <1>1, <1>3 DEF Screen
<1>5. /\ t.lines \in [0 .. FB_SHELL_ROWS - 1 -> Row] /\ t.row \in 0 .. FB_SHELL_ROWS - 1
      /\ t.col \in 0 .. FB_SHELL_COLS - 1 /\ t.col + 1 \in 0 .. FB_SHELL_COLS
  BY <1>0, <1>1 DEF Screen
<1>6. t.lines[t.row] \in Row
  BY <1>5
<1>7. [t.lines[t.row] EXCEPT ![t.col] = x] \in Row
  BY <1>2, <1>5, <1>6 DEF Row
<1>8. l \in [0 .. FB_SHELL_ROWS - 1 -> Row]
  BY <1>5, <1>7
<1>9. ASSUME NEW r \in 0 .. FB_SHELL_ROWS - 1, NEW i \in 0 .. FB_SHELL_COLS - 1
      PROVE  l[r][i] = IF r = t.row /\ i = t.col THEN x ELSE t.lines[r][i]
  BY <1>5, <1>6 DEF Row
<1> HIDE DEF l
<1>10. u \in Screen /\ u.lines = l /\ u.col = t.col + 1 /\ u.row = t.row /\ u.span = t.span
       /\ u.stuck = t.stuck
  BY <1>1, <1>4, <1>5, <1>8 DEF Screen
<1> QED BY <1>9, <1>10 DEF t, u

\* Cell i of row r against position k of row a, when cells are numbered row by row.
Numbered(r, i, a, k) ==
  LET n == r * FB_SHELL_COLS + i
      p == a * FB_SHELL_COLS + k
  IN  /\ n \in Nat /\ p \in Nat
      /\ r < a => n < p
      /\ r = a => (n < p <=> i < k) /\ (n = p <=> i = k)

\* Cells are numbered row by row.
LEMMA CellNumber ==
  ASSUME NEW a \in Nat, NEW r \in 0 .. a, NEW i \in 0 .. FB_SHELL_COLS - 1,
         NEW k \in 0 .. FB_SHELL_COLS
  PROVE  Numbered(r, i, a, k)
<1>0. FB_SHELL_COLS \in Nat /\ FB_SHELL_COLS > 0
  BY ScreenSize
<1> DEFINE R == r * FB_SHELL_COLS
           A == a * FB_SHELL_COLS
<1>1. R \in Nat /\ A \in Nat
  BY <1>0
<1>2. r < a => R + FB_SHELL_COLS <= A
  <2> SUFFICES ASSUME r < a PROVE R + FB_SHELL_COLS <= A
    OBVIOUS
  <2>1. PICK d \in Nat : a = r + 1 + d
    <3>1. a - r - 1 \in Nat /\ a = r + 1 + (a - r - 1)
      OBVIOUS
    <3> QED BY <3>1
  <2>2. A = R + FB_SHELL_COLS + d * FB_SHELL_COLS /\ d * FB_SHELL_COLS \in Nat
    BY <1>0, <2>1
  <2> QED BY <1>0, <1>1, <2>2
<1>3. r = a => R = A
  OBVIOUS
<1> HIDE DEF R, A
<1>4. /\ R + i \in Nat /\ A + k \in Nat
      /\ r < a => R + i < A + k
      /\ r = a => (R + i < A + k <=> i < k) /\ (R + i = A + k <=> i = k)
  BY <1>0, <1>1, <1>2, <1>3
<1> QED BY <1>4 DEF R, A, Numbered

\* The row below the prompt's row, counted from the top of the screen.
LEMMA RowOnScreen ==
  ASSUME NEW s \in Screen, s.span <= s.row, NEW r \in 0 .. s.span
  PROVE  /\ s.row - s.span + r \in 0 .. FB_SHELL_ROWS - 1 /\ s.row - s.span + r <= s.row
         /\ (s.row - s.span + r = s.row) <=> (r = s.span)
<1>1. FB_SHELL_ROWS \in Nat /\ s.row \in 0 .. FB_SHELL_ROWS - 1 /\ s.span \in Nat
  BY ScreenSize DEF Screen
<1> DEFINE a == s.row
           b == s.span
<1>2. FB_SHELL_ROWS \in Nat /\ a \in 0 .. FB_SHELL_ROWS - 1 /\ b \in Nat /\ b <= a /\ r \in 0 .. b
  BY <1>1
<1> HIDE DEF a, b
<1>3. a - b + r \in 0 .. FB_SHELL_ROWS - 1 /\ a - b + r <= a /\ ((a - b + r = a) <=> (r = b))
  BY ONLY <1>2
<1> QED BY <1>3 DEF a, b

\* Wrapping shows the line on one row more.
LEMMA TargetDrawn ==
  ASSUME NEW s \in Screen, NEW line \in Seq(Printable), Behind(s, line), Cells(s, line)
  PROVE  Behind(Target(s), line) /\ Cells(Target(s), line)
<1> DEFINE t == Target(s)
           n == fb_shell_newline(s)
<1>0. FB_SHELL_COLS \in Nat /\ FB_SHELL_COLS > 0 /\ FB_SHELL_ROWS \in Nat /\ Len(line) \in Nat
      /\ s.span \in Nat /\ s.row \in 0 .. FB_SHELL_ROWS - 1 /\ s.col \in 0 .. FB_SHELL_COLS
  BY ScreenSize DEF Screen
<1>1. CASE s.col < FB_SHELL_COLS
  <2>1. t = s
    BY <1>1, TargetFacts
  <2> QED BY <2>1
<1>2. CASE ~(s.col < FB_SHELL_COLS)
  <2>1. t \in Screen /\ s.col = FB_SHELL_COLS /\ t.span = s.span + 1 /\ Fresh(t)
    BY <1>2, TargetFacts
  <2>2. t.row = n.row /\ t.lines = n.lines
    <3>1. n \in Screen
      BY NewlineFacts
    <3>2. t = [n EXCEPT !.span = @ + 1]
      BY <1>0, <1>2 DEF Target
    <3> HIDE DEF n
    <3> QED BY <3>1, <3>2 DEF Screen
  <2>3. /\ s.row + 1 < FB_SHELL_ROWS =>
             n.row = s.row + 1 /\ \A r \in 0 .. s.row : n.lines[r] = s.lines[r]
        /\ ~(s.row + 1 < FB_SHELL_ROWS) =>
             n.row = s.row /\ \A r \in 0 .. s.row - 1 : n.lines[r] = s.lines[r + 1]
    BY NewlineFacts
  <2> HIDE DEF t, n
  <2>4. (s.span + 1) * FB_SHELL_COLS + 0 = Len(line) + 1
    <3>1. (s.span + 1) * FB_SHELL_COLS = s.span * FB_SHELL_COLS + FB_SHELL_COLS
      BY <1>0
    <3>2. s.span * FB_SHELL_COLS + FB_SHELL_COLS = Len(line) + 1
      BY <2>1 DEF Behind
    <3> QED BY <1>0, <3>1, <3>2
  <2>5. Behind(t, line)
    BY <2>1, <2>4 DEF Behind, Fresh
  <2>6. ASSUME t.span <= t.row, NEW r \in 0 .. t.span, NEW i \in 0 .. FB_SHELL_COLS - 1
        PROVE  t.lines[t.row - t.span + r][i] = CharAt(line, r * FB_SHELL_COLS + i)
    <3>1. CASE r = t.span
      <4>1. t.row - t.span + r = t.row
        BY <2>1, <2>6, <3>1, RowOnScreen
      <4>2. t.lines[t.row][i] = Nul
        BY <2>1 DEF Fresh, BlankRow
      <4> DEFINE m == r * FB_SHELL_COLS + i
      <4>3. m \in Nat /\ ~(m < Len(line) + 1)
        <5>1. s.span + 1 \in Nat /\ r \in 0 .. s.span + 1 /\ 0 \in 0 .. FB_SHELL_COLS /\ r = s.span + 1
          BY <1>0, <2>1, <3>1
        <5>2. m \in Nat /\ (m < (s.span + 1) * FB_SHELL_COLS + 0 <=> i < 0)
          BY <5>1, CellNumber DEF Numbered
        <5> QED BY <1>0, <2>4, <5>2
      <4> HIDE DEF m
      <4>4. CharAt(line, m) = Nul
        BY <1>0, <4>3 DEF CharAt
      <4> QED BY <4>1, <4>2, <4>4 DEF m
    <3>2. CASE r # t.span
      <4>1. r \in 0 .. s.span
        BY <1>0, <2>1, <3>2
      <4>2. s.span <= s.row /\ t.lines[t.row - t.span + r] = s.lines[s.row - s.span + r]
        <5>1. CASE s.row + 1 < FB_SHELL_ROWS
          <6>1. t.row = s.row + 1 /\ \A q \in 0 .. s.row : t.lines[q] = s.lines[q]
            BY <2>2, <2>3, <5>1
          <6>2. s.span <= s.row /\ t.row - t.span + r = s.row - s.span + r
            BY <1>0, <2>1, <2>6, <4>1, <6>1
          <6>3. s.row - s.span + r \in 0 .. s.row
            BY <1>0, <4>1, <6>2
          <6> QED BY <6>1, <6>2, <6>3
        <5>2. CASE ~(s.row + 1 < FB_SHELL_ROWS)
          <6>1. t.row = s.row /\ \A q \in 0 .. s.row - 1 : t.lines[q] = s.lines[q + 1]
            BY <2>2, <2>3, <5>2
          <6> DEFINE q == t.row - t.span + r
          <6>2. s.span <= s.row /\ q \in 0 .. s.row - 1 /\ q + 1 = s.row - s.span + r
            BY <1>0, <2>1, <2>6, <4>1, <6>1
          <6> HIDE DEF q
          <6>3. t.lines[q] = s.lines[s.row - s.span + r]
            BY <6>1, <6>2
          <6> QED BY <6>2, <6>3 DEF q
        <5> QED BY <5>1, <5>2
      <4> QED BY <4>1, <4>2 DEF Cells
    <3> QED BY <3>1, <3>2
  <2>7. Cells(t, line)
    BY <2>6 DEF Cells
  <2> QED BY <2>5, <2>7 DEF t
<1> QED BY <1>1, <1>2

\* A typed character is echoed where the line says.
LEMMA DrawnInk ==
  ASSUME NEW s \in Screen, NEW line \in Seq(Printable), NEW x \in Printable, Drawn(s, line)
  PROVE  Drawn(fb_shell_putchar(s, x), Append(line, x))
<1> DEFINE t == Target(s)
           u == fb_shell_putchar(s, x)
           new == Append(line, x)
<1>1. t \in Screen /\ t.col < FB_SHELL_COLS /\ t.stuck = s.stuck
  BY TargetFacts
<1>2. /\ u \in Screen /\ u.col = t.col + 1 /\ u.row = t.row /\ u.span = t.span
      /\ u.stuck = t.stuck
      /\ \A r \in 0 .. FB_SHELL_ROWS - 1, i \in 0 .. FB_SHELL_COLS - 1 :
           u.lines[r][i] = IF r = t.row /\ i = t.col THEN x ELSE t.lines[r][i]
  <2>1. x \in Ink
    BY DEF Ink
  <2> QED BY <2>1, PutInk
<1>3. SUFFICES ASSUME ~u.stuck PROVE Behind(u, new) /\ Cells(u, new)
  BY DEF Drawn
<1>4. Behind(t, line) /\ Cells(t, line)
  <2>1. Behind(s, line) /\ Cells(s, line)
    BY <1>1, <1>2, <1>3 DEF Drawn
  <2> QED BY <2>1, TargetDrawn
<1>5. new \in Seq(Printable) /\ Len(new) = Len(line) + 1 /\ Len(line) \in Nat
      /\ new[Len(line) + 1] = x /\ \A k \in 1 .. Len(line) : new[k] = line[k]
  OBVIOUS
<1> HIDE DEF t, u, new
<1>6. /\ FB_SHELL_COLS \in Nat /\ FB_SHELL_COLS > 0 /\ t.span \in Nat
      /\ t.col \in 0 .. FB_SHELL_COLS /\ t.span * FB_SHELL_COLS \in Nat
  BY <1>1, ScreenSize DEF Screen
<1>7. t.span * FB_SHELL_COLS + t.col = Len(line) + 1
  BY <1>4 DEF Behind
<1>8. Behind(u, new)
  <2>1. t.span * FB_SHELL_COLS + (t.col + 1) = Len(line) + 1 + 1
    <3> DEFINE a == t.span * FB_SHELL_COLS
               b == t.col
               d == Len(line)
    <3>1. a \in Nat /\ b \in Nat /\ d \in Nat /\ a + b = d + 1
      BY <1>5, <1>6, <1>7
    <3> HIDE DEF a, b, d
    <3>2. a + (b + 1) = d + 1 + 1
      BY ONLY <3>1
    <3> QED BY <3>2 DEF a, b, d
  <2> QED BY <1>2, <1>5, <2>1 DEF Behind
<1>9. ASSUME u.span <= u.row, NEW r \in 0 .. u.span, NEW i \in 0 .. FB_SHELL_COLS - 1
      PROVE  u.lines[u.row - u.span + r][i] = CharAt(new, r * FB_SHELL_COLS + i)
  <2> DEFINE k == t.row - t.span + r
             m == r * FB_SHELL_COLS + i
  <2>1. t.span <= t.row /\ r \in 0 .. t.span
    BY <1>2, <1>9
  <2>2. k \in 0 .. FB_SHELL_ROWS - 1 /\ (k = t.row <=> r = t.span)
    BY <1>1, <2>1, RowOnScreen
  <2>3. u.lines[k][i] = IF k = t.row /\ i = t.col THEN x ELSE t.lines[k][i]
    <3> HIDE DEF k
    <3> QED BY <1>2, <2>2
  <2>4. t.lines[k][i] = CharAt(line, m)
    BY <1>4, <2>1 DEF Cells
  <2>5. m \in Nat /\ (m = Len(line) + 1 <=> r = t.span /\ i = t.col)
    <3>1. /\ m \in Nat /\ (r < t.span => m < Len(line) + 1)
          /\ r = t.span => (m = Len(line) + 1 <=> i = t.col)
      <4> DEFINE p == t.span * FB_SHELL_COLS + t.col
      <4>1. m \in Nat /\ (r < t.span => m < p) /\ (r = t.span => (m = p <=> i = t.col))
        <5>1. Numbered(r, i, t.span, t.col)
          BY <1>6, <2>1, CellNumber, Zenon
        <5> QED BY <5>1 DEF Numbered
      <4> HIDE DEF m
      <4> QED BY <1>7, <4>1
    <3> HIDE DEF m
    <3> QED BY <1>5, <1>6, <2>1, <3>1
  <2> HIDE DEF m, k
  <2>6. CharAt(new, m) = IF m = Len(line) + 1 THEN x ELSE CharAt(line, m)
    BY <1>5, <2>5 DEF CharAt
  <2>7. u.lines[k][i] = CharAt(new, m)
    BY <2>2, <2>3, <2>4, <2>5, <2>6
  <2> QED BY <1>2, <2>7 DEF k, m
<1>10. Cells(u, new)
  BY <1>9 DEF Cells
<1> QED BY <1>8, <1>10 DEF u, new

\* A backspace takes the last character off the screen and off the line, or is stuck at
\* the left edge.
LEMMA DrawnBack ==
  ASSUME NEW s \in Screen, NEW line \in Seq(Printable), line # <<>>, Drawn(s, line)
  PROVE  fb_shell_putchar(s, "bs") \in Screen /\ Drawn(fb_shell_putchar(s, "bs"), Front(line))
<1> DEFINE u == fb_shell_putchar(s, "bs")
           new == Front(line)
<1>0. /\ FB_SHELL_COLS \in Nat /\ FB_SHELL_COLS > 0 /\ FB_SHELL_ROWS \in Nat /\ s.span \in Nat
      /\ s.row \in 0 .. FB_SHELL_ROWS - 1 /\ s.col \in 0 .. FB_SHELL_COLS
      /\ s.lines \in [0 .. FB_SHELL_ROWS - 1 -> Row] /\ s.span * FB_SHELL_COLS \in Nat
  BY ScreenSize DEF Screen
<1>1. CASE s.col = 0
  <2>1. u = [s EXCEPT !.stuck = TRUE]
    BY <1>1 DEF fb_shell_putchar
  <2>2. u \in Screen /\ u.stuck
    BY <2>1 DEF Screen
  <2> QED BY <2>2 DEF Drawn
<1>2. CASE s.col # 0
  <2>1. s.col - 1 \in 0 .. FB_SHELL_COLS - 1 /\ s.col - 1 \in 0 .. FB_SHELL_COLS /\ s.col > 0
    BY <1>0, <1>2
  <2>2. u = [s EXCEPT !.col = @ - 1, !.lines[s.row][s.col - 1] = Nul]
    BY <2>1 DEF fb_shell_putchar
  <2> DEFINE l == [s.lines EXCEPT ![s.row] = [s.lines[s.row] EXCEPT ![s.col - 1] = Nul]]
  <2>3. u = [s EXCEPT !.col = s.col - 1, !.lines = l]
    BY <2>2 DEF Screen
  <2>4. s.lines[s.row] \in Row
    BY <1>0
  <2>5. [s.lines[s.row] EXCEPT ![s.col - 1] = Nul] \in Row
    BY <2>1, <2>4 DEF Row
  <2>6. l \in [0 .. FB_SHELL_ROWS - 1 -> Row]
    BY <1>0, <2>5
  <2>7. ASSUME NEW r \in 0 .. FB_SHELL_ROWS - 1, NEW i \in 0 .. FB_SHELL_COLS - 1
        PROVE  l[r][i] = IF r = s.row /\ i = s.col - 1 THEN Nul ELSE s.lines[r][i]
    BY <1>0, <2>4 DEF Row
  <2> HIDE DEF l
  <2>8. u \in Screen /\ u.lines = l /\ u.col = s.col - 1 /\ u.row = s.row /\ u.span = s.span
        /\ u.stuck = s.stuck
    BY <2>1, <2>3, <2>6 DEF Screen
  <2>9. new \in Seq(Printable) /\ Len(new) \in Nat /\ Len(line) = Len(new) + 1
        /\ \A k \in 1 .. Len(new) : new[k] = line[k]
    <3> DEFINE q == Len(line) - 1
    <3>1. q \in Nat /\ Len(line) = q + 1 /\ 1 .. q \subseteq 1 .. Len(line)
      BY EmptySeq
    <3>2. new = SubSeq(line, 1, q)
      BY DEF Front
    <3>3. new = [k \in 1 .. q |-> line[k]]
      BY <3>1, <3>2
    <3>4. \A k \in 1 .. q : line[k] \in Printable
      BY <3>1
    <3> HIDE DEF q, new
    <3>5. new \in [1 .. q -> Printable]
      BY <3>3, <3>4
    <3>6. new \in Seq(Printable) /\ Len(new) = q
      BY <3>1, <3>3, <3>5
    <3> QED BY <3>1, <3>3, <3>6
  <2> HIDE DEF u, new
  <2>10. SUFFICES ASSUME ~u.stuck PROVE Behind(u, new) /\ Cells(u, new)
    BY <2>8 DEF Drawn, u, new
  <2>11. Behind(s, line) /\ Cells(s, line)
    BY <2>8, <2>10 DEF Drawn
  <2>12. s.span * FB_SHELL_COLS + s.col = Len(line) + 1
    BY <2>11 DEF Behind
  <2>13. s.span * FB_SHELL_COLS + (s.col - 1) = Len(new) + 1
    <3> DEFINE a == s.span * FB_SHELL_COLS
               b == s.col
               d == Len(new)
    <3>1. a \in Nat /\ b \in Nat /\ d \in Nat /\ a + b = (d + 1) + 1
      BY <1>0, <2>9, <2>12
    <3> HIDE DEF a, b, d
    <3>2. a + (b - 1) = d + 1
      BY ONLY <3>1
    <3> QED BY <3>2 DEF a, b, d
  <2>14. Behind(u, new)
    BY <2>8, <2>13 DEF Behind
  <2>15. ASSUME u.span <= u.row, NEW r \in 0 .. u.span, NEW i \in 0 .. FB_SHELL_COLS - 1
         PROVE  u.lines[u.row - u.span + r][i] = CharAt(new, r * FB_SHELL_COLS + i)
    <3> DEFINE k == s.row - s.span + r
               m == r * FB_SHELL_COLS + i
    <3>1. s.span <= s.row /\ r \in 0 .. s.span
      BY <2>8, <2>15
    <3>2. k \in 0 .. FB_SHELL_ROWS - 1 /\ (k = s.row <=> r = s.span)
      BY <3>1, RowOnScreen
    <3>3. l[k][i] = IF k = s.row /\ i = s.col - 1 THEN Nul ELSE s.lines[k][i]
      <4> HIDE DEF k
      <4> QED BY <2>7, <3>2
    <3>4. s.lines[k][i] = CharAt(line, m)
      BY <2>11, <3>1 DEF Cells
    <3>5. m \in Nat /\ (m = Len(new) + 1 <=> r = s.span /\ i = s.col - 1)
      <4>1. /\ m \in Nat /\ (r < s.span => m < Len(new) + 1)
            /\ r = s.span => (m = Len(new) + 1 <=> i = s.col - 1)
        <5> DEFINE b == s.col - 1
                   p == s.span * FB_SHELL_COLS + b
        <5>1. m \in Nat /\ (r < s.span => m < p) /\ (r = s.span => (m = p <=> i = b))
          <6>1. Numbered(r, i, s.span, b)
            BY <1>0, <2>1, <3>1, CellNumber, Zenon
          <6> QED BY <6>1 DEF Numbered
        <5> HIDE DEF m
        <5> QED BY <2>13, <5>1
      <4> HIDE DEF m
      <4> QED BY <1>0, <2>9, <3>1, <4>1
    <3> HIDE DEF m, k
    <3>6. CharAt(new, m) = IF m = Len(new) + 1 THEN Nul ELSE CharAt(line, m)
      BY <2>9, <3>5 DEF CharAt
    <3>7. u.lines[k][i] = CharAt(new, m)
      BY <2>8, <3>2, <3>3, <3>4, <3>5, <3>6
    <3> QED BY <2>8, <3>7 DEF k, m
  <2>16. Cells(u, new)
    BY <2>15 DEF Cells
  <2> QED BY <2>14, <2>16
<1> QED BY <1>1, <1>2

\* The prompt on a fresh row is the start of an empty line.
LEMMA PromptDrawn ==
  ASSUME NEW s \in Screen, Fresh(s)
  PROVE  Prompted(s) \in Screen /\ Drawn(Prompted(s), <<>>)
<1> DEFINE u == fb_shell_putchar(s, "#")
           v == Prompted(s)
<1>0. FB_SHELL_COLS \in Nat /\ FB_SHELL_COLS > 0 /\ FB_SHELL_ROWS \in Nat
      /\ s.row \in 0 .. FB_SHELL_ROWS - 1
  BY ScreenSize DEF Screen
<1>1. Target(s) = s /\ s.col = 0
  BY <1>0, TargetFacts DEF Fresh
<1>2. /\ u \in Screen /\ u.col = 1 /\ u.row = s.row
      /\ \A i \in 0 .. FB_SHELL_COLS - 1 : u.lines[s.row][i] = IF i = 0 THEN "#" ELSE Nul
  <2>1. "#" \in Ink
    BY DEF Ink
  <2>2. /\ u \in Screen /\ u.col = s.col + 1 /\ u.row = s.row
        /\ \A r \in 0 .. FB_SHELL_ROWS - 1, i \in 0 .. FB_SHELL_COLS - 1 :
             u.lines[r][i] = IF r = s.row /\ i = s.col THEN "#" ELSE s.lines[r][i]
    BY <1>1, <2>1, PutInk
  <2>3. \A i \in 0 .. FB_SHELL_COLS - 1 : s.lines[s.row][i] = Nul
    BY DEF Fresh, BlankRow
  <2> HIDE DEF u
  <2> QED BY <1>0, <1>1, <2>2, <2>3
<1>3. v = [u EXCEPT !.span = 0, !.stuck = FALSE]
  BY PutsOne DEF Prompted, Prompt
<1> HIDE DEF u, v
<1>4. v \in Screen /\ v.lines = u.lines /\ v.row = s.row /\ v.col = 1 /\ v.span = 0
  BY <1>2, <1>3 DEF Screen
<1>5. Len(<<>>) = 0 /\ 0 * FB_SHELL_COLS = 0
  BY <1>0
<1>6. Behind(v, <<>>)
  BY <1>4, <1>5 DEF Behind
<1>7. Cells(v, <<>>)
  <2>1. \A r \in 0 .. v.span : r = 0 /\ v.row - v.span + r = s.row
    BY <1>0, <1>4
  <2>2. ASSUME NEW r \in 0 .. v.span, NEW i \in 0 .. FB_SHELL_COLS - 1
        PROVE  v.lines[v.row - v.span + r][i] = CharAt(<<>>, r * FB_SHELL_COLS + i)
    <3>1. r * FB_SHELL_COLS + i = i
      BY <1>0, <1>5, <2>1
    <3>2. CharAt(<<>>, i) = IF i = 0 THEN "#" ELSE Nul
      BY <1>5 DEF CharAt
    <3> QED BY <1>2, <1>4, <2>1, <3>1, <3>2
  <2> QED BY <2>2 DEF Cells
<1> QED BY <1>4, <1>6, <1>7 DEF Drawn, v

\* The text of prompt and line, character by character.
LEMMA TextAt ==
  ASSUME NEW line \in Seq(Printable), NEW n \in Nat
  PROVE  (IF n < Len(Prompt \o line) THEN (Prompt \o line)[n + 1] ELSE Nul) = CharAt(line, n)
<1> DEFINE S == Printable \cup {"#"}
           text == Prompt \o line
<1>1. Prompt \in Seq(S) /\ Len(Prompt) = 1 /\ Prompt[1] = "#"
  BY DEF Prompt
<1>2. line \in Seq(S) /\ Len(line) \in Nat
  <2>1. line \in [1 .. Len(line) -> Printable] /\ Len(line) \in Nat
    OBVIOUS
  <2>2. line \in [1 .. Len(line) -> S]
    BY <2>1
  <2> QED BY <2>1, <2>2
<1> HIDE DEF S
<1>3. /\ text \in Seq(S) /\ Len(text) = Len(Prompt) + Len(line)
      /\ \A i \in 1 .. Len(Prompt) + Len(line) :
           text[i] = IF i <= Len(Prompt) THEN Prompt[i] ELSE line[i - Len(Prompt)]
  BY <1>1, <1>2, ConcatProperties, Zenon
<1> HIDE DEF text
<1>4. Len(text) = Len(line) + 1
      /\ \A i \in 1 .. Len(line) + 1 : text[i] = IF i = 1 THEN "#" ELSE line[i - 1]
  BY <1>1, <1>2, <1>3
<1>5. n < Len(text) => text[n + 1] = IF n = 0 THEN "#" ELSE line[n]
  BY <1>2, <1>4
<1>6. (n < Len(text) <=> n <= Len(line)) /\ (n = 0 => n < Len(text))
  BY <1>2, <1>4
<1>7. (IF n < Len(text) THEN text[n + 1] ELSE Nul) = CharAt(line, n)
  BY <1>5, <1>6 DEF CharAt
<1> QED BY <1>7 DEF text

\* The invariant says what ConsoleInv does.
LEMMA ConsoleIInvImplies == RingIInv /\ EditIInv => ConsoleInv
<1> SUFFICES ASSUME RingIInv, EditIInv PROVE ConsoleTypeOK /\ LineShown
  BY DEF ConsoleInv
<1>0. LINE_MAX \in Nat /\ FB_SHELL_COLS \in Nat
  BY ScreenSize
<1>1. line_buf \in BoundedSeq(Printable, LINE_MAX)
  <2> DEFINE m == Len(line_buf)
  <2>1. m \in 0 .. LINE_MAX /\ line_buf \in [1 .. m -> Printable]
    BY <1>0 DEF EditIInv
  <2> HIDE DEF m
  <2> QED BY <2>1 DEF BoundedSeq, SeqOf
<1>2. ConsoleTypeOK
  BY <1>1 DEF RingIInv, EditIInv, ConsoleTypeOK, Screen
<1>3. LineShown
  <2> SUFFICES ASSUME shell_pc \in {"check", "read", "advance"}, scr.span <= scr.row, ~scr.stuck,
                      NEW r \in 0 .. scr.span, NEW i \in 0 .. FB_SHELL_COLS - 1
               PROVE  scr.lines[scr.row - scr.span + r][i] = Expected(r * FB_SHELL_COLS + i)
    BY DEF LineShown
  <2>1. Cells(scr, line_buf)
    BY DEF EditIInv, Drawn
  <2> DEFINE n == r * FB_SHELL_COLS + i
  <2>2. n \in Nat
    BY <1>0 DEF EditIInv, Screen
  <2>3. scr.lines[scr.row - scr.span + r][i] = CharAt(line_buf, n)
    BY <2>1 DEF Cells
  <2> HIDE DEF n
  <2>4. Expected(n) = CharAt(line_buf, n)
    BY <2>2, TextAt DEF EditIInv, Expected
  <2> QED BY <2>3, <2>4 DEF n
<1> QED BY <1>2, <1>3

\* The cleared screen with a prompt.
LEMMA EditInitOK == ConsoleInit => EditIInv
<1> SUFFICES ASSUME ConsoleInit PROVE EditIInv
  OBVIOUS
<1>0. FB_SHELL_ROWS \in Nat /\ FB_SHELL_ROWS > 0 /\ FB_SHELL_COLS \in Nat /\ LINE_MAX \in Nat
  BY ScreenSize
<1>1. BlankRow \in Row
  BY DEF BlankRow, Row
<1>2. fb_shell_init \in Screen /\ Fresh(fb_shell_init)
  BY <1>0, <1>1 DEF fb_shell_init, Screen, Fresh
<1>3. scr \in Screen /\ Drawn(scr, <<>>)
  BY <1>2, PromptDrawn DEF ConsoleInit
<1>4. line_buf = <<>> /\ line_buf \in Seq(Printable) /\ Len(line_buf) <= LINE_MAX
  <2>1. Len(<<>>) = 0 /\ <<>> \in Seq(Printable)
    OBVIOUS
  <2> QED BY <1>0, <2>1 DEF ConsoleInit
<1> QED BY <1>3, <1>4 DEF ConsoleInit, EditIInv

\* The interrupt handler leaves line and screen alone.
LEMMA EditCallbackOK ==
  ASSUME EditIInv, NEW sc \in Scancodes, keyboard_callback(sc) PROVE EditIInv'
<1>1. shift_pressed' \in BOOLEAN
  BY DEF keyboard_callback, EditIInv
<1>2. UNCHANGED <<shell_pc, tmp, c, line_buf, scr, halted>>
  BY DEF keyboard_callback
<1> QED BY <1>1, <1>2 DEF EditIInv

\* keyboard_get_char leaves them alone too.
LEMMA EditGetOK ==
  ASSUME RingIInv, EditIInv, GetEmpty \/ GetCheck \/ GetRead \/ GetAdvance PROVE EditIInv'
<1>1. UNCHANGED <<shift_pressed, line_buf, scr, halted>> /\ ~halted
      /\ shell_pc' \in {"check", "read", "advance", "handle"}
  BY DEF GetEmpty, GetCheck, GetRead, GetAdvance, EditIInv
<1>2. tmp' \in Chars \cup {Nul} /\ c' \in Chars \cup {Nul}
  BY DEF GetEmpty, GetCheck, GetRead, GetAdvance, EditIInv, RingIInv
<1> QED BY <1>1, <1>2 DEF EditIInv

\* Enter: whatever the command printed, the prompt comes on a fresh row.
LEMMA EditEnterOK == ASSUME EditIInv, ~halted, ShellEnter PROVE EditIInv'
<1> DEFINE s == fb_shell_putchar(scr, "nl")
           w == fb_shell_putchar(fb_shell_putchar(s, "a"), "nl")
           printed == IF line_buf = <<>> THEN s ELSE fb_shell_puts(s, <<"a", "nl">>)
<1>1. ASSUME NEW x \in Screen
      PROVE  fb_shell_putchar(x, "nl") \in Screen /\ Fresh(fb_shell_putchar(x, "nl"))
  <2>1. fb_shell_putchar(x, "nl") = fb_shell_newline(x)
    BY DEF fb_shell_putchar
  <2> QED BY <2>1, NewlineFacts
<1>2. scr \in Screen /\ "a" \in Ink
  BY DEF EditIInv, Ink, Printable
<1>3. s \in Screen /\ Fresh(s)
  BY <1>1, <1>2
<1> HIDE DEF s
<1>4. fb_shell_putchar(s, "a") \in Screen
  BY <1>2, <1>3, PutInk
<1>5. w \in Screen /\ Fresh(w)
  BY <1>1, <1>4
<1>6. printed \in Screen /\ Fresh(printed)
  BY <1>3, <1>5, PutsTwo
<1>7. c = "nl" /\ UNCHANGED <<shift_pressed, tmp, c>>
  BY DEF ShellEnter
<1>8. \/ halted' = TRUE /\ scr' = printed /\ UNCHANGED <<shell_pc, line_buf>> /\ shell_pc = "handle"
      \/ scr' = Prompted(printed) /\ line_buf' = <<>> /\ shell_pc' = "check" /\ UNCHANGED halted
  BY DEF ShellEnter, s
<1> HIDE DEF printed
<1>9. CASE halted' = TRUE /\ scr' = printed /\ UNCHANGED <<shell_pc, line_buf>> /\ shell_pc = "handle"
  BY <1>6, <1>7, <1>9 DEF EditIInv
<1>10. CASE scr' = Prompted(printed) /\ line_buf' = <<>> /\ shell_pc' = "check" /\ UNCHANGED halted
  <2>1. scr' \in Screen /\ Drawn(scr', <<>>)
    BY <1>6, <1>10, PromptDrawn
  <2>2. <<>> \in Seq(Printable) /\ Len(<<>>) <= LINE_MAX
    BY ScreenSize
  <2> QED BY <1>7, <1>10, <2>1, <2>2 DEF EditIInv
<1> QED BY <1>8, <1>9, <1>10

\* Backspace.
LEMMA EditBackOK == ASSUME EditIInv, ShellBackspace PROVE EditIInv'
<1>0. UNCHANGED <<shift_pressed, tmp, c, halted>> /\ shell_pc' = "check" /\ ~halted
  BY DEF ShellBackspace, EditIInv
<1>1. line_buf \in Seq(Printable) /\ Len(line_buf) <= LINE_MAX /\ scr \in Screen
      /\ Drawn(scr, line_buf)
  BY <1>0 DEF EditIInv
<1>2. CASE line_buf # <<>>
  <2>1. line_buf' = Front(line_buf) /\ scr' = fb_shell_putchar(scr, "bs")
    BY <1>2 DEF ShellBackspace
  <2>2. scr' \in Screen /\ Drawn(scr', line_buf')
    BY <1>1, <1>2, <2>1, DrawnBack
  <2>3. line_buf' \in Seq(Printable) /\ Len(line_buf') <= LINE_MAX
    <3>1. Front(line_buf) \in Seq(Printable) /\ Len(Front(line_buf)) <= Len(line_buf)
      <4>1. Len(line_buf) \in Nat /\ Len(line_buf) # 0
        BY <1>1, <1>2, EmptySeq
      <4> QED BY <1>1, <4>1 DEF Front
    <3> QED BY <1>1, <2>1, <3>1, ScreenSize
  <2> QED BY <1>0, <2>2, <2>3 DEF EditIInv
<1>3. CASE line_buf = <<>>
  <2>1. UNCHANGED <<line_buf, scr>>
    BY <1>3 DEF ShellBackspace
  <2> QED BY <1>0, <2>1 DEF EditIInv
<1> QED BY <1>2, <1>3

\* A printable character.
LEMMA EditCharOK == ASSUME EditIInv, ShellChar PROVE EditIInv'
<1>0. UNCHANGED <<shift_pressed, tmp, c, halted>> /\ shell_pc' = "check" /\ ~halted
      /\ c \in Printable
  BY DEF ShellChar, EditIInv, Printable
<1>1. line_buf \in Seq(Printable) /\ Len(line_buf) <= LINE_MAX /\ scr \in Screen
      /\ Drawn(scr, line_buf)
  BY <1>0 DEF EditIInv
<1>2. CASE Len(line_buf) < LINE_MAX
  <2>1. line_buf' = Append(line_buf, c) /\ scr' = fb_shell_putchar(scr, c)
    BY <1>2 DEF ShellChar
  <2>2. Drawn(scr', line_buf')
    BY <1>0, <1>1, <2>1, DrawnInk
  <2>3. scr' \in Screen
    <3>1. c \in Ink
      BY <1>0 DEF Ink
    <3> QED BY <1>1, <2>1, <3>1, PutInk
  <2>4. line_buf' \in Seq(Printable) /\ Len(line_buf') <= LINE_MAX
    BY <1>0, <1>1, <1>2, <2>1, ScreenSize
  <2> QED BY <1>0, <2>2, <2>3, <2>4 DEF EditIInv
<1>3. CASE ~(Len(line_buf) < LINE_MAX)
  <2>1. UNCHANGED <<line_buf, scr>>
    BY <1>3 DEF ShellChar
  <2> QED BY <1>0, <2>1 DEF EditIInv
<1> QED BY <1>2, <1>3

\* Line editor and screen agree between any two steps of the shell, for lines, rings and
\* screens of any size: what the user sees is what Enter will execute.
THEOREM ConsoleSafe == ConsoleSpec => []ConsoleInv
<1>1. RingIInv /\ EditIInv /\ [ConsoleNext]_consoleVars => RingIInv' /\ EditIInv'
  <2> SUFFICES ASSUME RingIInv, EditIInv, [ConsoleNext]_consoleVars PROVE RingIInv' /\ EditIInv'
    OBVIOUS
  <2>1. ASSUME UNCHANGED consoleVars PROVE RingIInv' /\ EditIInv'
    BY <2>1 DEF consoleVars, RingIInv, EditIInv
  <2>2. ASSUME Shell PROVE RingIInv' /\ EditIInv'
    <3>1. RingIInv'
      BY <2>2, ShellOK
    <3>2. EditIInv'
      BY <2>2, EditGetOK, EditEnterOK, EditBackOK, EditCharOK DEF Shell
    <3> QED BY <3>1, <3>2
  <2>3. ASSUME NEW sc \in Scancodes, keyboard_callback(sc) PROVE RingIInv' /\ EditIInv'
    BY <2>3, CallbackOK, EditCallbackOK
  <2> QED BY <2>1, <2>2, <2>3 DEF ConsoleNext
<1>2. ConsoleInit => RingIInv /\ EditIInv
  BY RingInitOK, EditInitOK
<1> QED BY <1>1, <1>2, ConsoleIInvImplies, PTL DEF ConsoleSpec
=============================================================================
