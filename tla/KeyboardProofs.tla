--------------------------- MODULE KeyboardProofs ---------------------------
(***************************************************************************)
(* Proofs about interrupts and the keyboard, for all sets of lines, of     *)
(* keys and of strokes, and for both kinds of controller: nothing is left  *)
(* in service, and what is shown is what was meant so far.                 *)
(*                                                                         *)
(* The second rests on what the bytes under way will come to: a handler    *)
(* that reads them, from the modifiers it has noted, ends with the         *)
(* modifiers the user holds and with everything shown that was meant.      *)
(***************************************************************************)
EXTENDS Keyboard, SequenceTheorems, TLAPS

----------------------------------------------------------------------------
(* Interrupts                                                              *)

\* The CPU takes interrupts only outside irq_handler, and not before sti.
MaskedInside ==
  /\ interrupts => step = "none"
  /\ boot \in {"pic", "pit", "keyboard", "sti"} => ~interrupts /\ step = "none"

\* What acknowledging line i puts in service.
Acknowledged(i) == {i} \cup (IF i >= 8 THEN {Cascade} ELSE {})

\* In service is the interrupt the handler has not ended yet, and nothing else.
ServiceSound ==
  /\ step \in {"handler", "second", "eoi"} => in_service = Acknowledged(irq)
  /\ step \in {"none", "task", "reschedule"} => in_service = {}

InterruptsInv == InterruptsTypeOK /\ MaskedInside /\ ServiceSound

USE DEF TimerLine, KeyboardLine, Lines, Cascade

LEMMA InterruptsStart == InterruptsInit => InterruptsInv
BY InterruptsAssumption
DEF InterruptsInit, InterruptsInv, InterruptsTypeOK, MaskedInside, ServiceSound

\* The steps of a handler before the end of its interrupt, and all others.
Open == {"handler", "second", "eoi"}

Closed == {"none", "task", "reschedule"}

\* A step that leaves what is in service alone and does not end the interrupt.
LEMMA ServiceKept ==
  ASSUME ServiceSound, in_service' = in_service, irq' = irq,
         \/ step \in Open /\ step' \in Open
         \/ step \in Closed /\ step' \in Closed
  PROVE  ServiceSound'
BY DEF ServiceSound, Acknowledged, Open, Closed

LEMMA KnownSteps == InterruptsTypeOK => step \in Open \cup Closed
BY DEF InterruptsTypeOK, Open, Closed

\* Devices change what is requested, kmain and the handler little else.
LEMMA KmainServes ==
  ASSUME InterruptsInv, Kmain
  PROVE  InterruptsInv'
<1>1. CASE PicInit
  BY <1>1, InterruptsAssumption
  DEF PicInit, InterruptsInv, InterruptsTypeOK, MaskedInside, ServiceSound
<1>2. CASE PitInit \/ KeyboardInit
  <2>1. InterruptsTypeOK'
    BY <1>2 DEF PitInit, KeyboardInit, IrqRegister, picVars, InterruptsInv, InterruptsTypeOK
  <2>3. MaskedInside'
    BY <1>2 DEF PitInit, KeyboardInit, IrqRegister, InterruptsInv, MaskedInside
  <2>2. ServiceSound'
    BY <1>2, ServiceKept, KnownSteps
    DEF PitInit, KeyboardInit, IrqRegister, picVars, InterruptsInv
  <2> QED BY <2>1, <2>2, <2>3 DEF InterruptsInv
<1>3. CASE Sti
  <2>1. InterruptsTypeOK' /\ MaskedInside'
    BY <1>3 DEF Sti, picVars, InterruptsInv, InterruptsTypeOK, MaskedInside
  <2>2. ServiceSound'
    BY <1>3, ServiceKept, KnownSteps DEF Sti, picVars, InterruptsInv
  <2> QED BY <2>1, <2>2 DEF InterruptsInv
<1>4. CASE MaskLine11
  <2>1. imr' = imr
    BY <1>4 DEF MaskLine11, PicSetMask
  <2>2. InterruptsTypeOK' /\ MaskedInside'
    BY <1>4, <2>1 DEF MaskLine11, InterruptsInv, InterruptsTypeOK, MaskedInside
  <2>3. ServiceSound'
    BY <1>4, ServiceKept, KnownSteps DEF MaskLine11, InterruptsInv
  <2> QED BY <2>2, <2>3 DEF InterruptsInv
<1> QED BY <1>1, <1>2, <1>3, <1>4 DEF Kmain

\* pic_send_eoi ends all that the interrupt has put in service.
LEMMA AllEnded ==
  ASSUME NEW i \in Lines, in_service = Acknowledged(i)
  PROVE  in_service \subseteq Ended(i)
<1>1. CASE i >= 8
  <2>1. {j \in in_service : j < 8} = {Cascade} /\ {j \in in_service : j >= 8} = {i}
    BY <1>1, InterruptsAssumption DEF Acknowledged
  <2> QED BY <1>1, <2>1, InterruptsAssumption DEF Ended, Urgent, Rank, Acknowledged
<1>2. CASE ~(i >= 8)
  <2>1. {j \in in_service : j < 8} = {i}
    BY <1>2, InterruptsAssumption DEF Acknowledged
  <2> QED BY <1>2, <2>1, InterruptsAssumption DEF Ended, Urgent, Rank, Acknowledged
<1> QED BY <1>1, <1>2

LEMMA DispatchServes ==
  ASSUME InterruptsInv, Dispatch
  PROVE  InterruptsInv'
<1>1. CASE PitIrq \/ NoHandler
  <2>1. InterruptsTypeOK'
    BY <1>1 DEF PitIrq, NoHandler, PicSetMask, picVars, InterruptsInv, InterruptsTypeOK
  <2>3. MaskedInside'
    BY <1>1 DEF PitIrq, NoHandler, InterruptsInv, MaskedInside
  <2>2. ServiceSound'
    BY <1>1, ServiceKept DEF PitIrq, NoHandler, picVars, InterruptsInv, Open
  <2> QED BY <2>1, <2>2, <2>3 DEF InterruptsInv
<1>2. CASE PicSendEoi
  <2>1. in_service' = {}
    BY <1>2, AllEnded DEF PicSendEoi, InterruptsInv, InterruptsTypeOK, ServiceSound
  <2> QED
    BY <1>2, <2>1, InterruptsAssumption
    DEF PicSendEoi, InterruptsInv, InterruptsTypeOK, MaskedInside, ServiceSound, Acknowledged
<1>3. CASE Reschedule
  <2>1. InterruptsTypeOK'
    BY <1>3 DEF Reschedule, picVars, InterruptsInv, InterruptsTypeOK
  <2>3. MaskedInside'
    BY <1>3 DEF Reschedule, InterruptsInv, MaskedInside
  <2>2. ServiceSound'
    BY <1>3, ServiceKept DEF Reschedule, picVars, InterruptsInv, Closed
  <2> QED BY <2>1, <2>2, <2>3 DEF InterruptsInv
<1> QED BY <1>1, <1>2, <1>3 DEF Dispatch

LEMMA InterruptServes ==
  ASSUME InterruptsInv, NEW i \in Lines, Interrupt(i)
  PROVE  InterruptsInv'
<1>1. in_service' = Acknowledged(i) /\ irq' = i /\ step' = "handler"
  BY DEF Interrupt, Acknowledged, InterruptsInv, MaskedInside, ServiceSound
<1>2. in_service' \subseteq Lines \cup {Cascade}
  BY <1>1 DEF Acknowledged
<1>3. Acknowledged(irq)' = Acknowledged(i)
  BY <1>1 DEF Acknowledged
<1> QED
  BY <1>1, <1>2, <1>3
  DEF Interrupt, InterruptsInv, InterruptsTypeOK, MaskedInside, ServiceSound

LEMMA DevicesServe ==
  ASSUME InterruptsInv,
         \/ \E i \in {TimerLine} \cup (Unhandled \ Level) : Pulse(i)
         \/ \E i \in Level : PciLine(i)
  PROVE  InterruptsInv'
<1>1. UNCHANGED <<cpuVars, imr, in_service>>
  BY DEF Pulse, PciLine
<1>2. line' \subseteq Lines /\ irr' \subseteq Lines
  <2>1. line \subseteq Lines /\ irr \subseteq Lines BY DEF InterruptsInv, InterruptsTypeOK
  <2> QED BY <2>1, InterruptsAssumption DEF Pulse, PciLine, Raise, Drop
<1>3. InterruptsTypeOK' /\ MaskedInside'
  BY <1>1, <1>2 DEF cpuVars, InterruptsInv, InterruptsTypeOK, MaskedInside
<1>4. ServiceSound'
  BY <1>1, ServiceKept, KnownSteps DEF cpuVars, InterruptsInv
<1> QED BY <1>3, <1>4 DEF InterruptsInv

LEMMA InterruptsStep ==
  ASSUME InterruptsInv, InterruptsNext
  PROVE  InterruptsInv'
BY KmainServes, DispatchServes, InterruptServes, DevicesServe DEF InterruptsNext

\* What the keyboard adds: the handler's reads and the controller's edges.
LEMMA KeyboardServes ==
  ASSUME InterruptsInv, Handle \/ Send
  PROVE  InterruptsInv'
<1>1. CASE KeyboardIrq
  BY <1>1, InterruptsAssumption
  DEF KeyboardIrq, Ps2Read, Drop, InterruptsInv, InterruptsTypeOK, MaskedInside, ServiceSound,
      Acknowledged
<1>2. CASE SecondByte
  BY <1>2, InterruptsAssumption
  DEF SecondByte, Ps2Read, Drop, InterruptsInv, InterruptsTypeOK, MaskedInside, ServiceSound,
      Acknowledged
<1>3. CASE Send
  BY <1>3, InterruptsAssumption
  DEF Send, Raise, cpuVars, InterruptsInv, InterruptsTypeOK, MaskedInside, ServiceSound,
      Acknowledged
<1> QED BY <1>1, <1>2, <1>3 DEF Handle

LEMMA InterruptsKept ==
  ASSUME InterruptsInv, [Next]_vars
  PROVE  InterruptsInv'
<1>1. CASE UNCHANGED interruptVars
  BY <1>1
  DEF interruptVars, cpuVars, picVars, InterruptsInv, InterruptsTypeOK, MaskedInside,
      ServiceSound, Acknowledged
<1>2. CASE \E k \in Keys : Press(k) \/ Release(k)
  BY <1>1, <1>2 DEF Press, Release, Stroke
<1> QED
  BY <1>1, <1>2, InterruptsStep, KeyboardServes DEF Next, vars

THEOREM ServiceInvariance == Spec => []InterruptsInv
<1>1. Init => InterruptsInv BY InterruptsStart DEF Init
<1> QED BY <1>1, InterruptsKept, PTL DEF Spec

\* Whatever other code runs, nothing is in service: no interrupt waits for the end
\* of one whose handler has gone on to other tasks (irq.c:28).
THEOREM ServiceIsOver == Spec => []NoneLeftInService
<1>1. InterruptsInv => NoneLeftInService
  BY DEF InterruptsInv, ServiceSound, NoneLeftInService
<1> QED BY <1>1, ServiceInvariance, PTL
----------------------------------------------------------------------------
(* Reading bytes                                                           *)

Byte == 1..255

\* What a key may show.
Output == {"a", "A", "7", "-", "back", "/", "_", "{", "^A", " ", "cursor up"}

\* What the handler keeps from byte to byte; ext says that it has read the first
\* of an extended code.
Input == [ext : BOOLEAN, mod : SUBSET Modifiers, lock : BOOLEAN, shown : Seq(Output)]

KeyOf(b, ext) == IF ext THEN Set1Extended[b % 128] ELSE Set1[b % 128]

Keeps(mods, k, pressed) == IF pressed THEN mods \cup ({k} \cap Modifiers) ELSE mods \ {k}

Locks(lock, k, pressed) == lock # (pressed /\ k = "CAPSLOCK")

\* The input after key k is pressed or released.
Struck(s, k, pressed) ==
  [ext   |-> FALSE,
   mod   |-> Keeps(s.mod, k, pressed),
   lock  |-> Locks(s.lock, k, pressed),
   shown |-> IF pressed
             THEN s.shown \o Shows(k, Keeps(s.mod, k, TRUE), Locks(s.lock, k, TRUE))
             ELSE s.shown]

\* The input after the first byte of an extended code.
Started(s) == [ext |-> TRUE, mod |-> s.mod, lock |-> s.lock, shown |-> s.shown]

\* The input after byte b is read.
Read(s, b) ==
  IF ~s.ext /\ b = Extended THEN Started(s)
  ELSE Struck(s, KeyOf(b, s.ext), b < 128)

LEMMA ShowsStrings ==
  ASSUME NEW k, NEW mods, NEW lock
  PROVE  Shows(k, mods, lock) \in Seq(Output)
<1>1. /\ Normal(k) \in Output \cup {""}
      /\ Shifted(k) \in Output \cup {""}
      /\ AltGr(k) \in Output \cup {""}
  BY DEF Normal, Shifted, AltGr, Output
<1> DEFINE c == Getch(k, mods, lock)
<1>2. c \in Output \cup {""}
  BY <1>1 DEF Getch, Output
<1> HIDE DEF c
<1>3. <<"cursor up">> \in Seq(Output) /\ <<"back", " ", "back">> \in Seq(Output)
  BY DEF Output
<1>4. \/ Shows(k, mods, lock) = <<"cursor up">>
      \/ Shows(k, mods, lock) = <<"back", " ", "back">>
      \/ c # "" /\ Shows(k, mods, lock) = <<c>>
      \/ Shows(k, mods, lock) = <<>>
  BY DEF Shows, c
<1>5. ASSUME c # "" PROVE <<c>> \in Seq(Output)
  <2>1. c \in Output BY <1>2, <1>5
  <2> QED BY <2>1
<1>6. <<>> \in Seq(Output)
  OBVIOUS
<1> QED BY <1>3, <1>4, <1>5, <1>6

LEMMA StruckTypes ==
  ASSUME NEW s \in Input, NEW k, NEW pressed \in BOOLEAN
  PROVE  Struck(s, k, pressed) \in Input
<1>1. Keeps(s.mod, k, pressed) \in SUBSET Modifiers
  BY DEF Keeps, Input
<1>2. Locks(s.lock, k, pressed) \in BOOLEAN
  BY DEF Locks
<1> DEFINE more == Shows(k, Keeps(s.mod, k, TRUE), Locks(s.lock, k, TRUE))
<1>3. more \in Seq(Output) /\ s.shown \in Seq(Output)
  BY ShowsStrings DEF Input
<1> HIDE DEF more
<1>4. s.shown \o more \in Seq(Output)
  BY <1>3
<1> QED BY <1>1, <1>2, <1>3, <1>4 DEF Struck, Input, more

LEMMA ReadTypes ==
  ASSUME NEW s \in Input, NEW b \in Byte
  PROVE  Read(s, b) \in Input
<1>1. Started(s) \in Input
  BY DEF Input, Started
<1>2. (b < 128) \in BOOLEAN
  OBVIOUS
<1> QED BY <1>1, <1>2, StruckTypes DEF Read

\* What a byte adds to what is shown.
LEMMA ReadAdds ==
  ASSUME NEW s \in Input, NEW b \in Byte
  PROVE  \E more \in Seq(Output) : Read(s, b).shown = s.shown \o more
<1>1. s.shown \in Seq(Output) /\ <<>> \in Seq(Output) /\ s.shown = s.shown \o <<>>
  BY DEF Input
<1>2. Started(s).shown = s.shown
  BY DEF Started
<1>3. ASSUME NEW k, NEW pressed \in BOOLEAN
      PROVE  \E more \in Seq(Output) : Struck(s, k, pressed).shown = s.shown \o more
  <2> DEFINE m == Shows(k, Keeps(s.mod, k, TRUE), Locks(s.lock, k, TRUE))
  <2>1. m \in Seq(Output) BY ShowsStrings
  <2>2. Struck(s, k, pressed).shown = IF pressed THEN s.shown \o m ELSE s.shown
    BY DEF Struck
  <2> HIDE DEF m
  <2> QED BY <1>1, <2>1, <2>2
<1>4. (b < 128) \in BOOLEAN
  OBVIOUS
<1>5. CASE ~s.ext /\ b = Extended
  BY <1>1, <1>2, <1>5 DEF Read
<1>6. CASE ~(~s.ext /\ b = Extended)
  BY <1>3, <1>4, <1>6 DEF Read
<1> QED BY <1>5, <1>6

\* Prefixes, by what they lack.
LEMMA PrefixAdds ==
  ASSUME NEW s \in Seq(Output), NEW t \in Seq(Output), NEW more \in Seq(Output), IsPrefix(s, t)
  PROVE  IsPrefix(s, t \o more)
BY DEF IsPrefix

LEMMA PrefixSelf ==
  ASSUME NEW s \in Seq(Output)
  PROVE  IsPrefix(s, s)
BY DEF IsPrefix

----------------------------------------------------------------------------
(* Reading all the bytes of a queue                                        *)

\* A run of the handler over the bytes of q: the inputs in between.
IsRun(run, q) ==
  /\ run \in [0..Len(q) -> Input]
  /\ \A i \in 1..Len(q) : run[i] = Read(run[i - 1], q[i])
  /\ \A i \in 0..Len(q) : IsPrefix(run[i].shown, run[Len(q)].shown)

\* The bytes of q make t of the input s.
Reads(s, q, t) == \E run : IsRun(run, q) /\ run[0] = s /\ run[Len(q)] = t

LEMMA ReadsNothing ==
  ASSUME NEW s \in Input
  PROVE  Reads(s, <<>>, s)
<1> DEFINE run == [i \in 0..0 |-> s]
<1>1. IsPrefix(s.shown, s.shown)
  BY PrefixSelf DEF Input
<1>2. IsRun(run, <<>>)
  BY <1>1 DEF IsRun
<1> QED BY <1>2 DEF Reads

LEMMA ReadsHead ==
  ASSUME NEW s, NEW t, NEW q \in Seq(Byte), q # <<>>, Reads(s, q, t)
  PROVE  Reads(Read(s, Head(q)), Tail(q), t)
<1>1. PICK run : IsRun(run, q) /\ run[0] = s /\ run[Len(q)] = t
  BY DEF Reads
<1> DEFINE n == Len(q) - 1
           rest == [i \in 0..n |-> run[i + 1]]
<1>2. n \in Nat /\ Len(Tail(q)) = n /\ Len(q) = n + 1
  OBVIOUS
<1>3. \A i \in 1..n : Tail(q)[i] = q[i + 1]
  OBVIOUS
<1>4. run[1] = Read(s, Head(q))
  BY <1>1, <1>2 DEF IsRun
<1>5. rest \in [0..n -> Input]
  BY <1>1, <1>2 DEF IsRun
<1>6. \A i \in 1..n : rest[i] = Read(rest[i - 1], Tail(q)[i])
  <2> TAKE i \in 1..n
  <2>1. i + 1 \in 1..Len(q) /\ i \in 0..n /\ i - 1 \in 0..n /\ (i + 1) - 1 = i /\ (i - 1) + 1 = i
    BY <1>2
  <2>2. run[i + 1] = Read(run[(i + 1) - 1], q[i + 1])
    BY <1>1, <2>1 DEF IsRun
  <2>3. rest[i] = run[i + 1] /\ rest[i - 1] = run[i]
    BY <2>1
  <2> QED BY <2>1, <2>2, <2>3, <1>3
<1>7. \A i \in 0..n : IsPrefix(rest[i].shown, rest[n].shown)
  BY <1>1, <1>2 DEF IsRun
<1>8. rest[0] = run[1] /\ rest[n] = t
  BY <1>1, <1>2
<1> HIDE DEF rest, n
<1>9. IsRun(rest, Tail(q))
  BY <1>2, <1>5, <1>6, <1>7 DEF IsRun
<1> QED BY <1>9, <1>8, <1>4, <1>2 DEF Reads

LEMMA ReadsOneMore ==
  ASSUME NEW s, NEW t, NEW q \in Seq(Byte), NEW b \in Byte, Reads(s, q, t)
  PROVE  Reads(s, Append(q, b), Read(t, b))
<1>1. PICK run : IsRun(run, q) /\ run[0] = s /\ run[Len(q)] = t
  BY DEF Reads
<1> DEFINE n == Len(q)
           last == Read(t, b)
           on == [i \in 0..n + 1 |-> IF i = n + 1 THEN last ELSE run[i]]
           p == Append(q, b)
<1>2. n \in Nat /\ Len(p) = n + 1 /\ p[n + 1] = b /\ \A i \in 1..n : p[i] = q[i]
  OBVIOUS
<1>3. t \in Input /\ last \in Input
  BY <1>1, <1>2, ReadTypes DEF IsRun
<1> HIDE DEF last
<1>4. on \in [0..n + 1 -> Input]
  BY <1>1, <1>2, <1>3 DEF IsRun
<1>5. on[0] = s /\ on[n + 1] = last /\ on[n] = t
  BY <1>1, <1>2
<1>6. ASSUME NEW i \in 1..n + 1 PROVE on[i] = Read(on[i - 1], p[i])
  <2>1. CASE i = n + 1
    <3>1. i - 1 = n BY <2>1, <1>2
    <3> QED BY <3>1, <2>1, <1>2, <1>5 DEF last
  <2>2. CASE i \in 1..n
    <3>1. on[i] = run[i] /\ on[i - 1] = run[i - 1] /\ p[i] = q[i]
      BY <2>2, <1>2
    <3> QED BY <3>1, <2>2, <1>1 DEF IsRun
  <2> QED BY <2>1, <2>2, <1>2
<1>7. ASSUME NEW i \in 0..n + 1 PROVE IsPrefix(on[i].shown, last.shown)
  <2>1. CASE i = n + 1
    BY <2>1, <1>3, <1>5, PrefixSelf DEF Input
  <2>2. CASE i \in 0..n
    <3>1. on[i] = run[i] /\ run[i] \in Input
      BY <2>2, <1>1, <1>2 DEF IsRun
    <3>2. IsPrefix(run[i].shown, t.shown)
      BY <2>2, <1>1 DEF IsRun
    <3>3. PICK more \in Seq(Output) : last.shown = t.shown \o more
      BY <1>3, ReadAdds DEF last
    <3>4. run[i].shown \in Seq(Output) /\ t.shown \in Seq(Output)
      BY <3>1, <1>3 DEF Input
    <3> QED BY <3>1, <3>2, <3>3, <3>4, PrefixAdds
  <2> QED BY <2>1, <2>2, <1>2
<1> HIDE DEF on, p
<1>8. IsRun(on, p)
  BY <1>2, <1>4, <1>5, <1>6, <1>7 DEF IsRun
<1> QED BY <1>8, <1>5, <1>2 DEF Reads, p, last

LEMMA ReadsPrefix ==
  ASSUME NEW s, NEW t, NEW q \in Seq(Byte), Reads(s, q, t)
  PROVE  s \in Input /\ t \in Input /\ IsPrefix(s.shown, t.shown)
<1>1. PICK run : IsRun(run, q) /\ run[0] = s /\ run[Len(q)] = t
  BY DEF Reads
<1>2. 0 \in 0..Len(q) /\ Len(q) \in 0..Len(q)
  OBVIOUS
<1> QED BY <1>1, <1>2 DEF IsRun
----------------------------------------------------------------------------
(* The bytes under way                                                     *)

\* The byte in the output buffer, and those not yet there.
Queue == (IF output_buffer = 0 THEN <<>> ELSE <<output_buffer>>) \o outgoing

\* The input the handler has, and that of the user's strokes.
Noted == [ext |-> (step = "second"), mod |-> mod, lock |-> caps_lock, shown |-> shown]

Meant == [ext |-> FALSE, mod |-> held \cap Modifiers, lock |-> caps, shown |-> meant]

\* What is under way makes of the one the other.
UnderWay == Reads(Noted, Queue, Meant)

KeyboardInv == TypeOK /\ InterruptsInv /\ UnderWay

\* The codes of a key, pressed and released, are one byte that is not the first of
\* an extended code, or that and another; and the tables have the key there.
LEMMA Codes ==
  ASSUME NEW k \in Keys
  PROVE  \E b \in 1..127 :
           \/ /\ Scancode(k) = <<b>> /\ Released(Scancode(k)) = <<b + 128>>
              /\ b + 128 # Extended
              /\ Set1[b] = k
           \/ /\ Scancode(k) = <<Extended, b>>
              /\ Released(Scancode(k)) = <<Extended, b + 128>>
              /\ Set1Extended[b] = k
<1> DEFINE Plain(b)    == Released(<<b>>) = <<b + 128>>
           Prefixed(b) == Released(<<Extended, b>>) = <<Extended, b + 128>>
<1>1. \A b \in 1..127 : Plain(b) /\ Prefixed(b)
  BY DEF Released, Extended
<1> HIDE DEF Plain, Prefixed
<1>2. k \in {"A", "7", "CAPSLOCK", "BACKSPACE", "LSHIFT", "LCTRL", "UP", "SLASH", "RCTRL", "RALT"}
  BY KeyboardAssumption DEF Keycodes, Modifiers, Shifts, Ctrls, Alts, Letters
<1>13. ASSUME NEW b \in 1..127, Scancode(k) = <<b>>, b + 128 # Extended, Set1[b] = k
       PROVE  Scancode(k) = <<b>> /\ Released(Scancode(k)) = <<b + 128>>
              /\ b + 128 # Extended /\ Set1[b] = k
  BY <1>1, <1>13 DEF Plain
<1>14. ASSUME NEW b \in 1..127, Scancode(k) = <<Extended, b>>, Set1Extended[b] = k
       PROVE  Scancode(k) = <<Extended, b>> /\ Released(Scancode(k)) = <<Extended, b + 128>>
              /\ Set1Extended[b] = k
  BY <1>1, <1>14 DEF Prefixed
<1>3. CASE k = "A"
  <2>1. Scancode(k) = <<30>> BY <1>3 DEF Scancode
  <2>2. Set1[30] = k /\ 30 \in 1..127 /\ 30 + 128 # Extended BY <1>3 DEF Set1, Extended
  <2> QED BY <2>1, <2>2, <1>13
<1>4. CASE k = "7"
  <2>1. Scancode(k) = <<8>> BY <1>4 DEF Scancode
  <2>2. Set1[8] = k /\ 8 \in 1..127 /\ 8 + 128 # Extended BY <1>4 DEF Set1, Extended
  <2> QED BY <2>1, <2>2, <1>13
<1>5. CASE k = "CAPSLOCK"
  <2>1. Scancode(k) = <<58>> BY <1>5 DEF Scancode
  <2>2. Set1[58] = k /\ 58 \in 1..127 /\ 58 + 128 # Extended BY <1>5 DEF Set1, Extended
  <2> QED BY <2>1, <2>2, <1>13
<1>6. CASE k = "BACKSPACE"
  <2>1. Scancode(k) = <<14>> BY <1>6 DEF Scancode
  <2>2. Set1[14] = k /\ 14 \in 1..127 /\ 14 + 128 # Extended BY <1>6 DEF Set1, Extended
  <2> QED BY <2>1, <2>2, <1>13
<1>7. CASE k = "LSHIFT"
  <2>1. Scancode(k) = <<42>> BY <1>7 DEF Scancode
  <2>2. Set1[42] = k /\ 42 \in 1..127 /\ 42 + 128 # Extended BY <1>7 DEF Set1, Extended
  <2> QED BY <2>1, <2>2, <1>13
<1>8. CASE k = "LCTRL"
  <2>1. Scancode(k) = <<29>> BY <1>8 DEF Scancode
  <2>2. Set1[29] = k /\ 29 \in 1..127 /\ 29 + 128 # Extended BY <1>8 DEF Set1, Extended
  <2> QED BY <2>1, <2>2, <1>13
<1>9. CASE k = "UP"
  <2>1. Scancode(k) = <<Extended, 72>> BY <1>9 DEF Scancode
  <2>2. Set1Extended[72] = k /\ 72 \in 1..127 BY <1>9 DEF Set1Extended
  <2> QED BY <2>1, <2>2, <1>14
<1>10. CASE k = "SLASH"
  <2>1. Scancode(k) = <<Extended, 53>> BY <1>10 DEF Scancode
  <2>2. Set1Extended[53] = k /\ 53 \in 1..127 BY <1>10 DEF Set1Extended
  <2> QED BY <2>1, <2>2, <1>14
<1>11. CASE k = "RCTRL"
  <2>1. Scancode(k) = <<Extended, 29>> BY <1>11 DEF Scancode
  <2>2. Set1Extended[29] = k /\ 29 \in 1..127 BY <1>11 DEF Set1Extended
  <2> QED BY <2>1, <2>2, <1>14
<1>12. CASE k = "RALT"
  <2>1. Scancode(k) = <<Extended, 56>> BY <1>12 DEF Scancode
  <2>2. Set1Extended[56] = k /\ 56 \in 1..127 BY <1>12 DEF Set1Extended
  <2> QED BY <2>1, <2>2, <1>14
<1> QED BY <1>2, <1>3, <1>4, <1>5, <1>6, <1>7, <1>8, <1>9, <1>10, <1>11, <1>12

\* Two bytes at the end of a sequence.
LEMMA TwoMore ==
  ASSUME NEW S, NEW q \in Seq(S), NEW b \in S, NEW c \in S
  PROVE  q \o <<b, c>> = Append(Append(q, b), c)
OBVIOUS

\* A queue with the code of a key behind it comes to that key struck.
LEMMA ReadsCode ==
  ASSUME NEW s, NEW t \in Input, t.ext = FALSE, NEW q \in Seq(Byte), Reads(s, q, t),
         NEW k \in Keys, NEW pressed \in BOOLEAN, NEW code,
         code = IF pressed THEN Scancode(k) ELSE Released(Scancode(k))
  PROVE  /\ code \in Seq(Byte)
         /\ q \o code \in Seq(Byte)
         /\ Reads(s, q \o code, Struck(t, k, pressed))
<1>1. PICK b \in 1..127 :
           \/ /\ Scancode(k) = <<b>> /\ Released(Scancode(k)) = <<b + 128>>
              /\ b + 128 # Extended
              /\ Set1[b] = k
           \/ /\ Scancode(k) = <<Extended, b>>
              /\ Released(Scancode(k)) = <<Extended, b + 128>>
              /\ Set1Extended[b] = k
  BY Codes
<1> DEFINE c == IF pressed THEN b ELSE b + 128
<1>2. c \in Byte /\ c % 128 = b /\ (c < 128 <=> pressed)
  <2>1. b % 128 = b /\ (b + 128) % 128 = b /\ b < 128 /\ ~(b + 128 < 128)
    OBVIOUS
  <2>2. b \in Byte /\ b + 128 \in Byte
    BY DEF Byte
  <2>3. CASE pressed BY <2>1, <2>2, <2>3
  <2>4. CASE ~pressed BY <2>1, <2>2, <2>4
  <2> QED BY <2>3, <2>4
<1>3. Extended \in Byte /\ ~(b = Extended)
  BY DEF Extended, Byte
<1>4. CASE code = <<c>> /\ Set1[b] = k /\ c # Extended
  <2> HIDE DEF c
  <2>1. q \o code = Append(q, c) /\ Append(q, c) \in Seq(Byte) /\ code \in Seq(Byte)
    <3>1. <<c>> \in Seq(Byte) /\ Append(q, c) \in Seq(Byte) BY <1>2
    <3>2. Append(q, c) = q \o <<c>> BY <1>2, AppendIsConcat
    <3> QED BY <3>1, <3>2, <1>4
  <2>2. Read(t, c) = Struck(t, KeyOf(c, FALSE), c < 128)
    BY <1>4 DEF Read
  <2>3. Read(t, c) = Struck(t, k, pressed)
    <3>1. KeyOf(c, FALSE) = k BY <1>2, <1>4 DEF KeyOf
    <3>2. (c < 128) = pressed BY <1>2
    <3> QED BY <2>2, <3>1, <3>2
  <2>4. Reads(s, Append(q, c), Read(t, c))
    BY <1>2, ReadsOneMore
  <2> QED BY <2>1, <2>3, <2>4
<1>5. CASE code = <<Extended, c>> /\ Set1Extended[b] = k
  <2> HIDE DEF c
  <2> DEFINE u == Read(t, Extended)
             p == Append(q, Extended)
  <2>1. u = Started(t)
    BY DEF Read
  <2>2. u \in Input /\ u.ext /\ u.mod = t.mod /\ u.lock = t.lock /\ u.shown = t.shown
    BY <2>1 DEF Input, Started
  <2>3. p \in Seq(Byte) /\ Reads(s, p, u)
    BY <1>3, ReadsOneMore
  <2> HIDE DEF u, p
  <2>4. Reads(s, Append(p, c), Read(u, c))
    BY <1>2, <2>3, ReadsOneMore
  <2>5. Read(u, c) = Struck(u, KeyOf(c, u.ext), c < 128)
    BY <2>2 DEF Read
  <2>6. KeyOf(c, u.ext) = k
    BY <1>2, <1>5, <2>2 DEF KeyOf
  <2>7. (c < 128) = pressed
    BY <1>2
  <2>8. Struck(u, k, pressed) = Struck(t, k, pressed)
    BY <2>2 DEF Struck
  <2>9. q \o code = Append(p, c) /\ Append(p, c) \in Seq(Byte) /\ code \in Seq(Byte)
    <3>1. Append(p, c) \in Seq(Byte) /\ <<Extended, c>> \in Seq(Byte) BY <1>2, <1>3, <2>3
    <3>2. q \o <<Extended, c>> = Append(p, c) BY <1>2, <1>3, TwoMore DEF p
    <3> QED BY <3>1, <3>2, <1>5
  <2> QED BY <2>4, <2>5, <2>6, <2>7, <2>8, <2>9
<1>6. CASE pressed
  <2>1. c = b /\ c # Extended /\ code = Scancode(k) BY <1>6, <1>3
  <2> QED BY <1>1, <1>4, <1>5, <2>1
<1>7. CASE ~pressed
  <2>1. c = b + 128 /\ code = Released(Scancode(k)) BY <1>7
  <2> QED BY <1>1, <1>4, <1>5, <2>1
<1> QED BY <1>6, <1>7

----------------------------------------------------------------------------
(* The keyboard's steps                                                    *)

LEMMA InputsTyped ==
  ASSUME KeyboardInv
  PROVE  Queue \in Seq(Byte) /\ Noted \in Input /\ Meant \in Input
<1>1. outgoing \in Seq(Byte) /\ output_buffer \in 0..255
  BY DEF KeyboardInv, TypeOK, Byte
<1>2. Queue \in Seq(Byte)
  <2>1. CASE output_buffer = 0
    BY <1>1, <2>1 DEF Queue
  <2>2. CASE output_buffer # 0
    <3>1. <<output_buffer>> \in Seq(Byte) BY <1>1, <2>2 DEF Byte
    <3> QED BY <1>1, <2>2, <3>1 DEF Queue
  <2> QED BY <2>1, <2>2
<1> QED BY <1>2, ReadsPrefix DEF KeyboardInv, UnderWay

LEMMA KeyboardStart == Init => KeyboardInv
<1> SUFFICES ASSUME Init PROVE KeyboardInv
  OBVIOUS
<1>1. InterruptsInv
  BY InterruptsStart DEF Init
<1>2. TypeOK
  <2>1. <<>> \in Seq(1..255) OBVIOUS
  <2>2. "NONE" \in Keycodes BY DEF Keycodes
  <2>3. 0 \in 0..MaxStrokes /\ 0 \in 0..255 BY KeyboardAssumption
  <2>4. InterruptsTypeOK BY <1>1 DEF InterruptsInv
  <2> QED BY <2>1, <2>2, <2>3, <2>4 DEF Init, TypeOK
<1>3. Queue = <<>> /\ Noted = Meant
  <2>1. Queue = <<>> \o <<>> BY DEF Init, Queue
  <2>2. <<>> \o <<>> = <<>> OBVIOUS
  <2>3. (step = "second") = FALSE BY DEF Init, InterruptsInit
  <2>4. held \cap Modifiers = {} BY DEF Init
  <2> QED BY <2>1, <2>2, <2>3, <2>4 DEF Init, Noted, Meant
<1>4. Meant \in Input
  <2>1. <<>> \in Seq(Output) OBVIOUS
  <2>2. held \cap Modifiers \subseteq Modifiers /\ caps = FALSE /\ meant = <<>> BY DEF Init
  <2> QED BY <2>1, <2>2 DEF Meant, Input
<1> QED BY <1>1, <1>2, <1>3, <1>4, ReadsNothing DEF KeyboardInv, UnderWay

\* A handler between the bytes of a code is not interrupted.
LEMMA SecondStays ==
  ASSUME InterruptsInv, InterruptsNext
  PROVE  (step = "second")' = (step = "second")
BY DEF InterruptsNext, Kmain, PicInit, PitInit, KeyboardInit, IrqRegister, Sti, MaskLine11,
       Dispatch, PitIrq, NoHandler, PicSendEoi, Reschedule, Interrupt, Pulse, PciLine, cpuVars,
       InterruptsInv, MaskedInside

LEMMA InterruptsLeaveBytes ==
  ASSUME KeyboardInv, InterruptsNext, UNCHANGED keyboardVars
  PROVE  KeyboardInv'
<1>1. InterruptsInv'
  BY InterruptsStep DEF KeyboardInv
<1>2. UNCHANGED <<Queue, Noted, Meant>>
  BY SecondStays
  DEF keyboardVars, userVars, inputVars, Queue, Noted, Meant, KeyboardInv
<1>3. TypeOK'
  BY <1>1 DEF keyboardVars, userVars, inputVars, KeyboardInv, TypeOK, InterruptsInv
<1> QED BY <1>1, <1>2, <1>3 DEF KeyboardInv, UnderWay

\* The next byte reaches the output buffer.
LEMMA SendKeeps ==
  ASSUME KeyboardInv, Send
  PROVE  KeyboardInv'
<1>1. InterruptsInv'
  BY KeyboardServes DEF KeyboardInv
<1>2. outgoing \in Seq(Byte) /\ outgoing # <<>> /\ output_buffer = 0
  BY DEF KeyboardInv, TypeOK, Send, Byte
<1>3. Head(outgoing) \in Byte /\ Tail(outgoing) \in Seq(Byte) /\ Head(outgoing) # 0
  <2>1. Head(outgoing) \in Byte /\ Tail(outgoing) \in Seq(Byte) BY <1>2
  <2>2. \A x \in Byte : x # 0 BY DEF Byte
  <2> QED BY <2>1, <2>2
<1>4. TypeOK'
  BY <1>1, <1>3
  DEF Send, userVars, inputVars, KeyboardInv, TypeOK, InterruptsInv, Byte
<1>5. Queue' = Queue
  <2>1. <<Head(outgoing)>> \o Tail(outgoing) = outgoing /\ <<>> \o outgoing = outgoing
    BY <1>2
  <2> QED BY <1>2, <1>3, <2>1 DEF Send, Queue
<1>6. UNCHANGED <<Noted, Meant>>
  BY DEF Send, userVars, inputVars, cpuVars, Noted, Meant
<1> QED BY <1>1, <1>4, <1>5, <1>6 DEF KeyboardInv, UnderWay

\* update_input does what a key struck does.
LEMMA UpdateStrikes ==
  ASSUME KeyboardInv, NEW b \in Byte, NEW ext \in BOOLEAN, UpdateInput(b, ext),
         ext = (step = "second"), step' = "eoi"
  PROVE  /\ Noted' = Struck(Noted, KeyOf(b, ext), b < 128)
         /\ mod' \subseteq Modifiers /\ caps_lock' \in BOOLEAN /\ last_keycode' \in Keycodes
<1> DEFINE k == IF ext THEN Set1Extended[b % 128] ELSE Set1[b % 128]
           pressed == b < 128
<1>1. b % 128 \in 0..127 /\ pressed \in BOOLEAN
  BY DEF Byte
<1>2. k = KeyOf(b, ext) /\ k \in Keycodes
  BY <1>1 DEF KeyOf, Set1, Set1Extended, Keycodes, Modifiers, Shifts, Ctrls, Alts, Letters
<1>3. /\ mod' = ModAfter(k, pressed)
      /\ caps_lock' = (caps_lock # (pressed /\ k = "CAPSLOCK"))
      /\ last_keycode' = IF pressed THEN k ELSE last_keycode
      /\ shown' = IF pressed THEN shown \o Shows(k, mod', caps_lock') ELSE shown
  BY DEF UpdateInput
<1> HIDE DEF k, pressed
<1>4. mod' = Keeps(mod, k, pressed)
  BY <1>3 DEF ModAfter, Keeps
<1>5. caps_lock' = Locks(caps_lock, k, pressed)
  BY <1>3 DEF Locks
<1>6. shown' = IF pressed THEN shown \o Shows(k, Keeps(mod, k, TRUE), Locks(caps_lock, k, TRUE))
               ELSE shown
  BY <1>1, <1>3, <1>4, <1>5
<1>7. Noted' = Struck(Noted, k, pressed)
  BY <1>4, <1>5, <1>6 DEF Noted, Struck
<1>8. mod' \subseteq Modifiers /\ caps_lock' \in BOOLEAN /\ last_keycode' \in Keycodes
  BY <1>2, <1>3, <1>4 DEF Keeps, KeyboardInv, TypeOK
<1> QED BY <1>2, <1>7, <1>8 DEF pressed

\* The handler reads the first byte of the queue.
LEMMA HandleKeeps ==
  ASSUME KeyboardInv, Handle
  PROVE  KeyboardInv'
<1>1. InterruptsInv'
  BY KeyboardServes DEF KeyboardInv
<1> DEFINE b == output_buffer
<1>2. b \in Byte /\ b # 0 /\ output_buffer' = 0 /\ outgoing \in Seq(Byte)
      /\ UNCHANGED <<userVars, outgoing>>
  <2>1. Ps2Read BY DEF Handle, KeyboardIrq, SecondByte
  <2>2. outgoing \in Seq(Byte) /\ output_buffer \in 0..255 BY DEF KeyboardInv, TypeOK, Byte
  <2> QED BY <2>1, <2>2 DEF Ps2Read, Byte
<1> DEFINE Types == mod' \subseteq Modifiers /\ caps_lock' \in BOOLEAN /\ last_keycode' \in Keycodes
<1>3. Noted' = Read(Noted, b) /\ Types
  <2>1. CASE KeyboardIrq /\ b = Extended
    <3>1. step = "handler" /\ step' = "second" /\ UNCHANGED inputVars
      BY <2>1 DEF KeyboardIrq
    <3>2. Noted.ext = FALSE /\ Noted' = Started(Noted)
      <4>1. (step = "second") = FALSE /\ (step' = "second") = TRUE BY <3>1
      <4>2. mod' = mod /\ caps_lock' = caps_lock /\ shown' = shown BY <3>1 DEF inputVars
      <4> QED BY <4>1, <4>2 DEF Noted, Started
    <3>3. Types
      BY <3>1 DEF inputVars, KeyboardInv, TypeOK
    <3> QED BY <2>1, <3>2, <3>3 DEF Read
  <2>2. CASE KeyboardIrq /\ b # Extended
    <3>1. step = "handler" /\ step' = "eoi" /\ UpdateInput(b, FALSE)
      BY <2>2 DEF KeyboardIrq
    <3>2. Noted' = Struck(Noted, KeyOf(b, FALSE), b < 128) /\ Types
      BY <1>2, <3>1, UpdateStrikes
    <3>3. Noted.ext = FALSE
      BY <3>1 DEF Noted
    <3> QED BY <2>2, <3>2, <3>3 DEF Read
  <2>3. CASE SecondByte
    <3>1. step = "second" /\ step' = "eoi" /\ UpdateInput(b, TRUE)
      BY <2>3 DEF SecondByte
    <3>2. Noted' = Struck(Noted, KeyOf(b, TRUE), b < 128) /\ Types
      BY <1>2, <3>1, UpdateStrikes
    <3>3. Noted.ext = TRUE
      BY <3>1 DEF Noted
    <3> QED BY <3>2, <3>3 DEF Read
  <2> QED BY <2>1, <2>2, <2>3 DEF Handle
<1>4. Queue = <<b>> \o outgoing /\ Queue' = <<>> \o outgoing
  BY <1>2 DEF Queue
<1>5. Queue # <<>> /\ Head(Queue) = b /\ Queue' = Tail(Queue)
  BY <1>2, <1>4
<1>6. Meant' = Meant
  BY <1>2 DEF userVars, Meant
<1>7. Reads(Read(Noted, b), Tail(Queue), Meant)
  BY <1>5, InputsTyped, ReadsHead DEF KeyboardInv, UnderWay
<1>8. TypeOK'
  BY <1>1, <1>2, <1>3 DEF userVars, KeyboardInv, TypeOK, InterruptsInv
<1> QED BY <1>1, <1>3, <1>5, <1>6, <1>7, <1>8 DEF KeyboardInv, UnderWay

\* A stroke sends the code of a key and means what it shows.
LEMMA StrokeKeeps ==
  ASSUME KeyboardInv, NEW k \in Keys, Press(k) \/ Release(k)
  PROVE  KeyboardInv'
<1>1. InterruptsInv'
  BY InterruptsKept DEF Next, KeyboardInv
<1> DEFINE pressed == k \notin held
           code == IF pressed THEN Scancode(k) ELSE Released(Scancode(k))
           q == Queue
           t == Meant
<1>2. outgoing' = outgoing \o code
  BY DEF Press, Release
<1>3. UNCHANGED <<interruptVars, output_buffer, inputVars>> /\ strokes' \in 0..MaxStrokes
  BY KeyboardAssumption DEF Press, Release, Stroke, KeyboardInv, TypeOK
<1>4. Noted' = Noted
  BY <1>3 DEF interruptVars, cpuVars, inputVars, Noted
<1>5. Meant' = Struck(t, k, pressed)
  <2>1. CASE Press(k)
    <3>1. pressed /\ held' = held \cup {k} /\ caps' = (caps # (k = "CAPSLOCK"))
          /\ meant' = meant \o Shows(k, held' \cap Modifiers, caps')
      BY <2>1 DEF Press
    <3>2. held' \cap Modifiers = Keeps(held \cap Modifiers, k, TRUE)
      BY <3>1 DEF Keeps
    <3>3. caps' = Locks(caps, k, TRUE)
      BY <3>1 DEF Locks
    <3> QED BY <3>1, <3>2, <3>3 DEF Meant, Struck
  <2>2. CASE Release(k)
    <3>1. ~pressed /\ held' = held \ {k} /\ UNCHANGED <<caps, meant>>
      BY <2>2 DEF Release
    <3>2. held' \cap Modifiers = Keeps(held \cap Modifiers, k, FALSE)
      BY <3>1 DEF Keeps
    <3>3. caps' = Locks(caps, k, FALSE)
      BY <3>1 DEF Locks, KeyboardInv, TypeOK
    <3> QED BY <3>1, <3>2, <3>3 DEF Meant, Struck
  <2> QED BY <2>1, <2>2
<1>6. t.ext = FALSE /\ t \in Input /\ q \in Seq(Byte) /\ Reads(Noted, q, t)
  BY InputsTyped DEF Meant, KeyboardInv, UnderWay
<1>7. pressed \in BOOLEAN
  OBVIOUS
<1> HIDE DEF q, t, pressed
<1>8. code \in Seq(Byte) /\ Reads(Noted, q \o code, Struck(t, k, pressed))
  BY <1>6, <1>7, ReadsCode
<1> HIDE DEF code
<1>9. outgoing \in Seq(Byte) /\ output_buffer \in 0..255
  BY DEF KeyboardInv, TypeOK, Byte
<1>10. Queue' = q \o code
  <2>1. CASE output_buffer = 0
    BY <2>1, <1>2, <1>3, <1>8, <1>9 DEF Queue, q
  <2>2. CASE output_buffer # 0
    <3>1. <<output_buffer>> \in Seq(Byte) BY <1>9, <2>2 DEF Byte
    <3>2. <<output_buffer>> \o (outgoing \o code) = (<<output_buffer>> \o outgoing) \o code
      BY <3>1, <1>8, <1>9
    <3> QED BY <2>2, <3>2, <1>2, <1>3 DEF Queue, q
  <2> QED BY <2>1, <2>2
<1>11. TypeOK'
  <2>1. outgoing' \in Seq(1..255)
    BY <1>2, <1>8, <1>9 DEF Byte
  <2>2. held' \subseteq Keys /\ caps' \in BOOLEAN
    BY DEF Press, Release, KeyboardInv, TypeOK
  <2> QED BY <1>1, <1>3, <2>1, <2>2
          DEF inputVars, KeyboardInv, TypeOK, InterruptsInv
<1> QED BY <1>1, <1>4, <1>5, <1>8, <1>10, <1>11 DEF KeyboardInv, UnderWay

LEMMA KeyboardStep ==
  ASSUME KeyboardInv, [Next]_vars
  PROVE  KeyboardInv'
<1>1. CASE UNCHANGED vars
  <2>1. UNCHANGED <<Queue, Noted, Meant>>
    BY <1>1 DEF vars, interruptVars, cpuVars, keyboardVars, userVars, inputVars, Queue, Noted, Meant
  <2>2. InterruptsInv'
    BY InterruptsKept DEF KeyboardInv
  <2>3. TypeOK'
    BY <1>1, <2>2 DEF vars, keyboardVars, userVars, inputVars, KeyboardInv, TypeOK, InterruptsInv
  <2> QED BY <2>1, <2>2, <2>3 DEF KeyboardInv, UnderWay
<1> QED
  BY <1>1, InterruptsLeaveBytes, HandleKeeps, StrokeKeeps, SendKeeps DEF Next

THEOREM KeyboardInvariance == Spec => []KeyboardInv
BY KeyboardStart, KeyboardStep, PTL DEF Spec

\* Whenever the bytes of a stroke are read, it is shown with the modifiers it was
\* struck with (keyboard.c:16, :20).
THEOREM KeysAreTrue == Spec => []ShownAsMeant
<1>1. ASSUME KeyboardInv PROVE ShownAsMeant
  <2>1. IsPrefix(Noted.shown, Meant.shown)
    BY <1>1, InputsTyped, ReadsPrefix DEF KeyboardInv, UnderWay
  <2> QED BY <1>1, <2>1 DEF KeyboardInv, ShownAsMeant, Noted, Meant
<1> QED BY <1>1, KeyboardInvariance, PTL
=============================================================================
