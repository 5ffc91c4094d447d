--------------------------- MODULE CommandsProofs ---------------------------
(***************************************************************************)
(* Proofs about Commands, for any calendar, any sizes of the log and of    *)
(* its texts, and any clock that leaves rtc_read the time to read six      *)
(* registers between its flag and its update.                              *)
(***************************************************************************)
EXTENDS Commands, SequenceTheorems, TLAPS

-----------------------------------------------------------------------------
(* What the registers hold, and what rtc_read makes of it. *)

\* Two BCD digits are packed and unpacked, and print_2 shows them.
LEMMA BcdRoundTrip ==
  ASSUME NEW v \in 0 .. 99
  PROVE  bcd(v) \in 0 .. 153 /\ bcd_to_bin(bcd(v)) = v /\ print_2(v) = v
<1> DEFINE q == v \div 10
           r == v % 10
<1>1. q \in 0 .. 9 /\ r \in 0 .. 9 /\ v = 10 * q + r  BY SMT
<1>2. ((q * 16) + r) % 16 = r /\ ((q * 16) + r) \div 16 = q
  <2> HIDE DEF q, r
  <2> QED  BY <1>1, SMT
<1>3. q % 10 = q
  <2> HIDE DEF q, r
  <2> QED  BY <1>1, SMT
<1>4. bcd(v) = (q * 16) + r  BY DEF bcd
<1>5. bcd_to_bin(bcd(v)) = r + (q * 10)  BY <1>2, <1>4 DEF bcd_to_bin
<1>6. print_2(v) = (q * 10) + r  BY <1>3 DEF print_2
<1> HIDE DEF q, r
<1> QED  BY <1>1, <1>4, <1>5, <1>6

\* The hours of a clock with 12 hours.
LEMMA HourOf12Range ==
  ASSUME NEW h \in 0 .. 23
  PROVE  /\ HourOf12(h) \in 1 .. 12
         /\ h >= 12 => (HourOf12(h) + 12) % 24 = IF h = 12 THEN 0 ELSE h
         /\ h < 12 => HourOf12(h) = IF h = 0 THEN 12 ELSE h
BY SMT DEF HourOf12

LEMMA IndexOfField ==
  ASSUME NEW f \in DOMAIN Range24
  PROVE  LET k == CHOOSE i \in DOMAIN Fields : Fields[i] = f
         IN  k \in 1 .. 6 /\ Fields[k] = f
<1>1. DOMAIN Range24 = {"second", "minute", "hour", "day", "month", "year"}  BY DEF Range24
<1>2. DOMAIN Fields = 1 .. 6  BY DEF Fields
<1>3. \E i \in 1 .. 6 : Fields[i] = f
  <2>1. /\ Fields[1] = "second" /\ Fields[2] = "minute" /\ Fields[3] = "hour"
        /\ Fields[4] = "day" /\ Fields[5] = "month" /\ Fields[6] = "year"  BY DEF Fields
  <2> QED  BY <1>1, <2>1
<1> QED  BY <1>2, <1>3, Zenon

LEMMA FieldsOfRange ==
  ASSUME NEW i \in 1 .. 6
  PROVE  Fields[i] \in DOMAIN Range24
<1>1. DOMAIN Range24 = {"second", "minute", "hour", "day", "month", "year"}
  BY DEF Range24
<1>2. /\ Fields[1] = "second" /\ Fields[2] = "minute" /\ Fields[3] = "hour"
      /\ Fields[4] = "day" /\ Fields[5] = "month" /\ Fields[6] = "year"
  BY DEF Fields
<1>3. i = 1 \/ i = 2 \/ i = 3 \/ i = 4 \/ i = 5 \/ i = 6
  OBVIOUS
<1> QED
  BY <1>1, <1>2, <1>3

LEMMA MomentRange ==
  ASSUME NEW m \in Moments, NEW f \in DOMAIN Range24
  PROVE  m[f] \in 0 .. 99 /\ m.hour \in 0 .. 23
<1>1. \A g \in DOMAIN Range24 : m[g] \in Range24[g]  BY ClockAssumption
<1>2. m.hour \in 0 .. 23  BY <1>1 DEF Range24
<1>3. Range24[f] \subseteq 0 .. 99  BY DEF Range24
<1> QED  BY <1>1, <1>2, <1>3

\* What is shown of a register is what the clock keeps in it, up to noon and midnight.
LEMMA DecodedIsHeld ==
  ASSUME register \in [binary : BOOLEAN, hours24 : BOOLEAN],
         NEW m \in Moments, NEW f \in DOMAIN Range24
  PROVE  /\ Held(f, m) \in Int
         /\ print_2(Decoded(f, Held(f, m))) =
              IF f = "hour" /\ ~register.hours24 /\ m.hour \in {0, 12}
              THEN 12 - m.hour ELSE m[f]
<1> DEFINE v == m[f]
           h == m.hour
           h12 == HourOf12(h)
<1>1. v \in 0 .. 99 /\ h \in 0 .. 23  BY MomentRange
<1>2. register.binary \in BOOLEAN /\ register.hours24 \in BOOLEAN  OBVIOUS
<1>3. bcd(v) \in 0 .. 153 /\ bcd_to_bin(bcd(v)) = v /\ print_2(v) = v  BY <1>1, BcdRoundTrip
<1>4. CASE f # "hour"
  <2>1. Held(f, m) = IF register.binary THEN v ELSE bcd(v)  BY <1>4 DEF Held
  <2>2. Decoded(f, Held(f, m)) = v  BY <1>2, <1>3, <1>4, <2>1 DEF Decoded
  <2> QED  BY <1>1, <1>3, <1>4, <2>1, <2>2
<1>5. CASE f = "hour" /\ register.hours24
  <2>1. Held(f, m) = IF register.binary THEN v ELSE bcd(v)  BY <1>5 DEF Held
  <2>2. v \in 0 .. 23  BY <1>1, <1>5
  <2>3. bcd(v) < 128 /\ bcd(v) % 128 = bcd(v)  BY <2>2, SMT DEF bcd
  <2>4. BinHour(bcd(v)) = v  BY <1>3, <2>2, <2>3 DEF BinHour
  <2>5. Decoded(f, Held(f, m)) = v  BY <1>2, <1>5, <2>1, <2>4 DEF Decoded
  <2> QED  BY <1>1, <1>3, <1>5, <2>1, <2>5
<1>6. CASE f = "hour" /\ ~register.hours24
  <2> DEFINE pm == IF h >= 12 THEN 128 ELSE 0
             form == IF register.binary THEN h12 ELSE bcd(h12)
             bin == IF register.binary THEN form + pm ELSE BinHour(form + pm)
  <2>1. Held(f, m) = form + pm  BY <1>6 DEF Held
  <2>2. /\ h12 \in 1 .. 12
        /\ h >= 12 => (h12 + 12) % 24 = IF h = 12 THEN 0 ELSE h
        /\ h < 12 => h12 = IF h = 0 THEN 12 ELSE h  BY <1>1, HourOf12Range
  <2>3. bcd(h12) \in 1 .. 18 /\ bcd_to_bin(bcd(h12)) = h12
    <3>1. h12 \in 0 .. 99  BY <2>2
    <3>2. bcd_to_bin(bcd(h12)) = h12  BY <3>1, BcdRoundTrip
    <3> HIDE DEF h12
    <3>3. bcd(h12) \in 1 .. 18  BY <2>2, SMT DEF bcd
    <3> QED  BY <3>2, <3>3
  <2>4. bin = h12 + pm
    <3>1. CASE register.binary  BY <3>1
    <3>2. CASE ~register.binary
      <4> DEFINE b == bcd(h12)
      <4>1. b \in 1 .. 18 /\ pm \in {0, 128} /\ bcd_to_bin(b) = h12  BY <2>3
      <4> HIDE DEF b, pm, h12
      <4>2. (b + pm >= 128 <=> pm = 128) /\ (b + pm) % 128 = b  BY <4>1, SMT
      <4>3. BinHour(b + pm) = pm + h12
        BY <4>1, <4>2 DEF BinHour
      <4>4. bin = BinHour(b + pm)  BY <3>2 DEF b
      <4> QED  BY <2>2, <4>1, <4>3, <4>4
    <3> QED  BY <3>1, <3>2
  <2>5. Decoded(f, form + pm) = IF bin >= 128 THEN ((bin % 128) + 12) % 24 ELSE bin
    BY <1>6 DEF Decoded
  <2>6. Decoded(f, form + pm) = IF h = 0 THEN 12 ELSE IF h = 12 THEN 0 ELSE h
    <3> HIDE DEF h, h12, bin, form
    <3>1. CASE h >= 12
      <4>1. bin = h12 + 128  BY <2>4, <3>1
      <4>2. bin >= 128 /\ bin % 128 = h12  BY <2>2, <4>1, SMT
      <4> QED  BY <1>1, <2>2, <2>5, <3>1, <4>2
    <3>2. CASE h < 12
      <4>1. bin = h12  BY <1>1, <2>2, <2>4, <3>2
      <4> QED  BY <1>1, <2>2, <2>5, <3>2, <4>1
    <3> QED  BY <1>1, <3>1, <3>2
  <2>7. Decoded(f, form + pm) \in 0 .. 99  BY <1>1, <2>6
  <2>8. print_2(Decoded(f, form + pm)) = Decoded(f, form + pm)  BY <2>7, BcdRoundTrip
  <2>9. form + pm \in Int  BY <2>2, <2>3
  <2> QED  BY <1>1, <1>6, <2>1, <2>6, <2>8, <2>9
<1> QED  BY <1>4, <1>5, <1>6

-----------------------------------------------------------------------------
(* Reading the clock.  Between the poll that finds the flag down and the   *)
(* last register, no update begins: the flag has left accesses to go, and  *)
(* there are no more registers left than that.                             *)

InTime ==
  /\ pc \in {"prompt", "wait"} => raw = <<>>
  /\ pc = "read" /\ Len(raw) < 6 =>
       /\ seen = now /\ phase # "updating"
       /\ phase = "due" => left >= 6 - Len(raw)

Readings ==
  /\ raw \in Seq(Int) /\ Len(raw) <= 6
  /\ pc = "shown" => Len(raw) = 6
  /\ pc # "shown" => shown = Nothing

ClockTypes ==
  /\ now \in Moments /\ seen \in Moments
  /\ phase \in {"idle", "due", "updating"} /\ left \in 0 .. Lead + Quiet
  /\ register \in [binary : BOOLEAN, hours24 : BOOLEAN]
  /\ pc \in Pcs /\ asked \in {"DATE", "TIME"}

ClockInv == ClockTypes /\ Readings /\ InTime /\ ShowsOneMoment /\ ShowsTheTime

LEMMA Bounds ==
  /\ Lead \in Nat /\ Lead >= 6 /\ Quiet \in Nat /\ Quiet > 0
  /\ Following \in [Moments -> Moments]
  /\ Len(Fields) = 6
BY ClockAssumption DEF Fields

LEMMA ClockInvInit == ClockInit => ClockInv
<1> SUFFICES ASSUME ClockInit PROVE ClockInv
    OBVIOUS
<1> USE DEF ClockInit
<1>1. ClockTypes
  BY Bounds DEF ClockTypes, Pcs
<1>2. Readings /\ InTime
  BY DEF Readings, InTime
<1>3. ShowsOneMoment /\ ShowsTheTime
  BY DEF ShowsOneMoment, ShowsTheTime, Nothing
<1> QED
  BY <1>1, <1>2, <1>3 DEF ClockInv

LEMMA TickKeepsClockInv ==
  ASSUME ClockInv, Tick
  PROVE  ClockInv'
<1> USE DEF Tick, chip, reading
<1>1. ClockTypes'
  BY Bounds DEF ClockInv, ClockTypes, FlagRises, UpdateBegins, UpdateEnds, TimePasses, Pcs
<1>2. Readings'
  BY DEF ClockInv, Readings
<1>3. InTime'
  BY Bounds DEF ClockInv, ClockTypes, Readings, InTime, FlagRises, UpdateBegins, UpdateEnds, TimePasses
<1>4. ShowsOneMoment'
  BY DEF ClockInv, ShowsOneMoment, Held
<1>5. ShowsTheTime'
  BY DEF ClockInv, ShowsTheTime, NoonOrMidnight
<1> QED
  BY <1>1, <1>2, <1>3, <1>4, <1>5 DEF ClockInv

LEMMA AskKeepsClockInv ==
  ASSUME ClockInv, Ask
  PROVE  ClockInv'
<1> USE DEF Ask, chip
<1>1. ClockTypes' /\ Readings' /\ InTime'
  BY DEF ClockInv, ClockTypes, Readings, InTime, Pcs
<1>2. ShowsOneMoment'
  BY DEF ClockInv, ShowsOneMoment, Held
<1>3. ShowsTheTime'
  BY DEF ClockInv, ShowsTheTime, NoonOrMidnight
<1> QED
  BY <1>1, <1>2, <1>3 DEF ClockInv

LEMMA AccessTypes ==
  ASSUME ClockInv, Access
  PROVE  /\ left' \in 0 .. Lead + Quiet /\ left' >= left - 1
         /\ now' = now /\ phase' = phase /\ register' = register
BY Bounds DEF ClockInv, ClockTypes, Access

LEMMA PollKeepsClockInv ==
  ASSUME ClockInv, Poll
  PROVE  ClockInv'
<1> USE DEF Poll
<1>1. Access /\ raw = <<>> /\ shown = Nothing
  BY DEF ClockInv, InTime, Readings
<1>2. ClockTypes'
  BY <1>1, AccessTypes DEF ClockInv, ClockTypes, Pcs
<1>3. Readings'
  BY DEF ClockInv, Readings
<1>4. InTime'
  <2>1. ~Waits => phase = "idle"
    BY DEF ClockInv, ClockTypes, Waits, RegisterA
  <2> QED
    BY <1>1, <2>1, AccessTypes DEF InTime
<1>5. ShowsOneMoment' /\ ShowsTheTime'
  BY <1>1 DEF ShowsOneMoment, ShowsTheTime, Nothing
<1> QED
  BY <1>2, <1>3, <1>4, <1>5 DEF ClockInv

LEMMA ReadRegisterKeepsClockInv ==
  ASSUME ClockInv, ReadRegister
  PROVE  ClockInv'
<1> DEFINE n == Len(raw)
<1>1. Access /\ pc = "read" /\ pc' = "read" /\ asked' = asked /\ shown' = shown /\ seen' = seen
  BY DEF ReadRegister
<1>2. n \in 0 .. 5 /\ seen = now /\ phase # "updating" /\ (phase = "due" => left >= 6 - n)
  <2>1. raw \in Seq(Int) /\ Len(raw) < 6
    BY Bounds DEF ReadRegister, ClockInv, Readings
  <2>2. n \in Nat
    BY <2>1
  <2>3. n < 6
    BY <2>1
  <2>4. n \in 0 .. 5
    <3> HIDE DEF n
    <3> QED
      BY <2>2, <2>3
  <2> QED
    BY <1>1, <2>1, <2>4 DEF ClockInv, InTime
<1>3. PICK v \in Given(Fields[n + 1]) : raw' = Append(raw, v)
  BY DEF ReadRegister
<1>4. v = Held(Fields[n + 1], seen)
  BY <1>2, <1>3 DEF Given
<1>5. Fields[n + 1] \in DOMAIN Range24
  <2> HIDE DEF n
  <2>1. n + 1 \in 1 .. 6
    BY <1>2
  <2> QED
    BY <2>1, FieldsOfRange
<1>6. v \in Int
  BY <1>4, <1>5, DecodedIsHeld DEF ClockInv, ClockTypes
<1>7. raw \in Seq(Int)
  BY DEF ClockInv, Readings
<1>8. raw' \in Seq(Int) /\ Len(raw') = n + 1 /\ raw'[n + 1] = v
      /\ \A i \in 1 .. n : raw'[i] = raw[i]
  BY <1>3, <1>6, <1>7
<1>9. ClockTypes'
  BY <1>1, AccessTypes DEF ClockInv, ClockTypes
<1>10. Readings'
  <2>1. Len(raw') <= 6
    <3> HIDE DEF n
    <3> QED
      BY <1>2, <1>8
  <2>2. shown' = Nothing
    BY <1>1 DEF ClockInv, Readings
  <2> QED
    BY <1>1, <1>8, <2>1, <2>2 DEF Readings, Nothing
<1>11. InTime'
  <2>1. /\ left' >= left - 1 /\ left' \in Int /\ left \in Int
        /\ now' = now /\ phase' = phase
    BY <1>1, AccessTypes DEF ClockInv, ClockTypes
  <2> QED
    BY <1>1, <1>2, <1>8, <2>1 DEF InTime
<1>12. ShowsOneMoment'
  <2>1. \A f : Held(f, seen)' = Held(f, seen)
    BY <1>1, AccessTypes DEF Held
  <2>2. \A i \in 1 .. n : raw'[i] = Held(Fields[i], seen)
    BY <1>7, <1>8 DEF ClockInv, ShowsOneMoment
  <2>3. \A i \in 1 .. n + 1 : raw'[i] = Held(Fields[i], seen)
    BY <1>2, <1>4, <1>8, <2>2
  <2>4. DOMAIN raw' = 1 .. n + 1
    BY <1>8
  <2> QED
    BY <1>1, <2>1, <2>3, <2>4, Zenon DEF ShowsOneMoment
<1>13. ShowsTheTime'
  BY <1>1, AccessTypes DEF ClockInv, ShowsTheTime, NoonOrMidnight
<1> QED
  BY <1>9, <1>10, <1>11, <1>12, <1>13 DEF ClockInv

LEMMA ShowKeepsClockInv ==
  ASSUME ClockInv, Show
  PROVE  ClockInv'
<1>1. /\ Access /\ pc = "read" /\ pc' = "shown"
      /\ asked' = asked /\ raw' = raw /\ seen' = seen /\ Len(raw) = 6
  BY Bounds DEF Show
<1>2. now' = now /\ phase' = phase /\ register' = register /\ left' \in 0 .. Lead + Quiet
  BY <1>1, AccessTypes
<1>3. ClockTypes'
  BY <1>1, <1>2 DEF ClockInv, ClockTypes, Pcs
<1>4. Readings' /\ InTime'
  BY <1>1 DEF ClockInv, Readings, InTime
<1>5. ShowsOneMoment'
  BY <1>1, <1>2 DEF ClockInv, ShowsOneMoment, Held
<1>6. ShowsTheTime'
  <2>1. shown' = [f \in Printed |->
                    print_2(Decoded(f, raw[CHOOSE i \in DOMAIN Fields : Fields[i] = f]))]
    BY DEF Show
  <2>2. Printed \subseteq DOMAIN Range24
    BY DEF Printed, Range24
  <2>3. ASSUME NEW f \in Printed
        PROVE  shown'[f] = IF NoonOrMidnight(f) THEN 12 - seen.hour ELSE seen[f]
    <3> DEFINE k == CHOOSE i \in DOMAIN Fields : Fields[i] = f
    <3>1. k \in 1 .. 6 /\ Fields[k] = f
      BY <2>2, IndexOfField
    <3> HIDE DEF k
    <3>2. raw[k] = Held(Fields[k], seen)
      BY <1>1, <3>1 DEF ClockInv, Readings, ShowsOneMoment
    <3>3. shown'[f] = print_2(Decoded(f, Held(f, seen)))
      BY <2>1, <3>1, <3>2 DEF k
    <3> QED
      BY <2>2, <3>3, DecodedIsHeld DEF ClockInv, ClockTypes, NoonOrMidnight
  <2>4. \A f : NoonOrMidnight(f)' <=> NoonOrMidnight(f)
    BY <1>1, <1>2 DEF NoonOrMidnight
  <2>5. DOMAIN shown' = Printed
    BY <2>1
  <2> QED
    BY <1>1, <2>3, <2>4, <2>5 DEF ShowsTheTime
<1> QED
  BY <1>3, <1>4, <1>5, <1>6 DEF ClockInv

LEMMA DoneKeepsClockInv ==
  ASSUME ClockInv, Done
  PROVE  ClockInv'
<1> USE DEF Done, chip
<1>1. ClockTypes' /\ Readings' /\ InTime'
  BY DEF ClockInv, ClockTypes, Readings, InTime, Pcs
<1>2. ShowsOneMoment' /\ ShowsTheTime'
  BY DEF ShowsOneMoment, ShowsTheTime, Nothing
<1> QED
  BY <1>1, <1>2 DEF ClockInv

LEMMA IdleKeepsClockInv ==
  ASSUME ClockInv, UNCHANGED clockVars
  PROVE  ClockInv'
BY DEF ClockInv, ClockTypes, Readings, InTime, ShowsOneMoment, ShowsTheTime, NoonOrMidnight,
       Held, clockVars, chip, reading

LEMMA StepKeepsClockInv ==
  ASSUME ClockInv, [Next]_vars
  PROVE  ClockInv'
<1>1. CASE Tick
  BY <1>1, TickKeepsClockInv
<1>2. CASE Ask
  BY <1>2, AskKeepsClockInv
<1>3. CASE ReadClock
  BY <1>3, PollKeepsClockInv, ReadRegisterKeepsClockInv, ShowKeepsClockInv, DoneKeepsClockInv
     DEF ReadClock
<1>4. CASE UNCHANGED clockVars
  BY <1>4, IdleKeepsClockInv
<1> QED
  BY <1>1, <1>2, <1>3, <1>4 DEF Next, Kernel, DateOrTime, vars

LEMMA ClockInvHolds == Spec => []ClockInv
<1>1. Init => ClockInv
  BY ClockInvInit DEF Init
<1>2. ClockInv /\ [Next]_vars => ClockInv'
  BY StepKeepsClockInv
<1> QED
  BY <1>1, <1>2, PTL DEF Spec

\* The six registers rtc_read returns are those of one moment, on any clock that
\* leaves time for them between flag and update.
THEOREM ReadingIsNotTorn == Spec => []ShowsOneMoment
<1>1. ClockInv => ShowsOneMoment
  BY DEF ClockInv
<1> QED
  BY <1>1, ClockInvHolds, PTL

\* DATE and TIME show that moment in all four settings of register B, for every
\* date and every time of day but noon and midnight on a clock with 12 hours.
THEOREM TimeIsRight == Spec => []ShowsTheTime
<1>1. ClockInv => ShowsTheTime
  BY DEF ClockInv
<1> QED
  BY <1>1, ClockInvHolds, PTL

-----------------------------------------------------------------------------
(* Texts.  Each entry of the log but the first points to a slot of its     *)
(* own, which no later line is read into, and no later commit either.      *)

SlotsDiffer ==
  /\ Len(vcs_log) \in 1 .. LogSize /\ Len(vcs_log) = Len(commits) + 1
  /\ commits \in Seq(Texts)
  /\ vcs_log \in Seq([id : Nat, at : Places])
  /\ vcs_log[1].at = LiteralAt
  /\ \A i \in DOMAIN vcs_log : vcs_log[i].id = i /\ (i > 1 => vcs_log[i].at = Slot(i))

MemoryHolds ==
  /\ memory = [p \in Places |-> memory[p]]
  /\ memory[LiteralAt] = Initial
  /\ memory[PromptText] = copy_text(prompted, PromptCap)
  /\ \A i \in DOMAIN commits : memory[Slot(i + 1)] = copy_text(commits[i], MessageCap)

PackagesKept == Base \in installed /\ installed \subseteq Packages

\* What was listed stands on the screen until the next command.
ListingHolds ==
  listed # <<>> =>
    /\ Len(listed) = Len(commits) + 1
    /\ \A i \in DOMAIN listed : listed[i] = Committed(Len(listed) - i)

RepoInv == SlotsDiffer /\ MemoryHolds /\ PackagesKept /\ ListingHolds

LEMMA PlacesDiffer ==
  /\ LineAt # LiteralAt /\ LineAt # PromptText /\ LiteralAt # PromptText
  /\ \A i \in Int : /\ Slot(i) # LineAt /\ Slot(i) # LiteralAt /\ Slot(i) # PromptText
                    /\ \A j \in Int : Slot(i) = Slot(j) => i = j
  /\ LineAt \in Places /\ LiteralAt \in Places /\ PromptText \in Places
  /\ \A i \in 1 .. LogSize : Slot(i) \in Places
<1>1. LineAt # LiteralAt /\ LineAt # PromptText /\ LiteralAt # PromptText
  BY DEF LineAt, LiteralAt, PromptText
<1>2. ASSUME NEW i \in Int
      PROVE  /\ Slot(i) # LineAt /\ Slot(i) # LiteralAt /\ Slot(i) # PromptText
             /\ \A j \in Int : Slot(i) = Slot(j) => i = j
  BY DEF LineAt, LiteralAt, PromptText, Slot
<1> QED
  BY <1>1, <1>2 DEF Places

\* A line read into its buffer, and with it at most one other text.
LEMMA LineKeepsMemory ==
  ASSUME RepoInv, NEW text, Line(text), UNCHANGED <<commits, prompted>>
  PROVE  MemoryHolds'
<1>1. memory' = [memory EXCEPT ![LineAt] = text]
  BY DEF Line
<1>2. /\ memory' = [p \in Places |-> memory'[p]]
      /\ \A p \in Places : p # LineAt => memory'[p] = memory[p]
  BY <1>1, PlacesDiffer DEF RepoInv, MemoryHolds
<1>3. \A i \in DOMAIN commits : Slot(i + 1) \in Places /\ Slot(i + 1) # LineAt
  <2>1. \A i \in DOMAIN commits : i + 1 \in 1 .. LogSize
    BY RepoAssumption DEF RepoInv, SlotsDiffer
  <2> QED
    BY <2>1, PlacesDiffer
<1>4. memory'[LiteralAt] = Initial /\ memory'[PromptText] = copy_text(prompted, PromptCap)
  BY <1>2, PlacesDiffer DEF RepoInv, MemoryHolds
<1>5. \A i \in DOMAIN commits : memory'[Slot(i + 1)] = copy_text(commits[i], MessageCap)
  BY <1>2, <1>3 DEF RepoInv, MemoryHolds
<1> QED
  BY <1>2, <1>4, <1>5 DEF MemoryHolds

LEMMA PromptKeepsMemory ==
  ASSUME RepoInv, NEW text, NEW set,
         memory' = [memory EXCEPT ![LineAt] = text, ![PromptText] = copy_text(set, PromptCap)],
         prompted' = set, UNCHANGED commits
  PROVE  MemoryHolds'
<1>1. /\ memory' = [p \in Places |-> memory'[p]]
      /\ memory'[PromptText] = copy_text(set, PromptCap)
      /\ \A p \in Places : p # LineAt /\ p # PromptText => memory'[p] = memory[p]
  BY PlacesDiffer DEF RepoInv, MemoryHolds
<1>2. \A i \in DOMAIN commits :
        Slot(i + 1) \in Places /\ Slot(i + 1) # LineAt /\ Slot(i + 1) # PromptText
  <2>1. \A i \in DOMAIN commits : i + 1 \in 1 .. LogSize
    BY RepoAssumption DEF RepoInv, SlotsDiffer
  <2> QED
    BY <2>1, PlacesDiffer
<1>3. memory'[LiteralAt] = Initial
  BY <1>1, PlacesDiffer DEF RepoInv, MemoryHolds
<1>4. \A i \in DOMAIN commits : memory'[Slot(i + 1)] = copy_text(commits[i], MessageCap)
  BY <1>1, <1>2 DEF RepoInv, MemoryHolds
<1> QED
  BY <1>1, <1>3, <1>4 DEF MemoryHolds

LEMMA CommitKeepsRepoInv ==
  ASSUME RepoInv, NEW text \in Texts, Commit(text), listed' = <<>>
  PROVE  RepoInv'
<1> DEFINE n == Len(vcs_log)
           entry == [id |-> n + 1, at |-> Slot(n + 1)]
<1>1. /\ n \in 1 .. LogSize /\ n < LogSize /\ LogSize \in Nat
      /\ commits \in Seq(Texts) /\ Len(commits) = n - 1
      /\ vcs_log \in Seq([id : Nat, at : Places])
  BY RepoAssumption DEF RepoInv, SlotsDiffer, Commit, RoomInLog
<1>2. n + 1 \in 1 .. LogSize /\ Slot(n + 1) \in Places /\ entry \in [id : Nat, at : Places]
  BY <1>1, PlacesDiffer
<1>3. vcs_log' = Append(vcs_log, entry) /\ commits' = Append(commits, text)
      /\ installed' = installed /\ prompted' = prompted
  BY DEF Commit, MessageAt
<1>4. /\ vcs_log' \in Seq([id : Nat, at : Places]) /\ Len(vcs_log') = n + 1
      /\ vcs_log'[n + 1] = entry /\ \A i \in 1 .. n : vcs_log'[i] = vcs_log[i]
  <2> HIDE DEF entry
  <2> QED
    BY <1>1, <1>2, <1>3
<1>5. /\ commits' \in Seq(Texts) /\ Len(commits') = n
      /\ commits'[n] = text /\ \A i \in 1 .. n - 1 : commits'[i] = commits[i]
  BY <1>1, <1>3
<1>6. SlotsDiffer'
  <2>1. \A i \in 1 .. n : vcs_log[i].id = i /\ (i > 1 => vcs_log[i].at = Slot(i))
    BY <1>1 DEF RepoInv, SlotsDiffer
  <2>2. entry.id = n + 1 /\ entry.at = Slot(n + 1)
    OBVIOUS
  <2> HIDE DEF entry
  <2>3. ASSUME NEW i \in 1 .. n + 1
        PROVE  vcs_log'[i].id = i /\ (i > 1 => vcs_log'[i].at = Slot(i))
    <3>1. CASE i = n + 1
      BY <1>4, <2>2, <3>1
    <3>2. CASE i # n + 1
      <4>1. i \in 1 .. n
        BY <1>1, <3>2
      <4>2. vcs_log'[i] = vcs_log[i]
        BY <1>4, <4>1
      <4> QED BY <2>1, <4>1, <4>2
    <3> QED BY <3>1, <3>2
  <2>4. vcs_log'[1].at = LiteralAt
    BY <1>1, <1>4 DEF RepoInv, SlotsDiffer
  <2>5. DOMAIN vcs_log' = 1 .. n + 1 /\ Len(vcs_log') \in 1 .. LogSize
    BY <1>1, <1>2, <1>4
  <2> QED
    BY <1>1, <1>4, <1>5, <2>3, <2>4, <2>5 DEF SlotsDiffer
<1>7. MemoryHolds'
  <2>1. memory' = [memory EXCEPT ![LineAt] = text, ![Slot(n + 1)] = copy_text(text, MessageCap)]
    BY DEF Commit, MessageAt
  <2>2. /\ memory' = [p \in Places |-> memory'[p]]
        /\ memory'[Slot(n + 1)] = copy_text(text, MessageCap)
        /\ \A p \in Places : p # LineAt /\ p # Slot(n + 1) => memory'[p] = memory[p]
    BY <1>1, <1>2, <2>1, PlacesDiffer DEF RepoInv, MemoryHolds
  <2>3. memory'[LiteralAt] = Initial /\ memory'[PromptText] = copy_text(prompted, PromptCap)
    BY <1>1, <2>2, PlacesDiffer DEF RepoInv, MemoryHolds
  <2>4. ASSUME NEW i \in 1 .. n
        PROVE  memory'[Slot(i + 1)] = copy_text(commits'[i], MessageCap)
    <3>1. CASE i = n
      BY <1>5, <2>2, <3>1
    <3>2. CASE i < n
      <4>1. i \in DOMAIN commits /\ i + 1 \in 1 .. LogSize /\ i + 1 # n + 1 /\ i \in 1 .. n - 1
        BY <1>1, <3>2
      <4>2. Slot(i + 1) \in Places /\ Slot(i + 1) # LineAt /\ Slot(i + 1) # Slot(n + 1)
        BY <1>1, <4>1, PlacesDiffer
      <4>3. memory'[Slot(i + 1)] = memory[Slot(i + 1)]
        BY <2>2, <4>2
      <4>4. memory[Slot(i + 1)] = copy_text(commits[i], MessageCap)
        BY <4>1 DEF RepoInv, MemoryHolds
      <4> QED
        BY <1>5, <4>1, <4>3, <4>4
    <3> QED
      BY <1>1, <3>1, <3>2
  <2>5. DOMAIN commits' = 1 .. n
    BY <1>1, <1>5
  <2> QED
    BY <1>3, <2>2, <2>3, <2>4, <2>5 DEF MemoryHolds
<1>8. PackagesKept' /\ ListingHolds'
  BY <1>3 DEF RepoInv, PackagesKept, ListingHolds
<1> QED
  BY <1>6, <1>7, <1>8 DEF RepoInv

\* The i-th entry VCS LOG prints, of n, is that of commit n - i (the Initial one for
\* i = n), whose text is in the slot the entry points to.
LEMMA LogKeepsRepoInv ==
  ASSUME RepoInv, Log
  PROVE  RepoInv'
<1> DEFINE n == Len(vcs_log)
          shownLog == [i \in DOMAIN vcs_log |->
                        [id |-> vcs_log[n + 1 - i].id, msg |-> memory'[vcs_log[n + 1 - i].at]]]
<1>1. /\ Line(<<>>) /\ UNCHANGED <<vcs_log, installed, commits, prompted>>
      /\ listed' = shownLog
  BY DEF Log
<1>2. SlotsDiffer' /\ PackagesKept'
  BY <1>1 DEF RepoInv, SlotsDiffer, PackagesKept
<1>3. MemoryHolds'
  BY <1>1, LineKeepsMemory
<1>4. /\ n \in Nat /\ n = Len(commits) + 1 /\ DOMAIN vcs_log = 1 .. n
      /\ DOMAIN commits = 1 .. n - 1
  BY RepoAssumption DEF RepoInv, SlotsDiffer
<1>5. /\ Len(shownLog) = n /\ DOMAIN shownLog = 1 .. n
  BY <1>4
<1>6. ASSUME NEW i \in 1 .. n
      PROVE  shownLog[i] = Committed(n - i)
  <2> DEFINE k == n - i
  <2>1. k \in 0 .. n - 1 /\ n + 1 - i = k + 1 /\ k + 1 \in DOMAIN vcs_log
    BY <1>4
  <2>2. shownLog[i] = [id |-> vcs_log[k + 1].id, msg |-> memory'[vcs_log[k + 1].at]]
    BY <1>4, <2>1
  <2>3. vcs_log[k + 1].id = k + 1
    BY <2>1 DEF RepoInv, SlotsDiffer
  <2>4. memory'[vcs_log[k + 1].at] = IF k = 0 THEN Initial ELSE copy_text(commits[k], MessageCap)
    <3>1. CASE k = 0
      BY <1>1, <1>3, <3>1 DEF RepoInv, SlotsDiffer, MemoryHolds
    <3>2. CASE k # 0
      <4>1. k \in DOMAIN commits /\ k + 1 > 1
        BY <1>4, <2>1, <3>2
      <4>2. vcs_log[k + 1].at = Slot(k + 1)
        BY <2>1, <4>1 DEF RepoInv, SlotsDiffer
      <4> QED
        BY <1>1, <1>3, <3>2, <4>1, <4>2 DEF MemoryHolds
    <3> QED
      BY <3>1, <3>2
  <2> HIDE DEF k, shownLog
  <2> QED
    BY <2>2, <2>3, <2>4 DEF Committed, k
<1> HIDE DEF shownLog, n
<1>7. ListingHolds'
  BY <1>1, <1>4, <1>5, <1>6 DEF ListingHolds, Committed
<1> QED
  BY <1>2, <1>3, <1>7 DEF RepoInv

LEMMA RepoInvInit == RepoInit => RepoInv
<1> SUFFICES ASSUME RepoInit PROVE RepoInv
    OBVIOUS
<1>1. vcs_log = <<[id |-> 1, at |-> LiteralAt]>> /\ commits = <<>> /\ prompted = Default
      /\ installed = {Base}
  BY DEF RepoInit
<1>2. SlotsDiffer
  <2>1. [id |-> 1, at |-> LiteralAt] \in [id : Nat, at : Places]
    BY PlacesDiffer
  <2>2. /\ vcs_log \in Seq([id : Nat, at : Places]) /\ Len(vcs_log) = 1
        /\ vcs_log[1].at = LiteralAt /\ vcs_log[1].id = 1
    BY <1>1, <2>1
  <2>3. commits \in Seq(Texts) /\ Len(commits) = 0 /\ 1 \in 1 .. LogSize
    BY <1>1, RepoAssumption
  <2>4. DOMAIN vcs_log = {1}
    BY <2>2
  <2> QED
    BY <2>2, <2>3, <2>4 DEF SlotsDiffer
<1>3. MemoryHolds
  <2>1. memory = [p \in Places |-> CASE p = LiteralAt -> Initial [] p = PromptText -> Default
                                    [] OTHER -> <<>>]
    BY DEF RepoInit
  <2>2. memory[LiteralAt] = Initial /\ memory[PromptText] = Default
    BY <2>1, PlacesDiffer
  <2>3. copy_text(Default, PromptCap) = Default
    <3>1. Default \in Seq(Chars) /\ Len(Default) < PromptCap
      BY RepoAssumption
    <3>2. copy_text(Default, PromptCap) = SubSeq(Default, 1, Len(Default))
      BY <3>1 DEF copy_text
    <3> QED
      BY <3>1, <3>2, SubSeqFull
  <2>4. memory = [p \in Places |-> memory[p]]
    BY <2>1
  <2>5. DOMAIN commits = {}
    BY <1>1
  <2> QED
    BY <1>1, <2>2, <2>3, <2>4, <2>5, Zenon DEF MemoryHolds
<1>4. PackagesKept /\ ListingHolds
  BY <1>1, RepoAssumption DEF PackagesKept, ListingHolds, RepoInit
<1> QED
  BY <1>2, <1>3, <1>4 DEF RepoInv

LEMMA OtherCommandKeepsRepoInv ==
  ASSUME RepoInv, OtherCommand, listed' = <<>>
  PROVE  RepoInv'
<1>1. ASSUME NEW text, Line(text), UNCHANGED <<vcs_log, commits, prompted>>, PackagesKept'
      PROVE  RepoInv'
  <2>1. MemoryHolds'
    BY <1>1, LineKeepsMemory
  <2>2. SlotsDiffer' /\ ListingHolds'
    BY <1>1 DEF RepoInv, SlotsDiffer, ListingHolds
  <2> QED
    BY <1>1, <2>1, <2>2 DEF RepoInv
<1>2. ASSUME NEW text \in Texts, LogIsFull(text) \/ Inspect(text)
      PROVE  RepoInv'
  BY <1>1, <1>2 DEF LogIsFull, Inspect, RepoInv, PackagesKept
<1>3. ASSUME NEW p \in Packages, Package(p)
      PROVE  RepoInv'
  <2>1. PackagesKept'
    BY <1>3, RepoAssumption DEF Package, RepoInv, PackagesKept
  <2> QED
    BY <1>1, <1>3, <2>1 DEF Package
<1>4. ASSUME NEW text \in Texts, SetPrompt(text)
      PROVE  RepoInv'
  <2>1. MemoryHolds'
    BY <1>4, PromptKeepsMemory DEF SetPrompt
  <2> QED
    BY <1>4, <2>1 DEF SetPrompt, RepoInv, SlotsDiffer, PackagesKept, ListingHolds
<1>5. CASE ResetPrompt
  <2>1. MemoryHolds'
    BY <1>5, PromptKeepsMemory DEF ResetPrompt
  <2> QED
    BY <1>5, <2>1 DEF ResetPrompt, RepoInv, SlotsDiffer, PackagesKept, ListingHolds
<1> QED
  BY <1>2, <1>3, <1>4, <1>5, CommitKeepsRepoInv DEF OtherCommand

LEMMA StepKeepsRepoInv ==
  ASSUME RepoInv, [Next]_vars
  PROVE  RepoInv'
<1>1. CASE UNCHANGED repoVars
  BY <1>1 DEF RepoInv, SlotsDiffer, MemoryHolds, PackagesKept, ListingHolds, Committed, repoVars
<1>2. CASE DateOrTime
  <2>1. Line(<<>>) /\ listed' = <<>> /\ UNCHANGED <<vcs_log, installed, commits, prompted>>
    BY <1>2 DEF DateOrTime
  <2>2. MemoryHolds'
    BY <2>1, LineKeepsMemory
  <2> QED
    BY <2>1, <2>2 DEF RepoInv, SlotsDiffer, PackagesKept, ListingHolds
<1>3. CASE RepoCommand
  BY <1>3, LogKeepsRepoInv, OtherCommandKeepsRepoInv DEF RepoCommand
<1> QED
  BY <1>1, <1>2, <1>3 DEF Next, Kernel, vars

LEMMA RepoInvHolds == Spec => []RepoInv
<1>1. Init => RepoInv
  BY RepoInvInit DEF Init
<1>2. RepoInv /\ [Next]_vars => RepoInv'
  BY StepKeepsRepoInv
<1> QED
  BY <1>1, <1>2, PTL DEF Spec

\* VCS LOG lists every commit, the newest first, and it and the prompt show what was
\* given, for a log of any size and texts of any length: no entry points into a buffer
\* that a later line is read into.
THEOREM TextsStay == Spec => []TextsKept
<1>1. RepoInv => TextsKept
  BY DEF RepoInv, ListingHolds, MemoryHolds, TextsKept
<1> QED
  BY <1>1, RepoInvHolds, PTL

\* The log stays in its array, BASE stays installed, and the clock and the reading
\* of it keep to their states.
THEOREM TypeCorrect == Spec => []TypeOK
<1>1. ClockInv /\ RepoInv => TypeOK
  <2> SUFFICES ASSUME ClockInv, RepoInv PROVE TypeOK
      OBVIOUS
  <2>1. /\ now \in Moments /\ seen \in Moments
        /\ phase \in {"idle", "due", "updating"} /\ left \in 0 .. Lead + Quiet
        /\ register \in [binary : BOOLEAN, hours24 : BOOLEAN]
        /\ pc \in Pcs /\ asked \in {"DATE", "TIME"} /\ Len(raw) <= Len(Fields)
    BY Bounds DEF ClockInv, ClockTypes, Readings
  <2>2. DOMAIN memory = Places
    BY DEF RepoInv, MemoryHolds
  <2>3. Len(vcs_log) \in 1 .. LogSize /\ \A i \in DOMAIN vcs_log : vcs_log[i].at \in Places
    <3> DEFINE Entry == [id : Nat, at : Places]
    <3>1. vcs_log \in Seq(Entry)
      BY DEF RepoInv, SlotsDiffer
    <3>2. \A e \in Entry : e.at \in Places
      OBVIOUS
    <3> HIDE DEF Entry
    <3>3. \A i \in DOMAIN vcs_log : vcs_log[i] \in Entry
      BY <3>1
    <3>4. Len(vcs_log) \in 1 .. LogSize
      BY DEF RepoInv, SlotsDiffer
    <3> QED
      BY <3>2, <3>3, <3>4, Zenon
  <2>4. Base \in installed /\ installed \subseteq Packages /\ Len(listed) <= LogSize
    BY RepoAssumption DEF RepoInv, PackagesKept, SlotsDiffer, ListingHolds
  <2> QED
    BY <2>1, <2>2, <2>3, <2>4, Zenon DEF TypeOK
<1> QED
  BY <1>1, ClockInvHolds, RepoInvHolds, PTL
=============================================================================
