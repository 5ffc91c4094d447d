------------------------------- MODULE Clock -------------------------------
(***************************************************************************)
(* DATE and TIME (kernel/kernel.c): rtc_read waits for the update flag of  *)
(* the real-time clock and reads its registers one by one, each a read of  *)
(* the CMOS ports of its own, while the clock goes on.                     *)
(*                                                                         *)
(* The clock is external: before each update it raises the flag, and the   *)
(* update comes no earlier than Lead accesses later.  What the registers   *)
(* give during an update is the old or the new value.                      *)
(***************************************************************************)
EXTENDS Integers, Sequences

CONSTANTS
  Moments,    \* dates and times considered, as records
  Following,  \* the moment one second later
  Lead,       \* accesses that fit between flag and update (244 microseconds)
  Quiet       \* accesses that fit between an update and the next flag

\* The registers in the order rtc_read takes them, and the range of each.
Fields == <<"second", "minute", "hour", "day", "month", "year">>
Range24 == [second |-> 0 .. 59, minute |-> 0 .. 59, hour |-> 0 .. 23,
            day |-> 1 .. 31, month |-> 1 .. 12, year |-> 0 .. 99]

ASSUME ClockAssumption ==
  /\ \A m \in Moments : \A f \in DOMAIN Range24 : m[f] \in Range24[f]
  /\ Following \in [Moments -> Moments]
  /\ Lead \in Nat /\ Lead >= Len(Fields)
  /\ Quiet \in Nat \ {0}

VARIABLES
  now,       \* the moment in the registers
  phase,     \* idle, due (the flag is up) or updating
  left,      \* accesses that come before the next phase
  register,  \* register B: binary or BCD, 24 or 12 hours
  pc,        \* prompt, wait, read or shown
  asked,     \* DATE or TIME
  raw,       \* the registers read so far
  shown,     \* what has been printed
  seen       \* (history) the moment at which the flag was found down

chip == <<now, phase, left>>
reading == <<pc, asked, raw, shown, seen>>
clockVars == <<chip, register, reading>>

-----------------------------------------------------------------------------
(* The clock *)

bcd(v) == ((v \div 10) * 16) + (v % 10)
HourOf12(h) == IF h % 12 = 0 THEN 12 ELSE h % 12

\* What a register holds at moment m.
Held(f, m) ==
  LET form(v) == IF register.binary THEN v ELSE bcd(v)
  IN  IF f = "hour" /\ ~register.hours24
      THEN form(HourOf12(m.hour)) + (IF m.hour >= 12 THEN 128 ELSE 0)
      ELSE form(m[f])

Given(f) ==
  {Held(f, now)} \cup (IF phase = "updating" THEN {Held(f, Following[now])} ELSE {})

\* Register A: the flag above the divider and the rate, which are never 0.
RegisterA == (IF phase = "idle" THEN 0 ELSE 128) + 38

FlagRises == phase = "idle" /\ left = 0 /\ phase' = "due" /\ left' = Lead /\ UNCHANGED now
UpdateBegins == phase = "due" /\ left = 0 /\ phase' = "updating" /\ UNCHANGED <<left, now>>
UpdateEnds ==
  phase = "updating" /\ phase' = "idle" /\ left' = Quiet /\ now' = Following[now]

\* Time passes while the kernel does something else.
TimePasses == pc = "prompt" /\ left > 0 /\ left' = left - 1 /\ UNCHANGED <<now, phase>>

Tick ==
  /\ FlagRises \/ UpdateBegins \/ UpdateEnds \/ TimePasses
  /\ UNCHANGED <<register, reading>>

\* Each access of the kernel takes its time as well.
Access == left' = (IF left > 0 THEN left - 1 ELSE 0) /\ UNCHANGED <<now, phase, register>>

-----------------------------------------------------------------------------
(* rtc_read, cmd_date and cmd_time *)

Ask ==
  /\ pc = "prompt" /\ pc' = "wait" /\ asked' \in {"DATE", "TIME"}
  /\ UNCHANGED <<chip, register, raw, shown, seen>>

\* Mutants: the flag is not looked at; the whole of register A is taken for it.
NoWait == FALSE
WholeRegister == RegisterA # 0

Waits == RegisterA >= 128

Poll ==
  /\ pc = "wait" /\ Access
  /\ pc' = (IF Waits THEN "wait" ELSE "read") /\ seen' = now
  /\ UNCHANGED <<asked, raw, shown>>

ReadRegister ==
  /\ pc = "read" /\ Len(raw) < Len(Fields) /\ Access
  /\ \E v \in Given(Fields[Len(raw) + 1]) : raw' = Append(raw, v)
  /\ UNCHANGED <<pc, asked, shown, seen>>

bcd_to_bin(v) == (v % 16) + ((v \div 16) * 10)

\* Mutant: the bit for the afternoon is taken for a digit.
WholeHour(v) == bcd_to_bin(v)

BinHour(v) == (IF v >= 128 THEN 128 ELSE 0) + bcd_to_bin(v % 128)

Decoded(f, v) ==
  LET bin == IF register.binary THEN v ELSE IF f = "hour" THEN BinHour(v) ELSE bcd_to_bin(v)
  IN  IF f = "hour" /\ ~register.hours24 /\ bin >= 128 THEN ((bin % 128) + 12) % 24 ELSE bin

\* print_2 shows two digits.
print_2(v) == (((v \div 10) % 10) * 10) + (v % 10)

Printed == IF asked = "DATE" THEN {"year", "month", "day"} ELSE {"hour", "minute", "second"}

Show ==
  /\ pc = "read" /\ Len(raw) = Len(Fields) /\ Access
  /\ shown' = [f \in Printed |->
                 print_2(Decoded(f, raw[CHOOSE i \in DOMAIN Fields : Fields[i] = f]))]
  /\ pc' = "shown" /\ UNCHANGED <<asked, raw, seen>>

Nothing == [f \in {} |-> 0]

Done ==
  /\ pc = "shown" /\ pc' = "prompt"
  /\ raw' = <<>> /\ shown' = Nothing
  /\ UNCHANGED <<chip, register, asked, seen>>

ReadClock == Poll \/ ReadRegister \/ Show \/ Done

\* How register B was set up before the kernel started is not the kernel's.
ClockInit ==
  /\ now \in Moments /\ phase = "idle" /\ left = 0
  /\ register \in [binary : BOOLEAN, hours24 : BOOLEAN]
  /\ pc = "prompt" /\ asked = "DATE" /\ raw = <<>> /\ shown = Nothing /\ seen = now
=============================================================================
