---------------------------- MODULE ShellProofs ----------------------------
(***************************************************************************)
(* Theorems about Shell, for every disk, every RFS table, every user and   *)
(* every value of the bounds.                                              *)
(*                                                                         *)
(* The batch files that are live own disjoint slots of script_buffers only *)
(* because script_depth, which each new one takes for its slot, counts     *)
(* them.  So neither TypeOK nor BatchIntegrity is inductive: Inductive     *)
(* adds which slots are in use (SlotsInUse), what each activation knows of *)
(* its file (Loaded), and that an RXE file is always innermost (RxeOwn).   *)
(* Of that, the properties of the variable table need only that a script   *)
(* is at a line of words.                                                  *)
(***************************************************************************)
EXTENDS Shell, SequenceTheorems, FiniteSetTheorems, TLAPS

\* An activation has not run past its lines, and holds as many as were read.
Loaded(stk, dsk) ==
  \A i \in 1 .. Len(stk) :
    /\ stk[i].pos <= stk[i].len
    /\ stk[i].len <= BufCap
    /\ stk[i].kind # "rxe" => /\ stk[i].file \in DOMAIN dsk
                              /\ stk[i].len = LoadedLen(dsk[stk[i].file])
    /\ stk[i].kind = "rxe" => /\ stk[i].file \in DOMAIN RfsFiles
                              /\ RfsFiles[stk[i].file].magic
                              /\ stk[i].len = Len(RfsFiles[stk[i].file].text)

\* The live batch files use the slots 0 .. depth - 1, each one, the outermost the
\* lowest.
SlotsBelow(stk, depth) ==
  \A i \in 1 .. Len(stk) : stk[i].kind = "batch" => stk[i].slot \in 0 .. depth - 1
SlotsRise(stk) ==
  \A i, j \in 1 .. Len(stk) :
    (i < j /\ stk[i].kind = "batch" /\ stk[j].kind = "batch")
      => stk[i].slot < stk[j].slot
SlotsFull(stk, depth) ==
  \A b \in 0 .. depth - 1 :
    \E i \in 1 .. Len(stk) : stk[i].kind = "batch" /\ stk[i].slot = b
SlotsInUse(stk, depth) ==
  SlotsBelow(stk, depth) /\ SlotsRise(stk) /\ SlotsFull(stk, depth)

OwnLines(stk, dsk, bufs) ==
  \A i \in 1 .. Len(stk) : stk[i].kind = "batch" =>
    \A k \in 1 .. stk[i].len : bufs[stk[i].slot][k] = dsk[stk[i].file][k]

RxeOwn(stk, buf) ==
  \A i \in 1 .. Len(stk) : stk[i].kind = "rxe" =>
    /\ i = Len(stk)
    /\ \A k \in 1 .. stk[i].len : buf[k] = RfsFiles[stk[i].file].text[k]

StackOK(stk, dsk, depth, bufs, buf) ==
  /\ stk \in Seq(Frame)
  /\ Loaded(stk, dsk)
  /\ SlotsInUse(stk, depth)
  /\ OwnLines(stk, dsk, bufs)
  /\ RxeOwn(stk, buf)

Inductive ==
  /\ TypeOK
  /\ StackOK(stack, disk, script_depth, script_buffers, file_buffer)
  /\ machine = "boot" => stack = <<>>

-----------------------------------------------------------------------------
(* Arithmetic and the variable table. *)

\* Whatever is computed, a wrapped result is an int32_t.
LEMMA WrapInt32 == ASSUME NEW x \in Int PROVE Wrap(x) \in Int32
<1> DEFINE m == (x + HalfRange) % (2 * HalfRange)
<1>1. HalfRange \in Nat /\ HalfRange > 0  BY HalfRangeAssumption
<1>2. m \in 0 .. 2 * HalfRange - 1  BY <1>1, SMT
<1> QED  BY <1>1, <1>2 DEF Wrap, Int32

LEMMA MagnitudeNat ==
  ASSUME NEW x \in Int PROVE Magnitude(x) \in Nat /\ (x # 0 => Magnitude(x) > 0)
<1>1. CASE x < 0  BY <1>1 DEF Magnitude
<1>2. CASE ~(x < 0)  BY <1>2 DEF Magnitude
<1> QED  BY <1>1, <1>2

LEMMA ParsedInt32 ==
  ASSUME NEW args, IsInt32(args) PROVE ParseInt32(args) \in Int32
BY WrapInt32, WordAssumption DEF IsInt32, ParseInt32

\* Every nonempty set of natural numbers has a least element.
LEMMA LeastElement ==
  ASSUME NEW E \in SUBSET Nat, E # {}
  PROVE  \E i \in E : \A j \in E : i <= j
<1> DEFINE R == {ss \in Nat \X Nat : ss[1] < ss[2]}
<1>1. \E x \in E : \A y \in E : ~(<<y, x>> \in R)
  <2> HIDE DEF R
  <2>1. IsWellFoundedOn(R, Nat)  BY NatLessThanWellFounded DEF OpToRel, R
  <2> QED  BY <2>1, WFMin
<1>2. PICK x \in E : \A y \in E : ~(<<y, x>> \in R)  BY <1>1
<1>3. \A y \in E : ~(y < x)  BY <1>2
<1> QED  BY <1>3

\* A lookup that succeeds returns an entry of the table.
LEMMA FindInTable ==
  ASSUME NEW table \in VarTable, NEW name, Known(table, name)
  PROVE  FindVar(table, name) \in 1 .. Len(table)
<1>1. Entries(table, name) \in SUBSET (1 .. Len(table))  BY DEF Entries
<1>2. Len(table) \in Nat  BY DEF VarTable
<1>3. Entries(table, name) # {}  BY DEF Known
<1>4. \E i \in Entries(table, name) : \A j \in Entries(table, name) : i <= j
  BY <1>1, <1>2, <1>3, LeastElement
<1> QED  BY <1>1, <1>4 DEF FindVar

LEMMA EmptyTable == <<>> \in VarTable
<1>1. <<>> \in Seq(Entry) /\ Len(<<>>) = 0  OBVIOUS
<1> QED  BY <1>1, MaxVarsAssumption DEF VarTable

-----------------------------------------------------------------------------
(* Stacks of activations. *)

\* Loading a file leaves a buffer, whose first cells are the file's lines.
LEMMA LoadBuffer ==
  ASSUME NEW buf \in Buffer, NEW text \in Text, NEW max \in Nat
  PROVE  /\ Load(buf, text, max) \in Buffer
         /\ LoadedLen(text) \in Nat /\ LoadedLen(text) <= BufCap
         /\ LoadedLen(text) <= Len(text)
         /\ \A k \in 1 .. LoadedLen(text) : Load(buf, text, BufCap)[k] = text[k]
BY ShellAssumption DEF Load, Buffer, Text, LoadedLen, Least, Cell

\* Two stacks with the same activations, but for their progress.
SameCalls(s, t) ==
  /\ Len(t) = Len(s)
  /\ \A i \in 1 .. Len(s) :
       /\ t[i].kind = s[i].kind /\ t[i].file = s[i].file
       /\ t[i].len = s[i].len /\ t[i].slot = s[i].slot

LEMMA ProgressKeepsStack ==
  ASSUME NEW s \in Seq(Frame), NEW t \in Seq(Frame), SameCalls(s, t),
         NEW dsk, NEW depth \in Nat, NEW bufs, NEW buf,
         StackOK(s, dsk, depth, bufs, buf),
         \A i \in 1 .. Len(t) : t[i].pos <= t[i].len
  PROVE  StackOK(t, dsk, depth, bufs, buf)
<1> USE DEF SameCalls, StackOK
<1>1. Loaded(t, dsk)  BY DEF Loaded
<1>2. SlotsInUse(t, depth)
  <2>1. SlotsBelow(t, depth)  BY DEF SlotsInUse, SlotsBelow
  <2>2. SlotsRise(t)  BY DEF SlotsInUse, SlotsRise
  <2>3. SlotsFull(t, depth)
    <3>1. SUFFICES ASSUME NEW b \in 0 .. depth - 1
                   PROVE  \E i \in 1 .. Len(t) : t[i].kind = "batch" /\ t[i].slot = b
      BY DEF SlotsFull
    <3>2. PICK i \in 1 .. Len(s) : s[i].kind = "batch" /\ s[i].slot = b
      BY DEF SlotsInUse, SlotsFull
    <3>3. i \in 1 .. Len(t) /\ t[i].kind = "batch" /\ t[i].slot = b  BY <3>2
    <3> QED  BY <3>3
  <2> QED  BY <2>1, <2>2, <2>3 DEF SlotsInUse
<1>3. OwnLines(t, dsk, bufs)  BY DEF OwnLines
<1>4. RxeOwn(t, buf)  BY DEF RxeOwn
<1> QED  BY <1>1, <1>2, <1>3, <1>4

NoRxe(stk) == \A i \in 1 .. Len(stk) : stk[i].kind # "rxe"

\* A call of an RXE file or of a script goes on top, whatever its buffer becomes.
LEMMA PushOther ==
  ASSUME NEW s \in Seq(Frame), NEW f \in Frame,
         NEW dsk, NEW depth \in Nat, NEW bufs, NEW buf, NEW newbuf,
         StackOK(s, dsk, depth, bufs, buf), NoRxe(s),
         f.kind # "batch", f.pos <= f.len, f.len <= BufCap,
         f.kind # "rxe" => f.file \in DOMAIN dsk /\ f.len = LoadedLen(dsk[f.file]),
         f.kind = "rxe" => /\ f.file \in DOMAIN RfsFiles /\ RfsFiles[f.file].magic
                           /\ f.len = Len(RfsFiles[f.file].text)
                           /\ \A k \in 1 .. f.len :
                                newbuf[k] = RfsFiles[f.file].text[k]
  PROVE  StackOK(Append(s, f), dsk, depth, bufs, newbuf)
<1> DEFINE t == Append(s, f)
<1>1. t \in Seq(Frame) /\ Len(t) = Len(s) + 1 /\ t[Len(s) + 1] = f
      /\ \A i \in 1 .. Len(s) : t[i] = s[i]
  OBVIOUS
<1>2. Len(s) \in Nat  OBVIOUS
<1> HIDE DEF t
<1>3. Loaded(t, dsk)  BY <1>1, <1>2 DEF Loaded, StackOK
<1>4. SlotsInUse(t, depth)
  <2> USE <1>1, <1>2 DEF SlotsInUse, StackOK
  <2>1. SlotsBelow(t, depth)  BY DEF SlotsBelow
  <2>2. SlotsRise(t)  BY DEF SlotsRise
  <2>3. SlotsFull(t, depth)  BY DEF SlotsFull
  <2> QED  BY <2>1, <2>2, <2>3
<1>5. OwnLines(t, dsk, bufs)  BY <1>1, <1>2 DEF OwnLines, StackOK
<1>6. RxeOwn(t, newbuf)  BY <1>1, <1>2 DEF RxeOwn, NoRxe
<1> QED  BY <1>1, <1>3, <1>4, <1>5, <1>6 DEF StackOK, t

\* A call of a batch file takes the slot after those in use, and fills no other.
LEMMA PushBatch ==
  ASSUME NEW s \in Seq(Frame), NEW f \in Frame,
         NEW dsk, NEW depth \in Nat, NEW bufs, NEW newbufs, NEW buf,
         StackOK(s, dsk, depth, bufs, buf), NoRxe(s),
         f.kind = "batch", f.slot = depth, f.pos <= f.len, f.len <= BufCap,
         f.file \in DOMAIN dsk, f.len = LoadedLen(dsk[f.file]),
         \A b \in 0 .. depth - 1 : newbufs[b] = bufs[b],
         \A k \in 1 .. f.len : newbufs[depth][k] = dsk[f.file][k]
  PROVE  StackOK(Append(s, f), dsk, depth + 1, newbufs, buf)
<1> DEFINE t == Append(s, f)
<1>1. t \in Seq(Frame) /\ Len(t) = Len(s) + 1 /\ t[Len(s) + 1] = f
      /\ \A i \in 1 .. Len(s) : t[i] = s[i]
  OBVIOUS
<1>2. Len(s) \in Nat  OBVIOUS
<1> HIDE DEF t
<1>3. Loaded(t, dsk)  BY <1>1, <1>2 DEF Loaded, StackOK
<1>4. SlotsInUse(t, depth + 1)
  <2> USE <1>1, <1>2 DEF SlotsInUse, StackOK
  <2>1. SlotsBelow(t, depth + 1)  BY DEF SlotsBelow
  <2>2. SlotsRise(t)
    <3>1. ASSUME NEW i \in 1 .. Len(t), NEW j \in 1 .. Len(t), i < j,
                 t[i].kind = "batch", t[j].kind = "batch"
          PROVE  t[i].slot < t[j].slot
      <4>1. i \in 1 .. Len(s)  BY <3>1
      <4>2. t[i].slot \in 0 .. depth - 1  BY <3>1, <4>1 DEF SlotsBelow
      <4>3. CASE j = Len(s) + 1  BY <4>2, <4>3
      <4>4. CASE j # Len(s) + 1
        <5>1. j \in 1 .. Len(s)  BY <4>4
        <5>2. s[i].slot < s[j].slot  BY <3>1, <4>1, <5>1 DEF SlotsRise
        <5> QED  BY <4>1, <5>1, <5>2
      <4> QED  BY <4>3, <4>4
    <3> QED  BY <3>1 DEF SlotsRise
  <2>3. SlotsFull(t, depth + 1)
    <3> SUFFICES ASSUME NEW b \in 0 .. depth
                 PROVE  \E i \in 1 .. Len(t) : t[i].kind = "batch" /\ t[i].slot = b
      BY DEF SlotsFull
    <3>1. CASE b = depth  BY <3>1
    <3>2. CASE b # depth
      <4>1. b \in 0 .. depth - 1  BY <3>2
      <4>2. PICK i \in 1 .. Len(s) : s[i].kind = "batch" /\ s[i].slot = b
        BY <4>1 DEF SlotsFull
      <4> QED  BY <4>2
    <3> QED  BY <3>1, <3>2
  <2> QED  BY <2>1, <2>2, <2>3
<1>5. OwnLines(t, dsk, newbufs)  BY <1>1, <1>2 DEF OwnLines, SlotsInUse, SlotsBelow, StackOK
<1>6. RxeOwn(t, buf)  BY <1>1, <1>2 DEF RxeOwn, NoRxe
<1> QED  BY <1>1, <1>3, <1>4, <1>5, <1>6 DEF StackOK, t

\* A read that fails has filled a slot no live batch uses.
LEMMA SpareSlotFilled ==
  ASSUME NEW s, NEW dsk, NEW depth \in Nat, NEW bufs, NEW newbufs, NEW buf,
         StackOK(s, dsk, depth, bufs, buf),
         \A b \in 0 .. depth - 1 : newbufs[b] = bufs[b]
  PROVE  StackOK(s, dsk, depth, newbufs, buf)
BY DEF StackOK, SlotsInUse, SlotsBelow, OwnLines

\* A return gives up the innermost activation, and the last slot if that was its.
LEMMA PopStack ==
  ASSUME NEW s \in Seq(Frame), s # <<>>,
         NEW dsk, NEW depth \in Nat, NEW bufs, NEW buf,
         StackOK(s, dsk, depth, bufs, buf)
  PROVE  LET t == SubSeq(s, 1, Len(s) - 1)
             d == IF s[Len(s)].kind = "batch" THEN depth - 1 ELSE depth
         IN  d \in Nat /\ StackOK(t, dsk, d, bufs, buf)
<1> DEFINE t == SubSeq(s, 1, Len(s) - 1)
           d == IF s[Len(s)].kind = "batch" THEN depth - 1 ELSE depth
<1>1. Len(s) \in Nat /\ Len(s) > 0  OBVIOUS
<1>2. t \in Seq(Frame) /\ Len(t) = Len(s) - 1 /\ \A i \in 1 .. Len(t) : t[i] = s[i]
  <2>1. PICK n \in Nat : n = Len(s) /\ n > 0  BY <1>1
  <2>2. t \in Seq(Frame) /\ Len(t) = n - 1  BY <2>1
  <2>3. \A i \in 1 .. n - 1 : t[i] = s[i]  BY <2>1
  <2> QED  BY <2>1, <2>2, <2>3
<1>3. \A i \in 1 .. Len(s) : s[i].slot \in Nat
  <2> TAKE i \in 1 .. Len(s)
  <2>1. s[i] \in Frame  BY ElementOfSeq
  <2> QED  BY <2>1 DEF Frame
<1> USE DEF StackOK, SlotsInUse
<1>4. s[Len(s)].kind = "batch" => s[Len(s)].slot = depth - 1 /\ depth - 1 \in Nat
  <2> SUFFICES ASSUME s[Len(s)].kind = "batch"
               PROVE  s[Len(s)].slot = depth - 1 /\ depth - 1 \in Nat
    OBVIOUS
  <2>1. s[Len(s)].slot \in 0 .. depth - 1  BY <1>1 DEF SlotsBelow
  <2>2. PICK i \in 1 .. Len(s) : s[i].kind = "batch" /\ s[i].slot = depth - 1
    BY <2>1 DEF SlotsFull
  <2>3. i # Len(s) => s[i].slot < s[Len(s)].slot  BY <1>1, <2>2 DEF SlotsRise
  <2> QED  BY <1>3, <2>1, <2>2, <2>3
<1> HIDE DEF t
<1>5. d \in Nat  BY <1>4
<1>6. Loaded(t, dsk)  BY <1>1, <1>2 DEF Loaded
<1>7. SlotsInUse(t, d)
  <2>1. SlotsBelow(t, d)
    <3> SUFFICES ASSUME NEW i \in 1 .. Len(t), t[i].kind = "batch"
                 PROVE  t[i].slot \in 0 .. d - 1
      BY DEF SlotsBelow
    <3>1. i \in 1 .. Len(s) /\ i < Len(s) /\ t[i] = s[i]  BY <1>1, <1>2
    <3>2. s[i].slot \in 0 .. depth - 1  BY <3>1 DEF SlotsBelow
    <3>3. CASE s[Len(s)].kind = "batch"
      BY <1>1, <1>3, <1>4, <3>1, <3>2, <3>3 DEF SlotsRise
    <3>4. CASE s[Len(s)].kind # "batch"  BY <3>1, <3>2, <3>4
    <3> QED  BY <3>3, <3>4
  <2>2. SlotsRise(t)  BY <1>1, <1>2 DEF SlotsRise
  <2>3. SlotsFull(t, d)
    <3> SUFFICES ASSUME NEW b \in 0 .. d - 1
                 PROVE  \E i \in 1 .. Len(t) : t[i].kind = "batch" /\ t[i].slot = b
      BY DEF SlotsFull
    <3>1. PICK i \in 1 .. Len(s) : s[i].kind = "batch" /\ s[i].slot = b
      BY <1>4 DEF SlotsFull
    <3>2. i # Len(s)  BY <1>4, <3>1
    <3> QED  BY <1>1, <1>2, <3>1, <3>2
  <2> QED  BY <2>1, <2>2, <2>3
<1>8. OwnLines(t, dsk, bufs)  BY <1>1, <1>2 DEF OwnLines
<1>9. RxeOwn(t, buf)  BY <1>1, <1>2 DEF RxeOwn
<1> QED  BY <1>2, <1>5, <1>6, <1>7, <1>8, <1>9 DEF t

-----------------------------------------------------------------------------
(* Commands. *)

\* An activation is a frame that has not started.
LEMMA ActivationFrame ==
  ASSUME NEW kind \in Kind, NEW file \in Word, NEW len \in Nat, NEW slot \in Nat
  PROVE  LET f == Activation(kind, file, len, slot)
         IN  /\ f \in Frame
             /\ f.kind = kind /\ f.file = file /\ f.pos = 0 /\ f.len = len
             /\ f.slot = slot
BY DEF Activation, Frame

\* A file of the image is a text, and its name a word.
LEMMA FileIsText ==
  ASSUME TypeOK, NEW name \in DOMAIN disk
  PROVE  name \in Word /\ disk[name] \in Text
BY DEF TypeOK, IsImage

LEMMA StackTypes ==
  ASSUME TypeOK PROVE stack \in Seq(Frame) /\ script_depth \in Nat
BY ShellAssumption DEF TypeOK

LEMMA RunScriptFileKeeps ==
  ASSUME TypeOK, NEW name, NEW stk,
         StackOK(stk, disk, script_depth, script_buffers, file_buffer), NoRxe(stk),
         RunScriptFile(name, stk), disk' = disk, current' \in Line
  PROVE  Inductive'
<1> USE DEF buffers, Returns
<1>1. CASE NestingTooDeep /\ Returns(stk, "too deep") /\ UNCHANGED buffers
  BY <1>1 DEF Inductive, TypeOK, StackOK, Machines, Answers
<1>2. CASE /\ ~NestingTooDeep /\ name \notin DOMAIN disk
           /\ Returns(stk, "refused") /\ UNCHANGED buffers
  BY <1>2 DEF Inductive, TypeOK, StackOK, Machines, Answers
<1>3. CASE /\ ~NestingTooDeep /\ name \in DOMAIN disk
           /\ script_buffers' =
                [script_buffers EXCEPT ![NextSlot] = Load(@, disk[name], BufCap)]
           /\ UNCHANGED <<file_buffer, runtime_vars>>
           /\ \/ Returns(stk, "refused") /\ UNCHANGED script_depth
              \/ /\ script_depth' = script_depth + 1
                 /\ Returns(Append(stk, Activation("batch", name, LoadedLen(disk[name]),
                                                   NextSlot)), "ok")
  <2> DEFINE text == disk[name]
             f == Activation("batch", name, LoadedLen(text), script_depth)
             new == Load(script_buffers[script_depth], text, BufCap)
  <2>1. name \in Word /\ text \in Text  BY <1>3, FileIsText
  <2>2. script_depth \in Slot /\ script_depth + 1 \in 0 .. MaxScriptDepth
    BY <1>3, ShellAssumption DEF TypeOK, NestingTooDeep, Slot
  <2>3. /\ new \in Buffer
        /\ LoadedLen(text) \in Nat /\ LoadedLen(text) <= BufCap
        /\ \A k \in 1 .. LoadedLen(text) : new[k] = text[k]
    BY <2>1, <2>2, LoadBuffer, ShellAssumption DEF TypeOK
  <2>4. script_buffers' = [script_buffers EXCEPT ![script_depth] = new]
    BY <1>3 DEF NextSlot
  <2>5. /\ script_buffers' \in [Slot -> Buffer]
        /\ script_buffers'[script_depth] = new
        /\ \A b \in 0 .. script_depth - 1 : script_buffers'[b] = script_buffers[b]
    BY <2>2, <2>3, <2>4 DEF TypeOK, Slot
  <2>6. stk \in Seq(Frame) /\ script_depth \in Nat
    BY <2>2 DEF StackOK, Slot
  <2>7. CASE Returns(stk, "refused") /\ UNCHANGED script_depth
    <3>1. StackOK(stk, disk, script_depth, script_buffers', file_buffer)
      BY <2>5, <2>6, SpareSlotFilled
    <3> QED
      BY <1>3, <2>5, <2>6, <2>7, <3>1 DEF Inductive, TypeOK, Machines, Answers
  <2>8. CASE /\ script_depth' = script_depth + 1
             /\ Returns(Append(stk, Activation("batch", name, LoadedLen(disk[name]),
                                               NextSlot)), "ok")
    <3>1. /\ f \in Frame /\ f.kind = "batch" /\ f.file = name /\ f.pos = 0
          /\ f.len = LoadedLen(text) /\ f.slot = script_depth
      BY <2>1, <2>2, <2>3, ActivationFrame DEF Kind, Slot
    <3>2. stack' = Append(stk, f)  BY <2>8 DEF NextSlot
    <3> HIDE DEF f, new, text
    <3>3. f.pos <= f.len /\ f.len <= BufCap /\ f.file \in DOMAIN disk
          /\ f.len = LoadedLen(disk[f.file])
      BY <1>3, <2>3, <3>1 DEF text
    <3>4. \A k \in 1 .. f.len : script_buffers'[script_depth][k] = disk[f.file][k]
      BY <2>3, <2>5, <3>1 DEF text
    <3>5. StackOK(Append(stk, f), disk, script_depth + 1, script_buffers', file_buffer)
      BY <2>5, <2>6, <3>1, <3>3, <3>4, PushBatch
    <3>6. StackOK(stack', disk', script_depth', script_buffers', file_buffer')
      BY <1>3, <2>8, <3>2, <3>5
    <3>7. TypeOK'
      BY <1>3, <2>2, <2>5, <2>8, <3>6 DEF TypeOK, StackOK, Machines, Answers
    <3> QED  BY <2>8, <3>6, <3>7 DEF Inductive
  <2> QED  BY <1>3, <2>7, <2>8
<1> QED  BY <1>1, <1>2, <1>3 DEF RunScriptFile

LEMMA RunRxeFileKeeps ==
  ASSUME TypeOK, NEW args \in Seq(Word), NEW stk,
         StackOK(stk, disk, script_depth, script_buffers, file_buffer), NoRxe(stk),
         RunRxeFile(args, stk), disk' = disk, current' \in Line
  PROVE  Inductive'
<1> DEFINE found == Len(args) = 1 /\ args[1] \in DOMAIN RfsFiles
           file  == RfsFiles[args[1]]
           runs  == found /\ Len(file.text) <= BufCap /\ file.magic
           f     == Activation("rxe", args[1], Len(file.text), 0)
<1> USE DEF Returns
<1>1. /\ file_buffer' = IF found THEN Load(file_buffer, file.text, BufCap) ELSE file_buffer
      /\ UNCHANGED <<script_depth, script_buffers, runtime_vars>>
      /\ \/ ~runs /\ Returns(stk, "refused")
         \/ runs /\ Returns(Append(stk, f), "ok")
  BY DEF RunRxeFile
<1>2. found => /\ args[1] \in Word /\ file.text \in Text
               /\ Load(file_buffer, file.text, BufCap) \in Buffer
               /\ Len(file.text) \in Nat
               /\ \A k \in 1 .. LoadedLen(file.text) :
                    Load(file_buffer, file.text, BufCap)[k] = file.text[k]
  BY LoadBuffer, RfsAssumption, ShellAssumption DEF TypeOK, Text
<1>3. file_buffer' \in Buffer  BY <1>1, <1>2 DEF TypeOK
<1>4. stk \in Seq(Frame) /\ script_depth \in Nat  BY ShellAssumption DEF StackOK, TypeOK
<1>5. CASE ~runs /\ Returns(stk, "refused")
  <2>1. RxeOwn(stk, file_buffer')  BY DEF RxeOwn, NoRxe
  <2> QED  BY <1>1, <1>3, <1>5, <2>1 DEF Inductive, TypeOK, StackOK, Machines, Answers
<1>6. CASE runs /\ Returns(Append(stk, f), "ok")
  <2>1. /\ f \in Frame /\ f.kind = "rxe" /\ f.file = args[1] /\ f.pos = 0
        /\ f.len = Len(file.text)
    BY <1>2, <1>6, ActivationFrame DEF Kind
  <2>2. LoadedLen(file.text) = Len(file.text)
    BY <1>2, <1>6, ShellAssumption DEF LoadedLen, Least
  <2>3. \A k \in 1 .. f.len : file_buffer'[k] = RfsFiles[f.file].text[k]
    BY <1>1, <1>2, <1>6, <2>1, <2>2
  <2>4. f.pos <= f.len /\ f.len <= BufCap /\ f.file \in DOMAIN RfsFiles
        /\ RfsFiles[f.file].magic /\ f.len = Len(RfsFiles[f.file].text)
    BY <1>2, <1>6, <2>1
  <2> HIDE DEF f
  <2>5. StackOK(Append(stk, f), disk, script_depth, script_buffers, file_buffer')
    BY <1>4, <2>1, <2>3, <2>4, PushOther
  <2>6. Append(stk, f) \in Seq(Frame)  BY <2>5 DEF StackOK
  <2> QED  BY <1>1, <1>3, <1>6, <2>5, <2>6 DEF Inductive, TypeOK, Machines, Answers
<1> QED  BY <1>1, <1>5, <1>6

\* The state after a command that leaves the stack and the buffers of batch files
\* alone.
LEMMA PlainCommandKeeps ==
  ASSUME TypeOK, NEW stk,
         StackOK(stk, disk, script_depth, script_buffers, file_buffer),
         NoRxe(stk) \/ file_buffer' = file_buffer,
         file_buffer' \in Buffer, runtime_vars' \in VarTable,
         UNCHANGED <<disk, script_depth, script_buffers>>,
         stack' = stk, machine' \in Machines \ {"boot"}, answer' \in Answers, current' \in Line
  PROVE  Inductive'
<1>1. RxeOwn(stk, file_buffer')  BY DEF StackOK, RxeOwn, NoRxe
<1> QED  BY <1>1 DEF Inductive, TypeOK, StackOK

LEMMA ShowKeeps ==
  ASSUME TypeOK, NEW line \in Line, NEW stk,
         StackOK(stk, disk, script_depth, script_buffers, file_buffer), NoRxe(stk),
         Show(line, stk), disk' = disk, current' \in Line
  PROVE  Inductive'
<1>1. CASE /\ Found(Args(line)) /\ ~BadCount(line)
           /\ file_buffer' = Load(file_buffer, disk[line[2]], ShowLimit(line))
           /\ Returns(stk, IF ReadSucceeds(line[2], ShowLimit(line)) THEN "ok" ELSE "refused")
  <2>1. line # <<>> /\ Tail(line) # <<>> /\ Tail(line)[1] \in DOMAIN disk
    BY <1>1 DEF Found, Args
  <2>2. Tail(line)[1] = line[2] /\ Len(line) \in Nat /\ Len(line) >= 2
    BY <2>1 DEF Line
  <2>3. disk[line[2]] \in Text  BY <2>1, <2>2, FileIsText
  <2>4. ShowLimit(line) \in Nat
    <3>1. CASE Command(line) \notin DumpCommands
      BY <3>1, ShellAssumption DEF ShowLimit
    <3>2. CASE Command(line) \in DumpCommands /\ Len(line) = 2
      BY <3>2, ShellAssumption DEF ShowLimit, Least
    <3>3. CASE Command(line) \in DumpCommands /\ Len(line) > 2
      <4>1. IsInt32(Tail(Tail(line))) /\ IntOf[line[3]] >= 0
        BY <1>1, <3>3 DEF BadCount
      <4>2. Tail(Tail(line))[1] = line[3]  BY <3>3 DEF Line
      <4>3. IntOf[line[3]] \in Nat  BY <4>1, <4>2, WordAssumption DEF IsInt32
      <4> QED  BY <3>3, <4>3, ShellAssumption DEF ShowLimit, Least
    <3>4. PICK n \in Nat : n = Len(line) /\ n >= 2  BY <2>2
    <3>5. n = 2 \/ n > 2  BY <3>4
    <3> QED  BY <3>1, <3>2, <3>3, <3>4, <3>5
  <2>5. file_buffer' \in Buffer  BY <1>1, <2>3, <2>4, LoadBuffer DEF TypeOK
  <2> QED
    BY <1>1, <2>5, PlainCommandKeeps DEF Show, Returns, TypeOK, Machines, Answers
<1>2. CASE file_buffer' = file_buffer /\ Returns(stk, "refused")
  BY <1>2, PlainCommandKeeps DEF Show, Returns, TypeOK, Machines, Answers
<1> QED  BY <1>1, <1>2 DEF Show

LEMMA ScriptKeeps ==
  ASSUME TypeOK, NEW line \in Line, NEW stk,
         StackOK(stk, disk, script_depth, script_buffers, file_buffer), NoRxe(stk),
         Script(line, stk), disk' = disk, current' \in Line
  PROVE  Inductive'
<1> USE DEF Returns, buffers
<1>1. CASE Overflows(stk) /\ Overflow(stk)
  BY <1>1, PlainCommandKeeps DEF Overflow, TypeOK, Machines, Answers
<1>2. CASE Returns(stk, "refused") /\ UNCHANGED buffers
  BY <1>2, PlainCommandKeeps DEF TypeOK, Machines, Answers
<1>3. CASE /\ Found(Tail(line))
           /\ file_buffer' = Load(file_buffer, disk[line[2]], BufCap)
           /\ UNCHANGED <<script_depth, script_buffers>>
           /\ \/ Returns(stk, "refused") /\ UNCHANGED runtime_vars
              \/ /\ runtime_vars' = <<>>
                 /\ Returns(Append(stk, Activation("script", line[2],
                                                   LoadedLen(disk[line[2]]), 0)), "ok")
  <2> DEFINE text == disk[line[2]]
             f == Activation("script", line[2], LoadedLen(text), 0)
  <2>1. Tail(line)[1] = line[2] /\ line[2] \in DOMAIN disk
    BY <1>3 DEF Found, Script, Line
  <2>2. line[2] \in Word /\ text \in Text  BY <2>1, FileIsText
  <2>3. file_buffer' \in Buffer /\ LoadedLen(text) \in Nat /\ LoadedLen(text) <= BufCap
    BY <1>3, <2>2, LoadBuffer, ShellAssumption DEF TypeOK
  <2>4. CASE Returns(stk, "refused") /\ UNCHANGED runtime_vars
    BY <1>3, <2>3, <2>4, PlainCommandKeeps DEF TypeOK, Machines, Answers
  <2>5. CASE /\ runtime_vars' = <<>>
             /\ Returns(Append(stk, Activation("script", line[2],
                                               LoadedLen(disk[line[2]]), 0)), "ok")
    <3>1. /\ f \in Frame /\ f.kind = "script" /\ f.file = line[2] /\ f.pos = 0
          /\ f.len = LoadedLen(text)
      BY <2>2, <2>3, ActivationFrame DEF Kind
    <3>2. f.pos <= f.len /\ f.len <= BufCap /\ f.file \in DOMAIN disk
          /\ f.len = LoadedLen(disk[f.file])
      BY <2>1, <2>3, <3>1
    <3> HIDE DEF f
    <3>3. stk \in Seq(Frame) /\ script_depth \in Nat
      BY ShellAssumption DEF StackOK, TypeOK
    <3>4. StackOK(Append(stk, f), disk, script_depth, script_buffers, file_buffer')
      BY <3>1, <3>2, <3>3, PushOther
    <3>5. Append(stk, f) \in Seq(Frame)  BY <3>4 DEF StackOK
    <3>6. stack' = Append(stk, f)  BY <2>5 DEF f
    <3>7. runtime_vars' \in VarTable  BY <2>5, EmptyTable
    <3> QED
      BY <1>3, <2>3, <2>5, <3>4, <3>5, <3>6, <3>7 DEF Inductive, TypeOK, Machines, Answers
  <2> QED  BY <1>3, <2>4, <2>5
<1> QED  BY <1>1, <1>2, <1>3 DEF Script

\* Any command keeps the invariant, if an RXE file that calls it is inert.
LEMMA ExecuteKeeps ==
  ASSUME TypeOK, NEW line \in Line, NEW stk,
         StackOK(stk, disk, script_depth, script_buffers, file_buffer),
         NoRxe(stk) \/ Command(line) \notin ShowCommands \cup {"RUN", "SCRIPT"},
         Execute(line, stk), disk' = disk, current' \in Line
  PROVE  Inductive'
<1>1. CASE Show(line, stk)  BY <1>1, ShowKeeps DEF Show
<1>2. CASE Run(line, stk)
  <2>1. NoRxe(stk)  BY <1>2 DEF Run
  <2>2. CASE Overflows(stk) /\ Overflow(stk)
    BY <2>2, PlainCommandKeeps DEF Overflow, buffers, TypeOK, Machines, Answers
  <2>3. CASE RunRxeFile(Tail(line), stk)
    <3>1. Tail(line) \in Seq(Word)  BY <1>2 DEF Run, Line
    <3> QED  BY <2>1, <2>3, <3>1, RunRxeFileKeeps
  <2>4. CASE RunScriptFile(line[2], stk)  BY <2>1, <2>4, RunScriptFileKeeps
  <2> QED  BY <1>2, <2>2, <2>3, <2>4 DEF Run
<1>3. CASE Script(line, stk)  BY <1>3, ScriptKeeps DEF Script
<1>4. CASE Pause(line, stk) \/ Reboot(line, stk) \/ Other(line, stk)
  BY <1>4, PlainCommandKeeps
     DEF Pause, Reboot, Other, Returns, buffers, TypeOK, Machines, Answers
<1> QED  BY <1>1, <1>2, <1>3, <1>4 DEF Execute

-----------------------------------------------------------------------------
(* Lines. *)

\* The innermost activation takes a line; the others wait.
LEMMA AdvanceKeeps ==
  ASSUME Inductive, stack # <<>>, Top.pos < Top.len,
         NEW t \in Seq(Frame), Len(t) = Len(stack),
         \A i \in 1 .. Len(stack) : i # Len(stack) => t[i] = stack[i],
         LET u == t[Len(stack)]
         IN  /\ u.kind = Top.kind /\ u.file = Top.file /\ u.len = Top.len
             /\ u.slot = Top.slot /\ u.pos = Top.pos + 1
  PROVE  /\ SameCalls(stack, t)
         /\ StackOK(t, disk, script_depth, script_buffers, file_buffer)
         /\ Top.kind # "rxe" => NoRxe(t)
<1>1. PICK n \in Nat : n = Len(stack) /\ n > 0  BY DEF Inductive, TypeOK
<1>2. stack[n] \in Frame /\ Top = stack[n]  BY <1>1 DEF Inductive, TypeOK, Top
<1>3. t[n].pos <= t[n].len  BY <1>1, <1>2 DEF Frame
<1>4. SameCalls(stack, t)  BY <1>1, <1>2 DEF SameCalls
<1>5. \A i \in 1 .. Len(t) : t[i].pos <= t[i].len
  BY <1>1, <1>3 DEF Inductive, StackOK, Loaded
<1>6. script_depth \in Nat /\ stack \in Seq(Frame)
  BY ShellAssumption DEF Inductive, TypeOK
<1>7. StackOK(t, disk, script_depth, script_buffers, file_buffer)
  BY <1>4, <1>5, <1>6, ProgressKeepsStack DEF Inductive
<1>8. Top.kind # "rxe" => NoRxe(t)
  BY <1>1, <1>2, <1>4 DEF SameCalls, NoRxe, Inductive, StackOK, RxeOwn
<1> QED  BY <1>4, <1>7, <1>8

LEMMA AdvancedKeeps ==
  ASSUME Inductive, stack # <<>>, Top.pos < Top.len
  PROVE  /\ Top \in Frame /\ Top.pos + 1 \in 1 .. Top.len
         /\ Advanced \in Seq(Frame) /\ SameCalls(stack, Advanced)
         /\ Len(Advanced) = Len(stack)
         /\ \A i \in 1 .. Len(stack) : i # Len(stack) => Advanced[i] = stack[i]
         /\ Advanced[Len(stack)] = [Top EXCEPT !.pos = @ + 1]
         /\ StackOK(Advanced, disk, script_depth, script_buffers, file_buffer)
         /\ Top.kind # "rxe" => NoRxe(Advanced)
<1> DEFINE u == [Top EXCEPT !.pos = @ + 1]
<1>1. PICK n \in Nat : n = Len(stack) /\ n > 0  BY DEF Inductive, TypeOK
<1>2. Top = stack[n] /\ Top \in Frame  BY <1>1 DEF Inductive, TypeOK, Top
<1>3. /\ u \in Frame
      /\ u.kind = Top.kind /\ u.file = Top.file /\ u.len = Top.len
      /\ u.slot = Top.slot /\ u.pos = Top.pos + 1
  BY <1>2 DEF Frame
<1>4. Top.pos + 1 \in 1 .. Top.len  BY <1>2 DEF Frame
<1>5. Advanced = [stack EXCEPT ![n] = u]  BY <1>1, <1>2 DEF Advanced
<1> HIDE DEF u
<1>6. /\ Advanced \in Seq(Frame) /\ Len(Advanced) = n /\ Advanced[n] = u
      /\ \A i \in 1 .. n : i # n => Advanced[i] = stack[i]
  BY <1>1, <1>3, <1>5 DEF Inductive, TypeOK
<1>7. /\ SameCalls(stack, Advanced)
      /\ StackOK(Advanced, disk, script_depth, script_buffers, file_buffer)
      /\ Top.kind # "rxe" => NoRxe(Advanced)
  BY <1>1, <1>3, <1>6, AdvanceKeeps
<1> QED  BY <1>1, <1>2, <1>4, <1>6, <1>7 DEF u

LEMMA BatchLineKeeps == ASSUME Inductive, BatchLine PROVE Inductive'
<1> DEFINE line == script_buffers[Top.slot][Top.pos + 1]
<1>1. stack # <<>> /\ Top.pos < Top.len /\ Top.kind = "batch"
  BY DEF BatchLine, AtLine
<1>2. /\ Top \in Frame /\ Top.pos + 1 \in 1 .. Top.len
      /\ StackOK(Advanced, disk, script_depth, script_buffers, file_buffer)
      /\ NoRxe(Advanced)
  BY <1>1, AdvancedKeeps
<1>3. Top.slot \in Slot /\ Top.len <= BufCap
  <2>1. PICK n \in Nat : n = Len(stack) /\ n > 0  BY <1>1 DEF Inductive, TypeOK
  <2>2. Top = stack[n] /\ n \in 1 .. Len(stack)  BY <2>1 DEF Top
  <2>3. Top.slot \in 0 .. script_depth - 1 /\ Top.len <= BufCap
    BY <1>1, <2>2 DEF Inductive, StackOK, SlotsInUse, SlotsBelow, Loaded
  <2> QED  BY <2>3, ShellAssumption DEF Inductive, TypeOK, Slot
<1>4. line \in Line
  BY <1>2, <1>3, ShellAssumption DEF Inductive, TypeOK, Buffer, Cell, Frame
<1>5. current' = line /\ disk' = disk  BY DEF BatchLine
<1>6. CASE Skip
  BY <1>2, <1>4, <1>5, <1>6, PlainCommandKeeps
     DEF Skip, Returns, buffers, Inductive, TypeOK, Machines
<1>7. CASE Execute(line, Advanced)
  BY <1>2, <1>4, <1>5, <1>7, ExecuteKeeps DEF Inductive
<1> QED  BY <1>6, <1>7 DEF BatchLine

LEMMA RxeLineKeeps == ASSUME Inductive, RxeLine PROVE Inductive'
<1> DEFINE line == file_buffer[Top.pos + 1]
<1>1. stack # <<>> /\ Top.pos < Top.len /\ Top.kind = "rxe"
  BY DEF RxeLine, AtLine
<1>2. /\ Top \in Frame /\ Top.pos + 1 \in 1 .. Top.len
      /\ StackOK(Advanced, disk, script_depth, script_buffers, file_buffer)
  BY <1>1, AdvancedKeeps
<1>3. /\ Top.file \in DOMAIN RfsFiles /\ RfsFiles[Top.file].magic
      /\ Top.len = Len(RfsFiles[Top.file].text)
      /\ line = RfsFiles[Top.file].text[Top.pos + 1]
  <2>1. PICK n \in Nat : n = Len(stack) /\ n > 0  BY <1>1 DEF Inductive, TypeOK
  <2>2. Top = stack[n] /\ n \in 1 .. Len(stack)  BY <2>1 DEF Top
  <2> QED  BY <1>1, <1>2, <2>2 DEF Inductive, StackOK, Loaded, RxeOwn
<1>4. Command(line) \notin ShowCommands \cup {"RUN", "SCRIPT"}
  BY <1>2, <1>3, RxeInert
<1>5. line \in Line  BY <1>2, <1>3, RfsAssumption DEF Text
<1>6. current' = line /\ disk' = disk /\ Execute(line, Advanced)  BY DEF RxeLine
<1> QED  BY <1>2, <1>4, <1>5, <1>6, ExecuteKeeps DEF Inductive

\* A table with a new value in one entry is a table.
LEMMA UpdateTable ==
  ASSUME NEW table \in VarTable, NEW i \in 1 .. Len(table), NEW v \in Int32
  PROVE  /\ table[i].value \in Int32
         /\ [table EXCEPT ![i].value = v] \in VarTable
<1> DEFINE e == [table[i] EXCEPT !.value = v]
<1>1. table \in Seq(Entry)  BY DEF VarTable
<1>2. table[i] \in Entry  BY <1>1, ElementOfSeq
<1>3. e \in Entry /\ table[i].value \in Int32  BY <1>2 DEF Entry
<1> HIDE DEF e
<1>4. /\ [table EXCEPT ![i] = e] \in Seq(Entry)
      /\ Len([table EXCEPT ![i] = e]) = Len(table)
  BY <1>1, <1>3
<1>5. [table EXCEPT ![i].value = v] = [table EXCEPT ![i] = e]  BY DEF e
<1> QED  BY <1>3, <1>4, <1>5 DEF VarTable

LEMMA SetVarTable ==
  ASSUME NEW table \in VarTable, NEW name \in Word, NEW v \in Int32,
         CanSet(table, name)
  PROVE  SetVar(table, name, v) \in VarTable
<1>1. CASE Known(table, name)
  <2>1. FindVar(table, name) \in 1 .. Len(table)  BY <1>1, FindInTable
  <2>2. SetVar(table, name, v) = [table EXCEPT ![FindVar(table, name)].value = v]
    BY <1>1 DEF SetVar
  <2>3. [table EXCEPT ![FindVar(table, name)].value = v] \in VarTable
    BY <2>1, UpdateTable
  <2> QED  BY <2>2, <2>3
<1>2. CASE ~Known(table, name)
  <2> DEFINE e == [name |-> Stored[name], value |-> v]
  <2>1. e \in Entry  BY WordAssumption DEF Entry
  <2>2. table \in Seq(Entry) /\ Len(table) < MaxVars
    BY <1>2 DEF CanSet, VarTable
  <2> HIDE DEF e
  <2>3. PICK n \in Nat : n = Len(table)  BY <2>2
  <2>4. Append(table, e) \in Seq(Entry) /\ Len(Append(table, e)) = n + 1
    BY <2>1, <2>2, <2>3
  <2>5. Append(table, e) \in VarTable
    BY <2>2, <2>3, <2>4, MaxVarsAssumption DEF VarTable
  <2> QED  BY <1>2, <2>5 DEF SetVar, e
<1> QED  BY <1>1, <1>2

LEMMA ApplyVarTable ==
  ASSUME NEW table \in VarTable, NEW op \in Arithmetic, NEW name, Known(table, name),
         NEW v \in Int32, op = "DIV" => v # 0
  PROVE  ApplyVar(table, op, name, v) \in VarTable
<1> DEFINE i == FindVar(table, name)
           a == table[i].value
<1>1. i \in 1 .. Len(table)  BY FindInTable
<1>2. a \in Int32  BY <1>1, UpdateTable
<1>3. Int32 \subseteq Int  BY HalfRangeAssumption DEF Int32
<1>4. Applied(op, a, v) \in Int32
  <2>1. CASE op = "ADD"  BY <1>2, <1>3, <2>1, WrapInt32 DEF Applied
  <2>2. CASE op = "SUB"  BY <1>2, <1>3, <2>2, WrapInt32 DEF Applied
  <2>3. CASE op = "MUL"
    <3>1. \A x, y \in Int : x * y \in Int  OBVIOUS
    <3>2. a * v \in Int  BY <1>2, <1>3, <3>1
    <3> QED  BY <2>3, <3>2, WrapInt32 DEF Applied
  <2>4. CASE op = "DIV"
    <3>1. Quotient(a, v) \in Int
      <4>1. Magnitude(a) \in Nat /\ Magnitude(v) \in Nat /\ Magnitude(v) > 0
        <5>1. a \in Int /\ v \in Int /\ v # 0  BY <1>2, <1>3, <2>4
        <5> QED  BY <5>1, MagnitudeNat
      <4>2. Magnitude(a) \div Magnitude(v) \in Int  BY <4>1, SMT
      <4> QED  BY <4>2 DEF Quotient
    <3> QED  BY <2>4, <3>1, WrapInt32 DEF Applied
  <2> QED  BY <2>1, <2>2, <2>3, <2>4 DEF Arithmetic
<1> HIDE DEF i
<1>5. [table EXCEPT ![i].value = Applied(op, a, v)] \in VarTable
  BY <1>1, <1>4, UpdateTable
<1> QED  BY <1>5 DEF ApplyVar, i

LEMMA ScriptLineKeeps == ASSUME Inductive, ScriptLine PROVE Inductive'
<1> DEFINE line == file_buffer[Top.pos + 1]
<1>1. stack # <<>> /\ Top.pos < Top.len /\ Top.kind = "script" /\ machine = "run"
  BY DEF ScriptLine, AtLine
<1>2. /\ Top \in Frame /\ Top.pos + 1 \in 1 .. Top.len /\ Advanced \in Seq(Frame)
      /\ StackOK(Advanced, disk, script_depth, script_buffers, file_buffer)
      /\ NoRxe(Advanced)
  BY <1>1, AdvancedKeeps
<1>3. PICK n \in Nat : n = Len(stack) /\ n > 0 /\ Top = stack[n]
  BY <1>1 DEF Inductive, TypeOK, Top
<1>4. line \in Line
  <2>1. Top.len <= BufCap  BY <1>3 DEF Inductive, StackOK, Loaded
  <2> QED  BY <1>2, <2>1, ShellAssumption DEF Inductive, TypeOK, Buffer, Cell, Frame
<1>5. current' = line /\ disk' = disk  BY DEF ScriptLine
<1> HIDE DEF line
<1> USE DEF Returns, buffers, Machines, Answers
<1>6. CASE Skip \/ PrintVar(line)
  BY <1>2, <1>4, <1>5, <1>6, PlainCommandKeeps
     DEF Skip, PrintVar, Inductive, TypeOK
<1>7. CASE Abort(line)
  <2>1. StackOK(Below, disk, script_depth, script_buffers, file_buffer)
    <3>1. stack \in Seq(Frame) /\ script_depth \in Nat
      BY StackTypes DEF Inductive
    <3>2. stack[Len(stack)].kind # "batch"  BY <1>1 DEF Top
    <3> QED  BY <1>1, <3>1, <3>2, PopStack DEF Below, Inductive
  <2> QED
    BY <1>4, <1>5, <1>7, <2>1 DEF Abort, StackOK, Inductive, TypeOK
<1>8. CASE Set(line)
  <2>1. line[2] \in Word /\ ParseInt32(Operand(line)) \in Int32
    BY <1>4, <1>8, ParsedInt32 DEF Set, Acceptable, Line
  <2>2. runtime_vars' \in VarTable
    BY <1>8, <2>1, SetVarTable DEF Set, Acceptable, Inductive, TypeOK
  <2> QED
    BY <1>2, <1>4, <1>5, <1>8, <2>2, PlainCommandKeeps DEF Set, Inductive, TypeOK
<1>9. CASE Apply(line)
  <2>1. ParseInt32(Operand(line)) \in Int32
    BY <1>9, ParsedInt32 DEF Apply, Acceptable
  <2>2. runtime_vars' \in VarTable
    BY <1>9, <2>1, ApplyVarTable DEF Apply, Acceptable, Inductive, TypeOK
  <2> QED
    BY <1>2, <1>4, <1>5, <1>9, <2>2, PlainCommandKeeps DEF Apply, Inductive, TypeOK
<1>10. CASE Trap(line)
  BY <1>2, <1>4, <1>5, <1>10, PlainCommandKeeps DEF Trap, Inductive, TypeOK
<1>11. CASE Command(line) = "RUN" /\ Execute(Tail(line), Advanced)
  <2>1. Tail(line) \in Line  BY <1>4, <1>11 DEF Command, Line
  <2> QED  BY <1>2, <1>4, <1>5, <1>11, <2>1, ExecuteKeeps DEF Inductive
<1> QED  BY <1>6, <1>7, <1>8, <1>9, <1>10, <1>11 DEF ScriptLine, line

LEMMA ReturnKeeps == ASSUME Inductive, Return PROVE Inductive'
<1>1. stack \in Seq(Frame) /\ script_depth \in Nat /\ stack # <<>>
  BY ShellAssumption DEF Return, Inductive, TypeOK
<1>2. /\ script_depth' \in Nat
      /\ StackOK(Below, disk, script_depth', script_buffers, file_buffer)
  BY <1>1, PopStack DEF Return, DepthAfterReturn, Below, Top, Inductive
<1>3. script_depth' \in 0 .. MaxScriptDepth
  BY <1>2, ShellAssumption DEF Return, DepthAfterReturn, Inductive, TypeOK
<1> QED  BY <1>2, <1>3 DEF Return, StackOK, Inductive, TypeOK

LEMMA EmptyStackOK ==
  ASSUME NEW dsk, NEW bufs, NEW buf PROVE StackOK(<<>>, dsk, 0, bufs, buf)
BY DEF StackOK, Loaded, SlotsInUse, SlotsBelow, SlotsRise, SlotsFull, OwnLines, RxeOwn

LEMMA BlankBuffer == Blank \in Buffer
BY ShellAssumption DEF Blank, Buffer
-----------------------------------------------------------------------------
(* Theorems. *)

LEMMA InitInductive == Init => Inductive
<1> SUFFICES ASSUME Init PROVE Inductive  OBVIOUS
<1>1. TypeOK
  BY BlankBuffer, EmptyTable, ShellAssumption, DiskAssumption DEF Init, TypeOK, Machines, Answers
<1> QED  BY <1>1, EmptyStackOK DEF Init, Inductive

LEMMA NextInductive == Inductive /\ [Next]_vars => Inductive'
<1> SUFFICES ASSUME Inductive, [Next]_vars PROVE Inductive'  OBVIOUS
<1>1. CASE RunAutoexec
  <2>1. stack = <<>> /\ NoRxe(<<>>)  BY <1>1 DEF RunAutoexec, Inductive, NoRxe
  <2>2. current' \in Line  BY <1>1, ShellAssumption DEF RunAutoexec
  <2> QED  BY <1>1, <2>1, <2>2, RunScriptFileKeeps DEF RunAutoexec, Inductive
<1>2. CASE BatchLine  BY <1>2, BatchLineKeeps
<1>3. CASE RxeLine  BY <1>3, RxeLineKeeps
<1>4. CASE ScriptLine  BY <1>4, ScriptLineKeeps
<1>5. CASE Return  BY <1>5, ReturnKeeps
<1>6. CASE Restart
  <2>1. script_buffers' \in [Slot -> Buffer] /\ file_buffer' \in Buffer
    BY <1>6, BlankBuffer DEF Restart, Cleared
  <2>2. runtime_vars' \in VarTable /\ current' \in Line /\ script_depth' = 0
    BY <1>6, EmptyTable, ShellAssumption DEF Restart, Cleared
  <2>3. stack' \in Seq(Frame) /\ machine' \in Machines /\ answer' \in Answers
    BY <1>6 DEF Restart, Cleared, Machines, Answers
  <2>4. TypeOK'
    BY <1>6, <2>1, <2>2, <2>3, ShellAssumption DEF Restart, Inductive, TypeOK
  <2> QED  BY <1>6, <2>4, EmptyStackOK DEF Restart, Cleared, Inductive
<1>7. CASE ReadCommand
  <2>1. PICK line \in UserLines : current' = line /\ Execute(line, <<>>)
    BY <1>7 DEF ReadCommand
  <2>2. line \in Line /\ NoRxe(<<>>) /\ stack = <<>> /\ disk' = disk
    BY <1>7, ShellAssumption DEF ReadCommand, AtPrompt, NoRxe
  <2> QED  BY <2>1, <2>2, ExecuteKeeps DEF Inductive
<1>8. CASE PressEnter
  BY <1>8 DEF PressEnter, Inductive, TypeOK, Machines
<1>9. CASE UNCHANGED vars
  BY <1>9 DEF vars, Inductive, TypeOK
<1> QED
  BY <1>1, <1>2, <1>3, <1>4, <1>5, <1>6, <1>7, <1>8, <1>9 DEF Next, Kernel, User

LEMMA InductiveHolds == Spec => []Inductive
BY InitInductive, NextInductive, PTL DEF Spec

\* Every reachable state has its type; in particular script_depth neither drops
\* below 0 nor passes MAX_SCRIPT_DEPTH, so every slot lies within script_buffers.
THEOREM TypeCorrect == Spec => []TypeOK
<1>1. Inductive => TypeOK  BY DEF Inductive
<1> QED  BY <1>1, InductiveHolds, PTL

\* However batch files, RXE files and scripts nest, each batch file keeps its lines.
THEOREM BatchFilesKeepTheirLines == Spec => []BatchIntegrity
<1>1. Inductive => BatchIntegrity
  BY DEF Inductive, StackOK, OwnLines, BatchIntegrity, Live
<1> QED  BY <1>1, InductiveHolds, PTL

\* An RXE file keeps its lines, because none of them uses file_buffer (RxeInert).
THEOREM RxeFilesKeepTheirLines == Spec => []RxeIntegrity
<1>1. Inductive => RxeIntegrity
  BY DEF Inductive, StackOK, RxeOwn, RxeIntegrity, Live
<1> QED  BY <1>1, InductiveHolds, PTL

\* The live batch files are as many as the slots in use.
LEMMA CountBatchFiles ==
  ASSUME Inductive PROVE script_depth = Cardinality(Live("batch"))
<1> DEFINE B == Live("batch")
           S == 0 .. script_depth - 1
           f == [i \in B |-> stack[i].slot]
<1>1. stack \in Seq(Frame) /\ script_depth \in Nat  BY StackTypes DEF Inductive
<1>2. B \subseteq 1 .. Len(stack) /\ \A i \in B : stack[i].kind = "batch"
  BY DEF Live
<1>3. f \in [B -> S]
  BY <1>2 DEF Inductive, StackOK, SlotsInUse, SlotsBelow
<1>4. ASSUME NEW i \in B, NEW j \in B, f[i] = f[j] PROVE i = j
  <2>1. i \in Nat /\ j \in Nat  BY <1>1, <1>2
  <2>2. stack[i].slot \in Nat /\ stack[j].slot \in Nat  BY <1>1, <1>3
  <2>3. ~(i < j)  BY <1>2, <1>4, <2>2 DEF Inductive, StackOK, SlotsInUse, SlotsRise
  <2>4. ~(j < i)  BY <1>2, <1>4, <2>2 DEF Inductive, StackOK, SlotsInUse, SlotsRise
  <2> QED  BY <2>1, <2>3, <2>4
<1>5. \A b \in S : \E i \in B : f[i] = b
  BY DEF Live, Inductive, StackOK, SlotsInUse, SlotsFull
<1>6. f \in Bijection(B, S)
  <2> HIDE DEF f, B, S
  <2> QED  BY <1>3, <1>4, <1>5 DEF Bijection, Injection, Surjection, IsInjective
<1>7. IsFiniteSet(B)
  <2>1. IsFiniteSet(1 .. Len(stack))
    <3>1. 1 \in Int /\ Len(stack) \in Int  BY <1>1
    <3> QED  BY <3>1, FS_Interval
  <2> QED  BY <1>2, <2>1, FS_Subset
<1>8. Cardinality(B) = Cardinality(S)
  BY <1>6, <1>7, FS_Bijection DEF ExistsBijection
<1>9. Cardinality(S) = script_depth
  <2>1. 0 \in Int /\ script_depth - 1 \in Int  BY <1>1
  <2>2. Cardinality(S) = IF 0 > script_depth - 1 THEN 0 ELSE script_depth - 1 - 0 + 1
    BY <2>1, FS_Interval
  <2> QED  BY <1>1, <2>2
<1> QED  BY <1>8, <1>9

\* script_depth is exactly the number of batch files in progress, so the check in
\* run_script_file refuses a batch file only when MAX_SCRIPT_DEPTH of them are.
THEOREM DepthCountsBatchFiles == Spec => []DepthMatches
<1>1. Inductive => DepthMatches  BY CountBatchFiles DEF DepthMatches
<1> QED  BY <1>1, InductiveHolds, PTL
-----------------------------------------------------------------------------
(* What SET and the arithmetic instructions do to the variable table.       *)

\* A lookup returns the first entry of the name, and nothing else is the first.
LEMMA FindIsFirst ==
  ASSUME NEW table \in VarTable, NEW name, Known(table, name)
  PROVE  /\ FindVar(table, name) \in Entries(table, name)
         /\ \A j \in Entries(table, name) : FindVar(table, name) <= j
<1>1. Entries(table, name) \in SUBSET (1 .. Len(table))  BY DEF Entries
<1>2. Len(table) \in Nat  BY DEF VarTable
<1>3. \E i \in Entries(table, name) : \A j \in Entries(table, name) : i <= j
  BY <1>1, <1>2, LeastElement DEF Known
<1> QED  BY <1>3 DEF FindVar

LEMMA FirstIsFound ==
  ASSUME NEW table \in VarTable, NEW name, NEW i \in Entries(table, name),
         \A j \in Entries(table, name) : i <= j
  PROVE  Known(table, name) /\ FindVar(table, name) = i
<1>1. Known(table, name)  BY DEF Known
<1>2. FindVar(table, name) <= i /\ i <= FindVar(table, name)
      /\ FindVar(table, name) \in Entries(table, name)
  BY <1>1, FindIsFirst
<1>3. Entries(table, name) \subseteq Nat  BY DEF Entries, VarTable
<1> QED  BY <1>1, <1>2, <1>3

\* The table new is the table old but for the value of entry i.
OnlyValue(old, new, i) ==
  /\ Len(new) = Len(old)
  /\ \A j \in 1 .. Len(old) : new[j].name = old[j].name /\ (j # i => new[j] = old[j])

\* Writing the entry of one name leaves the lookups of every name where they were.
LEMMA WriteKeepsLookups ==
  ASSUME NEW old \in VarTable, NEW new \in VarTable,
         NEW name, Known(old, name), OnlyValue(old, new, FindVar(old, name))
  PROVE  /\ Known(new, name) /\ FindVar(new, name) = FindVar(old, name)
         /\ \A other \in Word \ {name} : Known(old, other) =>
              Known(new, other) /\ ValueOf(new, other) = ValueOf(old, other)
<1>1. \A w : Entries(new, w) = Entries(old, w)  BY DEF Entries, OnlyValue
<1>2. \A w : (Known(old, w) => Known(new, w)) /\ FindVar(new, w) = FindVar(old, w)
  BY <1>1 DEF Known, FindVar
<1>3. ASSUME NEW other \in Word \ {name}, Known(old, other)
      PROVE  ValueOf(new, other) = ValueOf(old, other)
  <2>1. /\ FindVar(old, other) \in Entries(old, other)
        /\ FindVar(old, name) \in Entries(old, name)
    BY <1>3, FindIsFirst
  <2>2. FindVar(old, other) # FindVar(old, name)  BY <2>1 DEF Entries
  <2>3. new[FindVar(old, other)] = old[FindVar(old, other)]
    BY <2>1, <2>2 DEF OnlyValue, Entries
  <2> QED  BY <1>2, <2>3 DEF ValueOf
<1> QED  BY <1>2, <1>3

LEMMA WriteOnlyValue ==
  ASSUME NEW table \in VarTable, NEW i \in 1 .. Len(table), NEW v \in Int32
  PROVE  LET new == [table EXCEPT ![i].value = v]
         IN  new \in VarTable /\ OnlyValue(table, new, i) /\ new[i].value = v
<1> DEFINE e == [table[i] EXCEPT !.value = v]
           new == [table EXCEPT ![i].value = v]
<1>1. table \in Seq(Entry)  BY DEF VarTable
<1>2. table[i] \in Entry  BY <1>1, ElementOfSeq
<1>3. e \in Entry /\ e.name = table[i].name /\ e.value = v  BY <1>2 DEF Entry
<1> HIDE DEF e
<1>4. new = [table EXCEPT ![i] = e]  BY DEF e
<1>5. new \in VarTable  BY UpdateTable
<1> HIDE DEF new
<1>6. /\ Len(new) = Len(table) /\ new[i] = e
      /\ \A j \in 1 .. Len(table) : j # i => new[j] = table[j]
  BY <1>1, <1>4
<1> QED  BY <1>3, <1>5, <1>6 DEF OnlyValue, new

\* A new entry goes after those of every known name.
LEMMA AppendKeepsLookups ==
  ASSUME NEW table \in VarTable, NEW e \in Entry, Len(table) < MaxVars
  PROVE  LET new == Append(table, e)
         IN  /\ new \in VarTable
             /\ \A w : Known(table, w) =>
                  Known(new, w) /\ ValueOf(new, w) = ValueOf(table, w)
             /\ ~Known(table, e.name) =>
                  Known(new, e.name) /\ ValueOf(new, e.name) = e.value
<1> DEFINE new == Append(table, e)
<1>1. PICK n \in Nat : n = Len(table)  BY DEF VarTable
<1>2. /\ new \in Seq(Entry) /\ Len(new) = n + 1 /\ new[n + 1] = e
      /\ \A j \in 1 .. n : new[j] = table[j]
  BY <1>1 DEF VarTable
<1>3. new \in VarTable  BY <1>1, <1>2, MaxVarsAssumption DEF VarTable
<1> HIDE DEF new
<1>4. ASSUME NEW w, Known(table, w)
      PROVE  Known(new, w) /\ ValueOf(new, w) = ValueOf(table, w)
  <2>1. PICK i \in Entries(table, w) :
          i = FindVar(table, w) /\ \A j \in Entries(table, w) : i <= j
    BY <1>4, FindIsFirst
  <2>2. i \in 1 .. n /\ table[i].name = w  BY <1>1, <2>1 DEF Entries
  <2>3. i \in Entries(new, w)  BY <1>2, <2>2 DEF Entries
  <2>4. ASSUME NEW j \in Entries(new, w) PROVE i <= j
    <3>1. j \in 1 .. n + 1 /\ new[j].name = w  BY <1>2, <2>4 DEF Entries
    <3>2. CASE j = n + 1  BY <2>2, <3>2
    <3>3. CASE j \in 1 .. n
      <4>1. j \in Entries(table, w)  BY <1>1, <1>2, <3>1, <3>3 DEF Entries
      <4> QED  BY <2>1, <4>1
    <3> QED  BY <3>1, <3>2, <3>3
  <2>5. Known(new, w) /\ FindVar(new, w) = i  BY <1>3, <2>3, <2>4, FirstIsFound
  <2> QED  BY <1>2, <2>1, <2>2, <2>5 DEF ValueOf
<1>5. ASSUME ~Known(table, e.name)
      PROVE  Known(new, e.name) /\ ValueOf(new, e.name) = e.value
  <2>1. n + 1 \in Entries(new, e.name)  BY <1>2 DEF Entries
  <2>2. ASSUME NEW j \in Entries(new, e.name) PROVE j = n + 1
    <3>1. j \in 1 .. n + 1 /\ new[j].name = e.name  BY <1>2, <2>2 DEF Entries
    <3>2. j \notin 1 .. n
      <4>1. Entries(table, e.name) = {}  BY <1>5 DEF Known
      <4> QED  BY <1>1, <1>2, <3>1, <4>1 DEF Entries
    <3> QED  BY <3>1, <3>2
  <2>3. FindVar(new, e.name) = n + 1 /\ Known(new, e.name)
    BY <1>3, <2>1, <2>2, FirstIsFound
  <2> QED  BY <1>2, <2>3 DEF ValueOf
<1> QED  BY <1>3, <1>4, <1>5 DEF new

\* SET reads back, unless the name was cut, and disturbs no other variable.
LEMMA SetVarReadsBack ==
  ASSUME NEW table \in VarTable, NEW name \in Word, NEW v \in Int32,
         CanSet(table, name)
  PROVE  LET new == SetVar(table, name, v)
         IN  /\ Stored[name] = name => Known(new, name) /\ ValueOf(new, name) = v
             /\ \A other \in Word \ {name} : Known(table, other) =>
                  Known(new, other) /\ ValueOf(new, other) = ValueOf(table, other)
<1>1. CASE Known(table, name)
  <2> DEFINE i == FindVar(table, name)
             new == [table EXCEPT ![i].value = v]
  <2>1. i \in 1 .. Len(table)  BY <1>1, FindInTable
  <2>2. SetVar(table, name, v) = new  BY <1>1 DEF SetVar
  <2>3. new \in VarTable /\ OnlyValue(table, new, i) /\ new[i].value = v
    BY <2>1, WriteOnlyValue
  <2> HIDE DEF new
  <2>4. /\ Known(new, name) /\ FindVar(new, name) = i
        /\ \A other \in Word \ {name} : Known(table, other) =>
             Known(new, other) /\ ValueOf(new, other) = ValueOf(table, other)
    BY <1>1, <2>3, WriteKeepsLookups
  <2> QED  BY <2>2, <2>3, <2>4 DEF ValueOf
<1>2. CASE ~Known(table, name)
  <2> DEFINE e == [name |-> Stored[name], value |-> v]
             new == Append(table, e)
  <2>1. e \in Entry /\ e.name = Stored[name] /\ e.value = v
    BY WordAssumption DEF Entry
  <2>2. SetVar(table, name, v) = new  BY <1>2 DEF SetVar
  <2>3. Len(table) < MaxVars  BY <1>2 DEF CanSet
  <2> HIDE DEF e
  <2>4. /\ \A w : Known(table, w) =>
             Known(new, w) /\ ValueOf(new, w) = ValueOf(table, w)
        /\ ~Known(table, e.name) =>
             Known(new, e.name) /\ ValueOf(new, e.name) = e.value
    BY <2>1, <2>3, AppendKeepsLookups
  <2> QED  BY <1>2, <2>1, <2>2, <2>4
<1> QED  BY <1>1, <1>2

LEMMA ApplyVarKeepsOthers ==
  ASSUME NEW table \in VarTable, NEW op \in Arithmetic, NEW name, Known(table, name),
         NEW v \in Int32, op = "DIV" => v # 0
  PROVE  LET new == ApplyVar(table, op, name, v)
         IN  /\ OnlyValue(table, new, FindVar(table, name))
             /\ \A other \in Word \ {name} : Known(table, other) =>
                  Known(new, other) /\ ValueOf(new, other) = ValueOf(table, other)
<1> DEFINE i == FindVar(table, name)
           a == Applied(op, table[i].value, v)
           new == ApplyVar(table, op, name, v)
<1>1. table \in Seq(Entry)  BY DEF VarTable
<1>2. i \in 1 .. Len(table)  BY FindInTable
<1>3. new \in VarTable  BY ApplyVarTable
<1>4. new = [table EXCEPT ![i] = [table[i] EXCEPT !.value = a]]
  BY DEF ApplyVar
<1>5. OnlyValue(table, new, i)
  <2>1. table[i] \in Entry  BY <1>1, <1>2, ElementOfSeq
  <2> DEFINE e == [table[i] EXCEPT !.value = a]
  <2>2. e.name = table[i].name  BY <2>1 DEF Entry
  <2> HIDE DEF e, i, new
  <2>3. /\ Len(new) = Len(table) /\ new[i] = e
        /\ \A j \in 1 .. Len(table) : j # i => new[j] = table[j]
    <3>1. new = [table EXCEPT ![i] = e]  BY <1>4 DEF e
    <3> QED  BY <1>1, <1>2, <3>1
  <2> QED  BY <2>2, <2>3 DEF OnlyValue
<1> HIDE DEF new
<1>6. \A other \in Word \ {name} : Known(table, other) =>
        Known(new, other) /\ ValueOf(new, other) = ValueOf(table, other)
  BY <1>3, <1>5, WriteKeepsLookups
<1> QED  BY <1>5, <1>6 DEF new

\* Whoever else is running, only a script's own SET and arithmetic change the table;
\* SCRIPT and a restart empty it.
LEMMA TableChanges ==
  ASSUME Inductive, [Next]_vars
  PROVE  \/ runtime_vars' \in {runtime_vars, <<>>}
         \/ /\ AtLine("script") /\ current' = file_buffer[Top.pos + 1]
            /\ Set(current') \/ Apply(current')
<1> USE DEF Returns, buffers
<1>1. ASSUME NEW name, NEW stk, RunScriptFile(name, stk)
      PROVE  runtime_vars' = runtime_vars
  BY <1>1 DEF RunScriptFile
<1>2. ASSUME NEW line, NEW stk, Execute(line, stk)
      PROVE  runtime_vars' \in {runtime_vars, <<>>}
  <2>1. CASE Run(line, stk)
    <3>1. CASE RunRxeFile(Tail(line), stk)  BY <3>1 DEF RunRxeFile
    <3>2. CASE RunScriptFile(line[2], stk)  BY <1>1, <3>2
    <3> QED  BY <2>1, <3>1, <3>2 DEF Run, Overflow
  <2>2. CASE Script(line, stk)  BY <2>2 DEF Script, Overflow
  <2>3. CASE Show(line, stk) \/ Pause(line, stk) \/ Reboot(line, stk) \/ Other(line, stk)
    BY <2>3 DEF Show, Pause, Reboot, Other
  <2> QED  BY <1>2, <2>1, <2>2, <2>3 DEF Execute
<1>3. CASE RunAutoexec  BY <1>1, <1>3 DEF RunAutoexec
<1>4. CASE BatchLine  BY <1>2, <1>4 DEF BatchLine, Skip
<1>5. CASE RxeLine  BY <1>2, <1>5 DEF RxeLine
<1>6. CASE ScriptLine
  <2> DEFINE line == file_buffer[Top.pos + 1]
  <2>1. AtLine("script") /\ current' = line  BY <1>6 DEF ScriptLine
  <2> HIDE DEF line
  <2>2. CASE Skip \/ Abort(line) \/ Trap(line) \/ PrintVar(line)
    BY <2>2 DEF Skip, Abort, Trap, PrintVar
  <2>3. CASE Set(line) \/ Apply(line)  BY <2>1, <2>3 DEF line
  <2>4. CASE Execute(Tail(line), Advanced)  BY <1>2, <2>4
  <2> QED  BY <1>6, <2>2, <2>3, <2>4 DEF ScriptLine, line
<1>7. CASE Return \/ PressEnter \/ UNCHANGED vars
  BY <1>7 DEF Return, PressEnter, vars
<1>8. CASE Restart  BY <1>8 DEF Restart, Cleared
<1>9. CASE ReadCommand  BY <1>2, <1>9 DEF ReadCommand
<1> QED  BY <1>3, <1>4, <1>5, <1>6, <1>7, <1>8, <1>9 DEF Next, Kernel, User

\* The operand and the name of an instruction that a script accepts.
LEMMA AcceptedLine ==
  ASSUME Inductive, AtLine("script"), NEW line, line = file_buffer[Top.pos + 1],
         Acceptable(line), Command(line) \in {"SET"} \cup Arithmetic
  PROVE  /\ line[2] \in Word /\ ParseInt32(Operand(line)) \in Int32
         /\ runtime_vars \in VarTable
<1>1. stack # <<>> /\ Top.pos < Top.len  BY DEF AtLine
<1>2. Top \in Frame /\ Top.pos + 1 \in 1 .. Top.len  BY <1>1, AdvancedKeeps
<1>3. Top.len <= BufCap
  <2>1. PICK n \in Nat : n = Len(stack) /\ n > 0 /\ Top = stack[n]
    BY <1>1 DEF Inductive, TypeOK, Top
  <2> QED  BY <2>1 DEF Inductive, StackOK, Loaded
<1>4. line \in Line
  BY <1>2, <1>3, ShellAssumption DEF Inductive, TypeOK, Buffer, Cell, Frame
<1>5. Len(line) > 1 /\ IsInt32(Operand(line))  BY DEF Acceptable
<1> QED  BY <1>4, <1>5, ParsedInt32 DEF Line, Inductive, TypeOK

LEMMA AcceptedTakesEffect ==
  ASSUME Inductive, AtLine("script"), NEW line, line = file_buffer[Top.pos + 1],
         Set(line) \/ Apply(line)
  PROVE  TakesEffect(line, runtime_vars, runtime_vars')
<1> DEFINE v == ParseInt32(Operand(line))
<1>1. /\ Acceptable(line) /\ line[2] \in Word /\ v \in Int32
      /\ runtime_vars \in VarTable
  BY AcceptedLine DEF Set, Apply
<1>2. CASE Set(line)
  <2>1. CanSet(runtime_vars, line[2]) /\ runtime_vars' = SetVar(runtime_vars, line[2], v)
    BY <1>2 DEF Set, Acceptable
  <2> QED  BY <1>1, <2>1, SetVarReadsBack DEF TakesEffect
<1>3. CASE Apply(line)
  <2>1. /\ Command(line) \in Arithmetic /\ Command(line) # "SET"
        /\ Known(runtime_vars, line[2])
        /\ Command(line) = "DIV" => v # 0
        /\ runtime_vars' = ApplyVar(runtime_vars, Command(line), line[2], v)
    BY <1>3 DEF Apply, Acceptable, Arithmetic
  <2> QED  BY <1>1, <2>1, ApplyVarKeepsOthers DEF TakesEffect
<1> QED  BY <1>2, <1>3

\* While a script is at a line, no other loop of the kernel runs.
LEMMA ScriptHasTheTurn ==
  ASSUME Inductive, Next, AtLine("script") PROVE ScriptLine
<1>1. machine = "run" /\ stack # <<>> /\ Top.kind = "script" /\ Top.pos < Top.len
  BY DEF AtLine
<1>2. Top.pos # Top.len
  <2>1. Top \in Frame  BY <1>1, AdvancedKeeps
  <2> QED  BY <1>1, <2>1 DEF Frame
<1> QED
  BY <1>1, <1>2 DEF Next, Kernel, User, RunAutoexec, BatchLine, RxeLine, AtLine, Return,
                    Restart, ReadCommand, AtPrompt, PressEnter

\* For every variable table, every width of int32_t and every way names are cut, a
\* successful SET reads back its operand, and no SET and no arithmetic line of a
\* script touches a variable it does not name.
THEOREM SetsReadBack == Spec => SetReadsBack
<1>1. Inductive /\ [Next]_vars =>
        [(/\ AtLine("script") /\ answer' = "ok"
          /\ Command(current') \in {"SET"} \cup Arithmetic)
           => TakesEffect(current', runtime_vars, runtime_vars')]_vars
  <2> SUFFICES ASSUME Inductive, Next, AtLine("script"), answer' = "ok",
                      Command(current') \in {"SET"} \cup Arithmetic
               PROVE  TakesEffect(current', runtime_vars, runtime_vars')
    OBVIOUS
  <2> DEFINE line == file_buffer[Top.pos + 1]
  <2>1. ScriptLine  BY ScriptHasTheTurn
  <2>2. current' = line  BY <2>1 DEF ScriptLine
  <2>3. ~Abort(line) /\ ~Trap(line)  BY DEF Abort, Trap, Returns
  <2>4. Command(line) \notin ScriptSkips /\ Command(line) # "RUN" /\ ~PrintVar(line)
    BY <2>2 DEF ScriptSkips, Arithmetic, PrintVar
  <2>5. Set(line) \/ Apply(line)  BY <2>1, <2>3, <2>4 DEF ScriptLine
  <2> QED  BY <2>2, <2>5, AcceptedTakesEffect
<1> QED  BY <1>1, InductiveHolds, PTL DEF Spec, SetReadsBack

\* One step keeps the names apart: an instruction appends an entry only when the
\* table has no entry of that name, so a name that is there twice was cut.
LEMMA NextKeepsNames ==
  ASSUME Inductive, NamesUnique, [Next]_vars PROVE NamesUnique'
<1>1. CASE runtime_vars' = runtime_vars  BY <1>1 DEF NamesUnique
<1>2. CASE runtime_vars' = <<>>  BY <1>2 DEF NamesUnique
<1>3. ASSUME AtLine("script"), NEW line, line = file_buffer[Top.pos + 1],
             Set(line) \/ Apply(line)
      PROVE  NamesUnique'
  <2> DEFINE v == ParseInt32(Operand(line))
             i == FindVar(runtime_vars, line[2])
  <2>1. /\ Acceptable(line) /\ line[2] \in Word /\ v \in Int32
        /\ runtime_vars \in VarTable
    BY <1>3, AcceptedLine DEF Set, Apply
  <2>2. CASE OnlyValue(runtime_vars, runtime_vars', i)
    BY <2>2 DEF OnlyValue, NamesUnique
  <2>3. CASE Set(line) /\ Known(runtime_vars, line[2])
    <3>1. i \in 1 .. Len(runtime_vars)  BY <2>1, <2>3, FindInTable
    <3>2. runtime_vars' = [runtime_vars EXCEPT ![i].value = v]
      BY <2>3 DEF Set, SetVar
    <3> QED  BY <2>1, <2>2, <3>1, <3>2, WriteOnlyValue
  <2>4. CASE Set(line) /\ ~Known(runtime_vars, line[2])
    <3> DEFINE e == [name |-> Stored[line[2]], value |-> v]
    <3>1. runtime_vars' = Append(runtime_vars, e)  BY <2>4 DEF Set, SetVar
    <3>2. e.name = Stored[line[2]]  OBVIOUS
    <3> HIDE DEF e
    <3>3. PICK n \in Nat : n = Len(runtime_vars)  BY <2>1 DEF VarTable
    <3>4. /\ Len(runtime_vars') = n + 1 /\ runtime_vars'[n + 1] = e
          /\ \A k \in 1 .. n : runtime_vars'[k] = runtime_vars[k]
      BY <2>1, <3>1, <3>3 DEF VarTable
    <3>5. \A k \in 1 .. n : runtime_vars[k].name # line[2]
      BY <2>4, <3>3 DEF Known, Entries
    <3>6. ASSUME NEW k \in 1 .. n, runtime_vars[k].name = e.name
          PROVE  \E w \in Word : Stored[w] = e.name /\ Stored[w] # w
      BY <2>1, <3>2, <3>5, <3>6
    <3>7. ASSUME NEW j \in 1 .. n + 1, NEW k \in 1 .. n + 1, j # k,
                 runtime_vars'[j].name = runtime_vars'[k].name
          PROVE  \E w \in Word : Stored[w] = runtime_vars'[j].name /\ Stored[w] # w
      <4>1. CASE j \in 1 .. n /\ k \in 1 .. n
        BY <3>3, <3>4, <3>7, <4>1 DEF NamesUnique
      <4>2. CASE j = n + 1
        <5>1. k \in 1 .. n  BY <3>7, <4>2
        <5> QED  BY <3>4, <3>6, <3>7, <4>2, <5>1
      <4>3. CASE k = n + 1
        <5>1. j \in 1 .. n  BY <3>7, <4>3
        <5> QED  BY <3>4, <3>6, <3>7, <4>3, <5>1
      <4> QED  BY <4>1, <4>2, <4>3
    <3> QED  BY <3>4, <3>7 DEF NamesUnique
  <2>5. CASE Apply(line)
    <3>1. /\ Command(line) \in Arithmetic /\ Known(runtime_vars, line[2])
          /\ Command(line) = "DIV" => v # 0
          /\ runtime_vars' = ApplyVar(runtime_vars, Command(line), line[2], v)
      BY <2>5 DEF Apply, Acceptable
    <3> QED  BY <2>1, <2>2, <3>1, ApplyVarKeepsOthers
  <2> QED  BY <1>3, <2>3, <2>4, <2>5
<1> QED  BY <1>1, <1>2, <1>3, TableChanges

\* No name is ever in the table twice, unless copy_text cut it: however scripts,
\* batch files and restarts follow each other, for every table size.
THEOREM NamesStayUnique == Spec => []NamesUnique
<1>1. Init => NamesUnique  BY DEF Init, NamesUnique
<1>2. Inductive /\ NamesUnique /\ [Next]_vars => NamesUnique'  BY NextKeepsNames
<1> QED  BY <1>1, <1>2, InductiveHolds, PTL DEF Spec
-----------------------------------------------------------------------------
(* Refinement: RUN and SCRIPT keep what Programs promises. *)

\* A stack with one more activation, which has not started.
Pushed(stk, new) ==
  \E f \in Frame : new = Append(stk, f) /\ Abstract!Startable(f)

LEMMA FileLoads ==
  ASSUME TypeOK, NEW name \in DOMAIN disk
  PROVE  /\ name \in Word /\ LoadedLen(disk[name]) \in Nat
         /\ LoadedLen(disk[name]) <= Len(disk[name])
<1>1. name \in Word /\ disk[name] \in Text  BY FileIsText
<1> QED  BY <1>1, LoadBuffer, ShellAssumption DEF TypeOK

LEMMA RunScriptFileCalls ==
  ASSUME TypeOK, NEW name, NEW stk \in Seq(Frame), RunScriptFile(name, stk)
  PROVE  stack' = stk \/ Pushed(stk, stack')
<1> DEFINE f == Activation("batch", name, LoadedLen(disk[name]), script_depth)
<1>1. stack' = stk
      \/ /\ stack' = Append(stk, f)
         /\ name \in DOMAIN disk
  BY DEF RunScriptFile, Returns, NextSlot
<1>2. ASSUME name \in DOMAIN disk PROVE f \in Frame /\ Abstract!Startable(f)
  <2>1. /\ name \in Word /\ LoadedLen(disk[name]) \in Nat
        /\ LoadedLen(disk[name]) <= Len(disk[name])
    BY <1>2, FileLoads
  <2>2. /\ f \in Frame /\ f.kind = "batch" /\ f.file = name /\ f.pos = 0
        /\ f.len = LoadedLen(disk[name])
    BY <2>1, StackTypes, ActivationFrame DEF Kind
  <2> QED  BY <1>2, <2>1, <2>2 DEF Abstract!Startable
<1> QED  BY <1>1, <1>2 DEF Pushed

\* A command returns to its caller, or starts one program.
LEMMA ExecuteCalls ==
  ASSUME TypeOK, NEW line \in Line, NEW stk \in Seq(Frame), Execute(line, stk)
  PROVE  stack' = stk \/ Pushed(stk, stack')
<1> USE DEF Returns
<1>1. CASE Run(line, stk)
  <2>1. CASE Overflow(stk)  BY <2>1 DEF Overflow
  <2>2. CASE RunRxeFile(Tail(line), stk)
    <3> DEFINE args == Tail(line)
               f == Activation("rxe", args[1], Len(RfsFiles[args[1]].text), 0)
    <3>1. stack' = stk
          \/ /\ stack' = Append(stk, f) /\ args[1] \in DOMAIN RfsFiles
             /\ RfsFiles[args[1]].magic
      BY <2>2 DEF RunRxeFile
    <3> HIDE DEF args
    <3>2. ASSUME args[1] \in DOMAIN RfsFiles
          PROVE  /\ f \in Frame /\ f.kind = "rxe" /\ f.file = args[1] /\ f.pos = 0
                 /\ f.len = Len(RfsFiles[args[1]].text)
      <4>1. args[1] \in Word /\ Len(RfsFiles[args[1]].text) \in Nat
        BY <3>2, RfsAssumption DEF Text
      <4> QED  BY <4>1, ActivationFrame DEF Kind
    <3> HIDE DEF f
    <3> QED  BY <3>1, <3>2 DEF Pushed, Abstract!Startable
  <2>3. CASE RunScriptFile(line[2], stk)  BY <2>3, RunScriptFileCalls
  <2> QED  BY <1>1, <2>1, <2>2, <2>3 DEF Run
<1>2. CASE Script(line, stk)
  <2> DEFINE name == line[2]
             f == Activation("script", name, LoadedLen(disk[name]), 0)
  <2>1. stack' = stk \/ (stack' = Append(stk, f) /\ name \in DOMAIN disk)
    <3>1. Len(line) > 1 => Tail(line)[1] = name  BY DEF Line
    <3> QED  BY <1>2, <3>1 DEF Script, Overflow, Found
  <2>2. ASSUME name \in DOMAIN disk
        PROVE  f \in Frame /\ Abstract!Startable(f)
    <3>1. /\ name \in Word /\ LoadedLen(disk[name]) \in Nat
          /\ LoadedLen(disk[name]) <= Len(disk[name])
      BY <2>2, FileLoads
    <3>2. /\ f \in Frame /\ f.kind = "script" /\ f.file = name /\ f.pos = 0
          /\ f.len = LoadedLen(disk[name])
      BY <3>1, ActivationFrame DEF Kind
    <3> QED  BY <2>2, <3>1, <3>2 DEF Abstract!Startable
  <2> QED  BY <2>1, <2>2 DEF Pushed
<1>3. CASE Show(line, stk) \/ Pause(line, stk) \/ Reboot(line, stk) \/ Other(line, stk)
  BY <1>3 DEF Show, Pause, Reboot, Other
<1> QED  BY <1>1, <1>2, <1>3 DEF Execute

LEMMA TakesLine ==
  ASSUME Inductive, stack # <<>>, Top.pos < Top.len,
         NEW t \in Seq(Frame), Len(t) = Len(stack),
         \A i \in 1 .. Len(stack) : i # Len(stack) => t[i] = stack[i],
         LET u == t[Len(stack)]
         IN  u.kind = Top.kind /\ u.file = Top.file /\ u.len = Top.len
             /\ u.pos = Top.pos + 1,
         stack' = t \/ Pushed(t, stack'),
         Top.kind # "script" => current' = Abstract!Own(Top)[Top.pos + 1]
  PROVE  Abstract!TakeLine
<1>1. PICK n \in Nat : n = Len(stack) /\ n > 0  BY DEF Inductive, TypeOK
<1>2. Abstract!Innermost = Top  BY DEF Abstract!Innermost, Top
<1>3. /\ \A i \in 1 .. n : stack'[i] = t[i]
      /\ \/ stack' = t
         \/ /\ Len(stack') = n + 1
            /\ Abstract!Startable(stack'[n + 1])
  <2>1. CASE stack' = t  BY <2>1
  <2>2. CASE Pushed(t, stack')
    <3>1. PICK f \in Frame : stack' = Append(t, f) /\ Abstract!Startable(f)
      BY <2>2 DEF Pushed
    <3>2. /\ Len(Append(t, f)) = n + 1 /\ Append(t, f)[n + 1] = f
          /\ \A i \in 1 .. n : Append(t, f)[i] = t[i]
      BY <1>1
    <3> QED  BY <3>1, <3>2
  <2> QED  BY <2>1, <2>2
<1>4. Len(stack') \in {n, n + 1}  BY <1>1, <1>3
<1>5. Abstract!CallersKept
  <2>1. \A i \in 1 .. n - 1 : i \in 1 .. n /\ i # n  BY <1>1
  <2> QED  BY <1>1, <1>3, <2>1 DEF Abstract!CallersKept
<1>6. Abstract!Consumed
  <2>1. stack'[n] = t[n]  BY <1>1, <1>3
  <2> QED  BY <1>1, <1>2, <2>1 DEF Abstract!Consumed
<1>7. Len(stack') = n + 1 => Abstract!Startable(stack'[n + 1])
  BY <1>1, <1>3
<1> QED  BY <1>1, <1>2, <1>4, <1>5, <1>6, <1>7 DEF Abstract!TakeLine

LEMMA BatchLineTakes == ASSUME Inductive, BatchLine PROVE Abstract!TakeLine
<1> DEFINE line == script_buffers[Top.slot][Top.pos + 1]
<1>1. stack # <<>> /\ Top.pos < Top.len /\ Top.kind = "batch"
  BY DEF BatchLine, AtLine
<1>2. /\ Top \in Frame /\ Top.pos + 1 \in 1 .. Top.len /\ Advanced \in Seq(Frame)
      /\ Len(Advanced) = Len(stack)
      /\ \A i \in 1 .. Len(stack) : i # Len(stack) => Advanced[i] = stack[i]
      /\ Advanced[Len(stack)] = [Top EXCEPT !.pos = @ + 1]
  BY <1>1, AdvancedKeeps
<1>3. PICK n \in Nat : n = Len(stack) /\ n > 0 /\ Top = stack[n]
  BY <1>1 DEF Inductive, TypeOK, Top
<1>4. /\ Top.slot \in Slot /\ Top.len <= BufCap
      /\ line = disk[Top.file][Top.pos + 1]
  <2>1. n \in 1 .. Len(stack)  BY <1>3
  <2>2. Top.slot \in 0 .. script_depth - 1 /\ Top.len <= BufCap
        /\ line = disk[Top.file][Top.pos + 1]
    BY <1>1, <1>2, <1>3, <2>1
       DEF Inductive, StackOK, SlotsInUse, SlotsBelow, Loaded, OwnLines
  <2> QED  BY <2>2, ShellAssumption DEF Inductive, TypeOK, Slot
<1>5. line \in Line
  <2>1. script_buffers[Top.slot] \in Buffer  BY <1>4 DEF Inductive, TypeOK
  <2>2. Top.pos + 1 \in Cell  BY <1>2, <1>4, ShellAssumption DEF Cell, Frame
  <2> HIDE DEF line
  <2> QED  BY <2>1, <2>2 DEF Buffer, line
<1>6. current' = Abstract!Own(Top)[Top.pos + 1]
  BY <1>1, <1>4 DEF BatchLine, Abstract!Own
<1>7. stack' = Advanced \/ Pushed(Advanced, stack')
  <2>1. Skip \/ Execute(line, Advanced)  BY DEF BatchLine
  <2>2. CASE Skip  BY <2>2 DEF Skip, Returns
  <2>3. CASE Execute(line, Advanced)  BY <1>2, <1>5, <2>3, ExecuteCalls DEF Inductive
  <2> QED  BY <2>1, <2>2, <2>3
<1>8. LET u == Advanced[Len(stack)]
      IN  u.kind = Top.kind /\ u.file = Top.file /\ u.len = Top.len
          /\ u.pos = Top.pos + 1
  BY <1>2 DEF Frame
<1> QED  BY <1>1, <1>2, <1>6, <1>7, <1>8, TakesLine

LEMMA RxeLineTakes == ASSUME Inductive, RxeLine PROVE Abstract!TakeLine
<1> DEFINE line == file_buffer[Top.pos + 1]
<1>1. stack # <<>> /\ Top.pos < Top.len /\ Top.kind = "rxe"
  BY DEF RxeLine, AtLine
<1>2. /\ Top \in Frame /\ Top.pos + 1 \in 1 .. Top.len /\ Advanced \in Seq(Frame)
      /\ Len(Advanced) = Len(stack)
      /\ \A i \in 1 .. Len(stack) : i # Len(stack) => Advanced[i] = stack[i]
      /\ Advanced[Len(stack)] = [Top EXCEPT !.pos = @ + 1]
  BY <1>1, AdvancedKeeps
<1>3. /\ Top.file \in DOMAIN RfsFiles
      /\ Top.len = Len(RfsFiles[Top.file].text)
      /\ line = RfsFiles[Top.file].text[Top.pos + 1]
  <2>1. PICK n \in Nat : n = Len(stack) /\ n > 0  BY <1>1 DEF Inductive, TypeOK
  <2>2. Top = stack[n] /\ n \in 1 .. Len(stack)  BY <2>1 DEF Top
  <2> QED  BY <1>1, <1>2, <2>2 DEF Inductive, StackOK, Loaded, RxeOwn
<1>4. line \in Line  BY <1>2, <1>3, RfsAssumption DEF Text
<1>5. current' = Abstract!Own(Top)[Top.pos + 1]
  BY <1>1, <1>3 DEF RxeLine, Abstract!Own
<1>6. stack' = Advanced \/ Pushed(Advanced, stack')
  BY <1>2, <1>4, ExecuteCalls DEF RxeLine, Inductive
<1>7. LET u == Advanced[Len(stack)]
      IN  u.kind = Top.kind /\ u.file = Top.file /\ u.len = Top.len
          /\ u.pos = Top.pos + 1
  BY <1>2 DEF Frame
<1> QED  BY <1>1, <1>2, <1>5, <1>6, <1>7, TakesLine

\* The innermost activation ends.
LEMMA BelowEnds ==
  ASSUME Inductive, stack # <<>>, stack' = Below,
         Top.pos = Top.len \/ Top.kind = "script"
  PROVE  Abstract!End
<1>1. PICK n \in Nat : n = Len(stack) /\ n > 0  BY DEF Inductive, TypeOK
<1>2. stack' = SubSeq(stack, 1, n - 1)  BY <1>1 DEF Below
<1>3. Len(stack') = n - 1 /\ \A i \in 1 .. n - 1 : stack'[i] = stack[i]
  BY <1>1, <1>2 DEF Inductive, TypeOK
<1> QED
  BY <1>1, <1>3 DEF Abstract!End, Abstract!Innermost, Abstract!CallersKept, Top

LEMMA ScriptLineTakes ==
  ASSUME Inductive, ScriptLine PROVE Abstract!TakeLine \/ Abstract!End
<1> DEFINE line == file_buffer[Top.pos + 1]
<1>1. stack # <<>> /\ Top.pos < Top.len /\ Top.kind = "script"
  BY DEF ScriptLine, AtLine
<1>2. /\ Top \in Frame /\ Top.pos + 1 \in 1 .. Top.len /\ Advanced \in Seq(Frame)
      /\ Len(Advanced) = Len(stack)
      /\ \A i \in 1 .. Len(stack) : i # Len(stack) => Advanced[i] = stack[i]
      /\ Advanced[Len(stack)] = [Top EXCEPT !.pos = @ + 1]
  BY <1>1, AdvancedKeeps
<1>3. PICK n \in Nat : n = Len(stack) /\ n > 0 /\ Top = stack[n]
  BY <1>1 DEF Inductive, TypeOK, Top
<1>4. line \in Line
  <2>1. Top.len <= BufCap  BY <1>3 DEF Inductive, StackOK, Loaded
  <2> QED  BY <1>2, <2>1, ShellAssumption DEF Inductive, TypeOK, Buffer, Cell, Frame
<1>5. LET u == Advanced[Len(stack)]
      IN  u.kind = Top.kind /\ u.file = Top.file /\ u.len = Top.len
          /\ u.pos = Top.pos + 1
  BY <1>2 DEF Frame
<1> HIDE DEF line
<1>6. CASE stack' = Advanced \/ Pushed(Advanced, stack')
  BY <1>1, <1>2, <1>5, <1>6, TakesLine
<1>7. CASE Skip \/ Set(line) \/ Apply(line) \/ Trap(line) \/ PrintVar(line)
  BY <1>6, <1>7 DEF Skip, Set, Apply, Trap, PrintVar, Returns
<1>8. CASE Abort(line)  BY <1>1, <1>8, BelowEnds DEF Abort, Returns
<1>9. CASE Command(line) = "RUN" /\ Execute(Tail(line), Advanced)
  <2>1. Tail(line) \in Line  BY <1>4, <1>9 DEF Command, Line
  <2>2. stack' = Advanced \/ Pushed(Advanced, stack')
    BY <1>2, <1>9, <2>1, ExecuteCalls DEF Inductive
  <2> QED  BY <1>6, <2>2
<1> QED  BY <1>7, <1>8, <1>9 DEF ScriptLine, line

\* A command given at the prompt, or at boot, starts at most one program.
LEMMA CommandBegins ==
  ASSUME stack = <<>>, stack' = <<>> \/ Pushed(<<>>, stack')
  PROVE  Abstract!Begin
<1>1. CASE stack' = <<>>
  BY <1>1 DEF Abstract!Begin
<1>2. CASE Pushed(<<>>, stack')
  <2>1. PICK f \in Frame : stack' = Append(<<>>, f) /\ Abstract!Startable(f)
    BY <1>2 DEF Pushed
  <2>2. Len(Append(<<>>, f)) = 1 /\ Append(<<>>, f)[1] = f  OBVIOUS
  <2> QED  BY <2>1, <2>2 DEF Abstract!Begin
<1> QED  BY <1>1, <1>2

LEMMA NextRefines ==
  Inductive /\ [Next]_vars => [Abstract!Next]_<<disk, stack, current>>
<1> SUFFICES ASSUME Inductive, [Next]_vars
             PROVE  [Abstract!Next]_<<disk, stack, current>>
  OBVIOUS
<1> USE DEF Abstract!Next
<1>1. CASE RunAutoexec
  <2>1. stack = <<>> /\ <<>> \in Seq(Frame)  BY <1>1 DEF RunAutoexec, Inductive
  <2>2. stack' = <<>> \/ Pushed(<<>>, stack')
    BY <1>1, <2>1, RunScriptFileCalls DEF RunAutoexec, Inductive
  <2> QED  BY <1>1, <2>1, <2>2, CommandBegins DEF RunAutoexec
<1>2. CASE BatchLine  BY <1>2, BatchLineTakes DEF BatchLine
<1>3. CASE RxeLine  BY <1>3, RxeLineTakes DEF RxeLine
<1>4. CASE ScriptLine  BY <1>4, ScriptLineTakes DEF ScriptLine
<1>5. CASE Return  BY <1>5, BelowEnds DEF Return
<1>6. CASE Restart  BY <1>6 DEF Restart, Cleared, Abstract!Forget
<1>7. CASE ReadCommand
  <2>1. PICK line \in UserLines : Execute(line, <<>>)  BY <1>7 DEF ReadCommand
  <2>2. line \in Line /\ <<>> \in Seq(Frame)  BY ShellAssumption
  <2>3. stack' = <<>> \/ Pushed(<<>>, stack')
    BY <2>1, <2>2, ExecuteCalls DEF Inductive
  <2> QED  BY <1>7, <2>3, CommandBegins DEF ReadCommand, AtPrompt
<1>8. CASE PressEnter  BY <1>8 DEF PressEnter
<1>9. CASE UNCHANGED vars  BY <1>9 DEF vars
<1> QED
  BY <1>1, <1>2, <1>3, <1>4, <1>5, <1>6, <1>7, <1>8, <1>9 DEF Next, Kernel, User

\* The interpreters, with their shared buffers, take the lines of batch and RXE
\* files exactly as nested procedures would take them from the files themselves.
THEOREM ShellImplementsPrograms == Spec => ImplementsPrograms
<1>1. Init => Abstract!Init  BY DEF Init, Abstract!Init
<1>2. Inductive /\ [Next]_vars => [Abstract!Next]_Abstract!progVars
  BY NextRefines DEF Abstract!progVars
<1> QED
  BY <1>1, <1>2, InductiveHolds, PTL DEF Spec, ImplementsPrograms, Abstract!Spec
=============================================================================
