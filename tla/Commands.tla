------------------------------ MODULE Commands ------------------------------
(***************************************************************************)
(* The commands of Clock and Repo at the prompt of one kernel: while one   *)
(* runs no other does, and only the clock goes on.                         *)
(***************************************************************************)
EXTENDS Clock, Repo

vars == <<clockVars, repoVars>>

Init == ClockInit /\ RepoInit

DateOrTime ==
  /\ Ask /\ Line(<<>>) /\ listed' = <<>>
  /\ UNCHANGED <<vcs_log, installed, commits, prompted>>

Kernel ==
  \/ DateOrTime
  \/ ReadClock /\ UNCHANGED repoVars
  \/ pc = "prompt" /\ RepoCommand /\ UNCHANGED clockVars

Next == (Tick /\ UNCHANGED repoVars) \/ Kernel

Spec == Init /\ [][Next]_vars

\* Clock and kernel are machines of their own.  No command need be entered.
Fairness ==
  /\ WF_vars((FlagRises \/ UpdateBegins \/ UpdateEnds) /\ UNCHANGED <<register, reading, repoVars>>)
  /\ WF_vars(ReadClock /\ UNCHANGED repoVars)

FairSpec == Spec /\ Fairness

-----------------------------------------------------------------------------
(* Properties *)

Pcs == {"prompt", "wait", "read", "shown"}

\* The log stays in its array, and BASE stays installed.
TypeOK ==
  /\ now \in Moments /\ seen \in Moments
  /\ phase \in {"idle", "due", "updating"} /\ left \in 0 .. Lead + Quiet
  /\ register \in [binary : BOOLEAN, hours24 : BOOLEAN]
  /\ pc \in Pcs /\ asked \in {"DATE", "TIME"} /\ Len(raw) <= Len(Fields)
  /\ DOMAIN memory = Places
  /\ Len(vcs_log) \in 1 .. LogSize /\ \A i \in DOMAIN vcs_log : vcs_log[i].at \in Places
  /\ Base \in installed /\ installed \subseteq Packages /\ Len(listed) <= LogSize

\* The registers rtc_read has are those of one moment, the one at which it found
\* the flag down, although it reads them in seven accesses while the clock goes on.
ShowsOneMoment == \A i \in DOMAIN raw : raw[i] = Held(Fields[i], seen)

\* DATE and TIME show that moment however register B is set up, in BCD or binary,
\* with 24 hours or 12; except that with 12 hours midnight is shown as 12 and noon
\* as 00.
NoonOrMidnight(f) == f = "hour" /\ ~register.hours24 /\ seen.hour \in {0, 12}

ShowsTheTime ==
  \A f \in DOMAIN shown :
    shown[f] = IF NoonOrMidnight(f) THEN 12 - seen.hour ELSE seen[f]

\* rtc_read, which waits in a loop without a bound, returns to the prompt.
ReadEnds == pc # "prompt" ~> pc = "prompt"

\* What VCS LOG lists is every commit, the newest first, under rising ids and down to
\* the one the kernel starts with; and the prompt is the one set last.  Each text is
\* as it was given, as far as it fits, whatever lines have come into the same buffer
\* since (cmd_vcs keeps pointers).
Committed(n) ==
  [id |-> n + 1, msg |-> IF n = 0 THEN Initial ELSE copy_text(commits[n], MessageCap)]

TextsKept ==
  /\ listed # <<>> =>
       /\ Len(listed) = Len(commits) + 1
       /\ \A i \in DOMAIN listed : listed[i] = Committed(Len(listed) - i)
  /\ memory[PromptText] = copy_text(prompted, PromptCap)
=============================================================================
