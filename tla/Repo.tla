-------------------------------- MODULE Repo --------------------------------
(***************************************************************************)
(* PKG, VCS and PROMPT (kernel/kernel.c): commands that keep something of  *)
(* the line they stand on.  A text lives at a place in memory; vcs_log     *)
(* holds pointers, so where a message lies is part of the state.           *)
(***************************************************************************)
EXTENDS Integers, Sequences

CONSTANTS
  LogSize,    \* entries of vcs_log (8)
  MessageCap, \* bytes of an entry of vcs_msgs (64)
  PromptCap,  \* bytes of prompt_text (32)
  Chars,      \* the characters of a line
  Texts,      \* what can follow VCS COMMIT and PROMPT
  Initial,    \* the message of the first commit
  Default,    \* DEFAULT_PROMPT
  Packages,   \* the names of pkg_db
  Base        \* "BASE", the one that is installed from the start

ASSUME RepoAssumption ==
  /\ LogSize \in Nat \ {0} /\ MessageCap \in Nat \ {0} /\ PromptCap \in Nat \ {0}
  /\ \A t \in Texts \cup {Initial, Default} : t \in Seq(Chars)
  /\ Len(Default) < PromptCap
  /\ Base \in Packages

VARIABLES
  memory,     \* the text at each place
  vcs_log,    \* the commits: id and the place of the message
  installed,  \* the packages of pkg_db with that flag
  listed,     \* the entries the last command printed, if it was VCS LOG
  commits,    \* (history) what was committed
  prompted    \* (history) what the prompt was set to

repoVars == <<memory, vcs_log, installed, listed, commits, prompted>>

\* The buffer the command line is in, the constants, vcs_msgs and prompt_text.
LineAt == <<"line">>
LiteralAt == <<"literal">>
PromptText == <<"prompt">>
Slot(i) == <<"msg", i>>
Places == {LineAt, LiteralAt, PromptText} \cup {Slot(i) : i \in 1 .. LogSize}

copy_text(text, cap) == SubSeq(text, 1, IF Len(text) < cap THEN Len(text) ELSE cap - 1)

RepoInit ==
  /\ memory = [p \in Places |-> CASE p = LiteralAt -> Initial [] p = PromptText -> Default
                                  [] OTHER -> <<>>]
  /\ vcs_log = <<[id |-> 1, at |-> LiteralAt]>>
  /\ installed = {Base} /\ listed = <<>>
  /\ commits = <<>> /\ prompted = Default

-----------------------------------------------------------------------------
(* Each command stands on a line of its own, read into the same buffer.    *)

Line(text) == memory' = [memory EXCEPT ![LineAt] = text]

\* Mutant: the entry points to the command line.
KeptInLine == LineAt

\* vcs_msgs[vcs_log_count]
MessageAt == Slot(Len(vcs_log) + 1)

\* Mutant: the test lets one commit too many in, over the message of the first.
RoomForOneMore == Len(vcs_log) <= LogSize

RoomInLog == Len(vcs_log) < LogSize

Commit(text) ==
  /\ RoomInLog
  /\ memory' = [memory EXCEPT ![LineAt] = text, ![MessageAt] = copy_text(text, MessageCap)]
  /\ vcs_log' = Append(vcs_log, [id |-> Len(vcs_log) + 1, at |-> MessageAt])
  /\ commits' = Append(commits, text)
  /\ UNCHANGED <<installed, prompted>>

LogIsFull(text) == ~RoomInLog /\ Line(text) /\ UNCHANGED <<vcs_log, installed, commits, prompted>>

\* PROMPT without a text sets the default.
SetPrompt(text) ==
  /\ memory' = [memory EXCEPT ![LineAt] = text, ![PromptText] = copy_text(text, PromptCap)]
  /\ prompted' = text
  /\ UNCHANGED <<vcs_log, installed, commits>>

ResetPrompt ==
  /\ memory' = [memory EXCEPT ![LineAt] = <<>>, ![PromptText] = copy_text(Default, PromptCap)]
  /\ prompted' = Default
  /\ UNCHANGED <<vcs_log, installed, commits>>

\* PKG INSTALL, REMOVE and INFO of a known package; REMOVE refuses Base.
Package(p) ==
  /\ \/ installed' = installed \cup {p}
     \/ p # Base /\ installed' = installed \ {p}
     \/ UNCHANGED installed
  /\ Line(<<>>) /\ UNCHANGED <<vcs_log, commits, prompted>>

\* PKG LIST, VCS STATUS and BRANCH, RFSREFS and what is refused change nothing.
Inspect(text) == Line(text) /\ UNCHANGED <<vcs_log, installed, commits, prompted>>

\* VCS LOG prints the entries from the last one down, each text where it lies by now.
Log ==
  /\ Line(<<>>)
  /\ listed' = [i \in DOMAIN vcs_log |->
                  LET idx == Len(vcs_log) + 1 - i
                  IN  [id |-> vcs_log[idx].id, msg |-> memory'[vcs_log[idx].at]]]
  /\ UNCHANGED <<vcs_log, installed, commits, prompted>>

OtherCommand ==
  \/ \E text \in Texts : Commit(text) \/ LogIsFull(text) \/ SetPrompt(text) \/ Inspect(text)
  \/ ResetPrompt
  \/ \E p \in Packages : Package(p)

RepoCommand == Log \/ (OtherCommand /\ listed' = <<>>)
=============================================================================
