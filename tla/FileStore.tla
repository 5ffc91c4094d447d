----------------------------- MODULE FileStore -----------------------------
(***************************************************************************)
(* What the kernel's filesystem promises to its caller (fs_iface.h): a     *)
(* read_file call is answered once, with the first max bytes of the file  *)
(* of that name, or with failure when no file has that name.  Nothing is   *)
(* said of clusters, chains or sectors.                                    *)
(***************************************************************************)
EXTENDS Naturals, Sequences

CONSTANTS
  Has(_, _),      \* the store holds a file of a given name
  Contents(_, _)  \* its bytes

VARIABLES
  store,  \* the files, under 11-byte names
  asked,  \* the call: [key, max]
  busy,   \* it has not returned
  ok,     \* what it returned
  data    \* and what it copied

storeVars == <<store, asked, busy, ok, data>>

Start(file, max) == SubSeq(file, 1, IF Len(file) < max THEN Len(file) ELSE max)

Refuse ==
  /\ ~busy /\ ~Has(store, asked'.key)
  /\ ~busy' /\ ~ok' /\ data' = <<>>

Accept ==
  /\ ~busy /\ Has(store, asked'.key)
  /\ busy' /\ ok' = ok /\ data' = <<>>

Deliver ==
  /\ busy /\ ~busy' /\ ok'
  /\ data' = Start(Contents(store, asked.key), asked.max)
  /\ asked' = asked

Init == ~busy /\ ~ok /\ data = <<>>

Next == (Refuse \/ Accept \/ Deliver) /\ UNCHANGED store

Spec == Init /\ [][Next]_storeVars
=============================================================================
