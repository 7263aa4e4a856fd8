------------------------------- MODULE Seeker -------------------------------
(***************************************************************************)
(* What umdns_browser (src/src/browser/main.c) promises, without sockets,  *)
(* polls, timers, start-up and signals: cycles in which it asks for the    *)
(* enumeration and then for each type it knows of and can ask for, rows    *)
(* that it hears only after it asked, and a table of everything it heard   *)
(* when it stops.                                                          *)
(***************************************************************************)
EXTENDS Integers, Sequences, Table

CONSTANTS
  Offers,    \* the batches of rows that may be heard
  MaxRows,   \* rows it holds at most
  MaxTypes,  \* types it asks for in a cycle at most
  Unaskable  \* the names that cannot be put into a query

VARIABLES
  phase,  \* off, idle (between cycles), ask, hear or over
  rows,   \* what it has heard
  types,  \* what this cycle asks for after the enumeration
  idx,    \* which of them, 0 for the enumeration
  shown   \* the table, in the end

seekerVars == <<phase, rows, types, idx, shown>>

Init ==
  /\ phase = "off" /\ rows = << >> /\ types = << >> /\ idx = 0 /\ shown = << >>

Start ==
  /\ phase = "off"
  /\ phase' \in {"idle", "over"}
  /\ UNCHANGED <<rows, types, idx, shown>>

Begin ==
  /\ phase = "idle"
  /\ phase' = "ask" /\ types' = << >> /\ idx' = 0
  /\ UNCHANGED <<rows, shown>>

\* The name that is asked for now.
Wanted == IF idx = 0 THEN EnumType ELSE types[idx]

Ask ==
  /\ phase = "ask" /\ Wanted \notin Unaskable
  /\ phase' = "hear"
  /\ UNCHANGED <<rows, types, idx, shown>>

\* A name that cannot be asked for is passed over.
Skip ==
  /\ phase = "ask" /\ Wanted \in Unaskable
  /\ IF idx < Len(types) THEN idx' = idx + 1 /\ UNCHANGED phase
     ELSE phase' = "idle" /\ UNCHANGED idx
  /\ UNCHANGED <<rows, types, shown>>

Hear(batch) ==
  /\ phase = "hear"
  /\ rows' = AppendUnique(rows, MaxRows, batch)
  /\ UNCHANGED <<phase, types, idx, shown>>

\* Mutant: the last type is left out.
EndWaitEarly ==
  /\ phase = "hear"
  /\ types' = IF idx = 0 THEN ServiceTypes(rows, MaxTypes) ELSE types
  /\ IF idx + 1 < Len(types') THEN phase' = "ask" /\ idx' = idx + 1
     ELSE phase' = "idle" /\ UNCHANGED idx
  /\ UNCHANGED <<rows, shown>>

EndWait ==
  /\ phase = "hear"
  /\ types' = IF idx = 0 THEN ServiceTypes(rows, MaxTypes) ELSE types
  /\ IF idx < Len(types') THEN phase' = "ask" /\ idx' = idx + 1
     ELSE phase' = "idle" /\ UNCHANGED idx
  /\ UNCHANGED <<rows, shown>>

Show ==
  /\ phase = "idle"
  /\ phase' = "over" /\ shown' = Merge(rows)
  /\ UNCHANGED <<rows, types, idx>>

Next ==
  \/ Start \/ Begin \/ Ask \/ Skip \/ EndWait \/ Show
  \/ \E batch \in Offers : Hear(batch)

Spec == Init /\ [][Next]_seekerVars
=============================================================================
