---------------------------- MODULE RollingLog -----------------------------
(***************************************************************************)
(* What the data log promises: a rolling record, one period per file, with *)
(* a date that is right where there is one.  A file forgets its period     *)
(* only when it is not the one being written, or no date vouches for it,   *)
(* or all of them go because the kind of period has changed.  A write that *)
(* is cut off may give a wrong date to two files: of those nothing is      *)
(* promised until they are cleared.  Module DataLog implements this        *)
(* (KeepsRollingLog).                                                      *)
(***************************************************************************)

CONSTANTS Names, Periods, None

VARIABLES
  file,   \* name -> the period whose entries the file holds, or None
  shown,  \* name -> the date the index gives the file, or None
  now,    \* the file and the period an entry made now belongs to
  stale,  \* the log is known to be of another kind of period
  spoiled \* the files whose date was made up by a write cut off

vars == <<file, shown, now, stale, spoiled>>

TypeOK == /\ file \in [Names -> Periods \cup {None}]
          /\ shown \in [Names -> Periods \cup {None}]
          /\ now.slot \in Names /\ now.label \in Periods \cup {None}
          /\ stale \in BOOLEAN /\ spoiled \subseteq Names

Truthful ==
  \A n \in Names \ spoiled : shown[n] = None \/ file[n] \in {None, shown[n]}

Init == TypeOK /\ Truthful

Fades(f) == \A n \in Names : f'[n] \in {f[n], None}
Cleared == spoiled' = {n \in spoiled : file'[n] # None}

\* An entry goes to the file of its period, and to no file of another one.
Log ==
  /\ now.label # None
  /\ now.slot \notin spoiled =>
       /\ file[now.slot] \in {None, now.label}
       /\ shown[now.slot] \in {None, now.label}
  /\ file' = [file EXCEPT ![now.slot] = now.label]
  /\ UNCHANGED <<shown, now, stale, spoiled>>

\* A file gets its date before its first entry.
Show ==
  /\ now.label # None /\ file[now.slot] = None
  /\ shown' = [shown EXCEPT ![now.slot] = now.label]
  /\ UNCHANGED <<file, now, stale, spoiled>>

\* Dates are lost, ...
LoseDates ==
  /\ shown' \in [Names -> Periods \cup {None}] /\ Fades(shown)
  /\ UNCHANGED <<file, now, stale, spoiled>>

\* ... and by a write that is cut off one file or two get dates not theirs.
Spoil ==
  /\ shown' \in [Names -> Periods \cup {None}]
  /\ LET wrong == {n \in Names : shown'[n] \notin {shown[n], None}}
     IN  /\ \E a, b \in Names : wrong \subseteq {a, b}
         /\ spoiled' = spoiled \cup {n \in wrong : file[n] # None}
  /\ stale' \in BOOLEAN
  /\ UNCHANGED <<file, now>>

Kept(n) == n = now.slot /\ file[n] = now.label /\ shown[n] = now.label

Recycle ==
  /\ file' \in [Names -> Periods \cup {None}] /\ Fades(file)
  /\ \A n \in Names : Kept(n) => file'[n] = file[n]
  /\ Cleared
  /\ UNCHANGED <<shown, now, stale>>

Wipe ==
  /\ stale
  /\ file' \in [Names -> Periods \cup {None}] /\ Fades(file)
  /\ shown' \in [Names -> Periods \cup {None}] /\ Fades(shown)
  /\ Cleared
  /\ stale' \in BOOLEAN
  /\ UNCHANGED now

\* The clock, the configuration, and what the index says of the kind.
Turn ==
  /\ now'.slot \in Names /\ now'.label \in Periods \cup {None}
  /\ stale' \in BOOLEAN
  /\ UNCHANGED <<file, shown, spoiled>>

Next == Log \/ Show \/ LoseDates \/ Spoil \/ Recycle \/ Wipe \/ Turn

Spec == Init /\ [][Next]_vars
=============================================================================
