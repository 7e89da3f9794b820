------------------------------- MODULE Mirror -------------------------------
(***************************************************************************)
(* What the four mirroring controllers promise, whatever they read from    *)
(* and whenever they run: the copy of a source is made of fields of        *)
(* versions of the source, the version they are taken from never goes back *)
(* and nothing but the garbage collector removes a copy.                   *)
(***************************************************************************)
EXTENDS Integers, Sequences

CONSTANTS
  Kinds,         \* one source and one copy of each
  Wanted(_, _),  \* the copy that a version of the source of a kind calls for
  None

VARIABLES
  log,    \* every version of each source, None where it does not exist
  mark,   \* the version of each source that is known
  copy,   \* the copies
  edits   \* the edits of copies by others

vars == << log, mark, copy, edits >>

Init ==
  /\ log = [k \in Kinds |-> << None >>]
  /\ mark = [k \in Kinds |-> 1]
  /\ copy = [k \in Kinds |-> None]
  /\ edits = 0

\* What is known of a source never becomes older.
Forward == \A k \in Kinds : mark'[k] \in mark[k]..Len(log[k])

\* The source is created, changed or deleted.
Publish(k) ==
  /\ Len(log'[k]) = Len(log[k]) + 1
  /\ log' = [log EXCEPT ![k] = Append(@, log'[k][Len(@) + 1])]
  /\ UNCHANGED << mark, copy, edits >>

Observe == Forward /\ UNCHANGED << log, copy, edits >>

\* A new copy is that of the known version; of an existing one, each field
\* stays as it is or becomes that of the known version.
Copy(k) ==
  LET want == Wanted(k, log[k][mark[k]])
      Moved(v) == /\ DOMAIN v = DOMAIN want
                  /\ \A f \in DOMAIN want : v[f] \in {copy[k][f], want[f]}
  IN  /\ want # None
      /\ IF copy[k] = None THEN copy'[k] = want ELSE Moved(copy'[k])
      /\ copy' = [copy EXCEPT ![k] = copy'[k]]
      /\ Forward
      /\ UNCHANGED << log, edits >>

\* The owner of the copy is gone or goes.
Collect(k) ==
  LET source == log[k][Len(log[k])]
  IN  /\ copy[k] # None
      /\ \/ source = None
         \/ source # None /\ (copy[k].owner # source.uid \/ source.deleting)
      /\ copy' = [copy EXCEPT ![k] = None]
      /\ UNCHANGED << log, mark, edits >>

Edit(k) ==
  /\ copy' = [copy EXCEPT ![k] = copy'[k]]
  /\ edits' = edits + 1
  /\ UNCHANGED << log, mark >>

Next ==
  \/ Observe
  \/ \E k \in Kinds : Publish(k) \/ Edit(k) \/ Collect(k) \/ Copy(k)

Spec == Init /\ [][Next]_vars
=============================================================================
