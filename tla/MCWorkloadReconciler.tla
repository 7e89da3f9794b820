------------------------ MODULE MCWorkloadReconciler ------------------------
(* Instances of WorkloadReconciler for TLC. *)
EXTENDS WorkloadReconciler

CONSTANTS ks, hr, sec, c1, t1, w1, w2, i1, i2

MCKindOf ==
  [n \in Names |-> CASE n = ks -> "Kustomization"
                     [] n = hr -> "HelmRelease"
                     [] OTHER -> "Other"]

Good(n) == [name |-> n, hasSpec |-> n # sec, check |-> "ok"]
Bad(n, failure) == [Good(n) EXCEPT !.check = failure]

\* Each source is named after the objects it renders; in the last two, a
\* field that is not concrete or has no valid spec follows a Kustomization.
MCFields ==
  [s \in Sources |->
     CASE s = "ks" -> << Good(ks) >>
       [] s = "hr" -> << Good(hr) >>
       [] s = "sec" -> << Good(sec) >>
       [] s = "ks_sec" -> << Good(ks), Good(sec) >>
       [] s = "ks_hr" -> << Good(ks), Good(hr) >>
       [] s = "incomplete" -> << Good(ks), Bad(hr, "ValidateFailed") >>
       [] s = "unset" -> << Good(ks), Bad(hr, "MutateFailed") >>]

\* Some sources do not accept the input i2.
MCOutcome ==
  [r \in Rendered |->
     IF r.source = "ks_hr" /\ r.input = i2 THEN "FillPathFailed" ELSE "ok"]

Usual == [owner |-> c1, label |-> c1, ref |-> t1, component |-> FALSE,
          input |-> i1]
UsualSpecs == {Usual}
InputSpecs == {Usual, [Usual EXCEPT !.input = i2]}
OddSpecs == {Usual, [Usual EXCEPT !.component = TRUE],
             [Usual EXCEPT !.owner = None], [Usual EXCEPT !.ref = None]}
=============================================================================
