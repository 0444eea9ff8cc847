------------------------ MODULE SubmissionLifecycle ------------------------
(***************************************************************************)
(* What the judge promises about one submission, without the queue, the     *)
(* workers or the failures: it is recorded once, it may then be             *)
(* acknowledged to the client, and it is decided at most once, for good.    *)
(***************************************************************************)
EXTENDS Verdicts

CONSTANT Submissions

VARIABLES verdict,   \* verdict[s]: the columns stored for submission s
          accepted   \* submissions whose client was answered 202

vars == <<verdict, accepted>>

Init ==
  /\ verdict = [s \in Submissions |-> Absent]
  /\ accepted = {}

Record(s) ==
  /\ verdict[s] = Absent
  /\ verdict' = [verdict EXCEPT ![s] = Processing]
  /\ UNCHANGED accepted

\* The client may hear of its submission before or after it is decided.
Accept(s) ==
  /\ verdict[s] # Absent
  /\ accepted' = accepted \cup {s}
  /\ UNCHANGED verdict

Decide(s) ==
  /\ verdict[s] = Processing
  /\ \E v \in Verdicts : verdict' = [verdict EXCEPT ![s] = v]
  /\ UNCHANGED accepted

Next == \E s \in Submissions : Record(s) \/ Accept(s) \/ Decide(s)

Spec == Init /\ [][Next]_vars
=============================================================================
