------------------------------- MODULE Reports -------------------------------
(***************************************************************************)
(* What the two report tools of the API can return, as sets of reports:    *)
(* verify_document (tools/verify_document.py) and predict_case_duration    *)
(* (tools/predict_case_duration.py).  A language model answers what it     *)
(* likes, so a report is chosen; the services that answer bound it.        *)
(*                                                                         *)
(* The form of a report is what the code after the tool can tell apart:    *)
(*   "whole"      as the response model declares it                        *)
(*   "coercible"  the model accepts it ("12" for 12), a column does not    *)
(*   "malformed"  a field is missing or of another shape                   *)
(*   "error"      the tool raises, or returns {"error": ...}               *)
(***************************************************************************)
EXTENDS Naturals, FiniteSets

Services == {"ollama", "qdrant", "postgres"}

Forms == {"whole", "coercible", "malformed", "error"}

Checks == {"metadata_extraction", "case_law_match", "fraud_analysis"}

\* The services a check calls; their failure is caught and the check has not passed.
Needs == [c \in Checks |-> IF c = "case_law_match" THEN {"ollama", "qdrant"} ELSE {"ollama"}]

\* _W_METADATA, _W_QDRANT and _W_FRAUD, in hundredths.
Weight == [c \in Checks |-> IF c = "metadata_extraction" THEN 20 ELSE 40]

Plus(c, passed) == IF c \in passed THEN Weight[c] ELSE 0

Score(passed) ==
  Plus("metadata_extraction", passed) + Plus("case_law_match", passed) + Plus("fraud_analysis", passed)

\* Mutant: one of the heavy checks is enough.
AuthenticByOne(passed) == Score(passed) >= 40

\* score >= 0.60
Authentic(passed) == Score(passed) >= 60

\* A check passes when its services answered and the answer speaks for the document.
Passed(answered, positive) == answered \cap positive

Report(answered, positive, form) ==
  [answered  |-> answered,
   positive  |-> positive,
   authentic |-> Authentic(Passed(answered, positive)),
   form      |-> form]

\* A service may also fail between two calls, so any reachable check may go
\* unanswered.  Metadata or flags that are not of the declared shape make the
\* report malformed, or raise while the summary is composed.
verify_document(up) ==
  LET reachable == {c \in Checks : Needs[c] \subseteq up}
  IN  (UNION {{Report(a, p, "whole") : p \in SUBSET a} : a \in SUBSET reachable})
      \cup {Report(a, {}, f) : a \in (SUBSET reachable) \ {{}}, f \in {"malformed", "error"}}

\* Retrieval of analogies may fail; without the language model there is no report.
predict_case_duration(up) ==
  {Report({}, {}, f) : f \in IF "ollama" \in up THEN Forms ELSE {"error"}}

\* VerificationReport(**report_data): raises on a malformed report.
Validated(report) == report.form # "malformed"

\* The INSERT fails on a value its column does not take.
Inserts(report) == report.form # "coercible"
=============================================================================
