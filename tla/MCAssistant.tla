----------------------------- MODULE MCAssistant -----------------------------
(* An instance of Assistant for TLC. *)
EXTENDS Assistant

CONSTANTS a, b, p, q

\* One request is a chat, beside it one of any kind.
MCKindsOf == [r \in Requests |-> IF r = a THEN {"chat"} ELSE Kinds]

\* The questions are wordings of one.
MCSimilar == [x \in Questions |-> Questions]
=============================================================================
