------------------------------- MODULE MCSurvey -------------------------------
(* Small instances of Survey for TLC. *)
EXTENDS Survey, TLC

\* Neither handlers nor the console's requests are told apart.
SurveySymmetry == Permutations(Handler) \cup Permutations(Fetch)

===============================================================================
