--------------------------- MODULE MCJudgeService ---------------------------
(* JudgeService for TLC *)
EXTENDS JudgeService

MCVerdicts == {"AC", "WA", "UNK"}
MCLegacyRuns == {<<"WA">>}
=============================================================================
