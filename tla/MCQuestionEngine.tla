--------------------------- MODULE MCQuestionEngine ---------------------------
(* Instances of QuestionEngine for TLC.                                    *)
EXTENDS QuestionEngine
=============================================================================
