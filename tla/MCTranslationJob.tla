-------------------------- MODULE MCTranslationJob --------------------------
(* A translation job on a few markets with a title and a question.            *)
EXTENDS TranslationJob

CONSTANT j1

MCFields == <<"title", "question">>
=============================================================================
