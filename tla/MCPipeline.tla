------------------------------- MODULE MCPipeline -------------------------------
(***************************************************************************)
(* Small pipelines for TLC.  score and censor are pre-process modules, tts *)
(* is in the in-process chain, display is a post-process module, as in the *)
(* engine's own module set.                                                *)
(***************************************************************************)
EXTENDS Pipeline

CONSTANTS m1, m2, score, censor, tts, display

OneMessage  == {m1}
TwoMessages == {m1, m2}

NoChain  == <<>>
TtsChain == <<tts>>
TwoChain == <<tts, censor>>

PlainChat == [m \in Msg |-> NoModule]
TtsOwnsM1 == [m \in Msg |-> IF m = m1 THEN tts ELSE NoModule]
===============================================================================
