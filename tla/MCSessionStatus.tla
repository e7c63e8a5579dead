--------------------------- MODULE MCSessionStatus ---------------------------
(* Screens for SessionStatus, as small as the cases of each provider allow. *)
EXTENDS SessionStatus

Shown(title, tail, text, long) ==
  [title |-> title, tail |-> tail, text |-> text, long |-> long]

Empty == Shown(None, <<>>, 0, FALSE)

(* A prompt with older output above it, a working agent, a question.       *)
HermesScreens ==
  { Shown(None, <<{"ignored"}, {"prompt"}, {}>>, 0, TRUE),
    Shown(None, <<{"active"}, {}, {"prompt"}>>, 1, TRUE),
    Shown(None, <<{"approval"}, {}>>, 0, FALSE) }

CodexScreens ==
  { Empty,
    Shown(None, <<{"prompt"}, {}>>, 0, FALSE),
    Shown(None, <<{"waiting"}, {}>>, 0, FALSE) }

(* Titles that follow the agent, with an old active line above the prompt. *)
ClaudeScreens ==
  { Shown("prompt", <<{"prompt"}, {"active"}>>, 0, FALSE),
    Shown("active", <<{"prompt"}, {"active"}>>, 1, TRUE),
    Shown(None, <<{"approval"}>>, 0, FALSE) }

GeminiScreens ==
  { Shown("prompt", <<{"ignored", "prompt"}, {"active"}>>, 0, FALSE),
    Shown("active", <<{"active"}, {"prompt"}>>, 1, FALSE),
    Shown("approval", <<{"approval"}, {"active"}>>, 0, FALSE) }

OpenCodeScreens ==
  { Shown(None, <<{"prompt"}, {}>>, 0, FALSE),
    Shown(None, <<{"active"}, {"prompt"}>>, 1, FALSE),
    Shown(None, <<{"approval"}, {}>>, 0, FALSE) }

AllScreens == [codex |-> CodexScreens, claude |-> ClaudeScreens,
               gemini |-> GeminiScreens, hermes |-> HermesScreens,
               opencode |-> OpenCodeScreens]

OpenCodeOnly == [opencode |-> OpenCodeScreens]
=============================================================================
