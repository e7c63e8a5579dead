---------------------------- MODULE ResumeTokens ----------------------------
(***************************************************************************)
(* How Hydra finds out which provider conversation a session is.           *)
(*                                                                         *)
(* A session row carries a provider_session_id.  Some providers know it    *)
(* when the agent starts; for the others the row first holds a pending     *)
(* token ("codex-pending-<uuid>") and SessionSupervisor scans the          *)
(* provider's own files, again and again, until a conversation turns up    *)
(* that can be told to be this session's.  The definitions of this module  *)
(* are that search: pure functions of the row, of the identifiers visible  *)
(* in the working directory, of those other rows claim, and of the         *)
(* baseline the supervisor remembers for the session, if any.              *)
(***************************************************************************)
EXTENDS FiniteSets

CONSTANTS
  Sessions,        \* Hydra session ids
  Conversations,   \* identifiers of provider conversations
  Providers,       \* provider keys
  Provider,        \* the provider a session is launched with
  Catalog,         \* the conversation identifiers of a provider
  Scanning,        \* providers with a ProviderSessionResolver
  Fixed,           \* the conversation a session's launch command names, or None
  Pending,         \* a pending token: all of them are alike, none is a claim
  None             \* no row, no tmux session, no conversation, no baseline

ASSUME ProviderAssumption ==
  /\ Provider \in [Sessions -> Providers]
  /\ Catalog \in [Providers -> SUBSET Conversations]
  /\ Scanning \subseteq Providers

ASSUME FixedAssumption ==
  /\ Fixed \in [Sessions -> Conversations \cup {None}]
  /\ \A s \in Sessions : Provider[s] \notin Scanning => Fixed[s] # None
  /\ \A s, x \in Sessions : s # x /\ Fixed[s] = Fixed[x] => Fixed[s] = None

ASSUME NullAssumption ==
  /\ None \notin Sessions \cup Conversations
  /\ \A known \in SUBSET Conversations : None # known
  /\ Pending \notin Conversations
  /\ Pending # None

Tokens == Conversations \cup {Pending}

(* initialResumeToken: Claude is started with an id of Hydra's choosing,   *)
(* every provider that has a resolver with a pending token.                *)
InitialToken(s) == IF Provider[s] \in Scanning THEN Pending ELSE Fixed[s]

(* The tokens other rows hold.  Pending ones claim nothing.                *)
ClaimedExcluding(rows, s) ==
  { rows[x].token : x \in { y \in Sessions \ {s} : rows[y] # None } } \ {Pending}

(***************************************************************************)
(* resolveResumeToken for a row whose token is still pending.  The result  *)
(* pairs the token found (or None) with the baseline afterwards.           *)
(*   known        identifiers the resolver sees in the working directory   *)
(*   excluded     identifiers that belong to other rows                    *)
(*   base         identifiers known when the baseline was taken, or None   *)
(*   recoverable  the row is not a closed one: see SingleCandidate         *)
(* findNewSessionId returns the conversation touched last; agents touch    *)
(* their files at any time, so any new one may be it.                      *)
(***************************************************************************)
(* Mutant: the conversation the pending token names is not looked up.      *)
ExpectedIgnored(s, known, excluded) == {}

ExpectedFound(s, known, excluded) ==
  { c \in {Fixed[s]} \ {None} : c \in known \ excluded }

NewSince(base, known, excluded) == (known \ base) \ excluded

SingleCandidate(known, excluded, recoverable) ==
  { c \in known \ excluded : recoverable /\ known \ excluded = {c} }

Resolutions(s, known, excluded, base, recoverable) ==
  IF Provider[s] \notin Scanning
  THEN {[token |-> None, base |-> base]}
  ELSE LET candidates ==
             IF ExpectedFound(s, known, excluded) # {}
             THEN ExpectedFound(s, known, excluded)
             ELSE IF base # None
             THEN NewSince(base, known, excluded)
             ELSE SingleCandidate(known, excluded, recoverable)
       IN  IF candidates # {}
           THEN {[token |-> c, base |-> base] : c \in candidates}
           ELSE {[token |-> None, base |-> IF base = None THEN known ELSE base]}

(* A row the supervisor may give the only free conversation to: it is not  *)
(* closed, or whoever closed it did not clear its owner and tmux session.  *)
Recoverable(row) == row.state # "Exited" \/ row.owner # 0 \/ row.mux # None

=============================================================================
