--------------------------- MODULE SessionLifecycle ---------------------------
(***************************************************************************)
(* What SessionSupervisor promises about a session, whatever steps its     *)
(* calls take: a session is opened once, closed only when no agent of it   *)
(* runs any more, reopened for the conversation it is known by, and        *)
(* deleted for good, several at a time or none; at most one agent runs for *)
(* it; a conversation belongs to one session.  An agent that a failed      *)
(* command or a crash left behind does not count as running.               *)
(***************************************************************************)
CONSTANTS
  Sessions,        \* Hydra session ids
  Conversations,   \* identifiers of provider conversations
  Pending          \* the conversation is not known yet

VARIABLES
  life,      \* of each session: absent, open, closed, gone
  token,     \* the conversation it is known by, or Pending
  running    \* whether an agent runs for it

lifeVars == <<life, token, running>>

Tabled(s) == life[s] \in {"open", "closed"}

Free(s, k) == \A x \in Sessions \ {s} : Tabled(x) => token[x] # k

(* Token k may become the one of session s: it is the one it has, or the   *)
(* first that is found.                                                    *)
MayBe(s, k) == k = token[s] \/ (token[s] = Pending /\ Free(s, k))

LifeInit ==
  /\ life = [s \in Sessions |-> "absent"]
  /\ token = [s \in Sessions |-> Pending]
  /\ running = [s \in Sessions |-> FALSE]

AgentStarts(s) ==
  /\ life[s] \in {"absent", "closed"} /\ ~running[s]
  /\ running' = [running EXCEPT ![s] = TRUE]
  /\ UNCHANGED <<life, token>>

AgentStops(s) ==
  /\ running[s]
  /\ running' = [running EXCEPT ![s] = FALSE]
  /\ UNCHANGED <<life, token>>

(* A launch that cannot be written takes its agent with it, and its id is  *)
(* never used again.                                                       *)
Abandoned(s) ==
  /\ life[s] = "absent"
  /\ life' = [life EXCEPT ![s] = "gone"]
  /\ running' = [running EXCEPT ![s] = FALSE]
  /\ UNCHANGED token

Opened(s, k) ==
  /\ life[s] = "absent"
  /\ k = Pending \/ Free(s, k)
  /\ life' = [life EXCEPT ![s] = "open"]
  /\ token' = [token EXCEPT ![s] = k]
  /\ UNCHANGED running

Learnt(s, k) ==
  /\ Tabled(s) /\ MayBe(s, k)
  /\ token' = [token EXCEPT ![s] = k]
  /\ UNCHANGED <<life, running>>

Closed(s, k) ==
  /\ life[s] = "open" /\ ~running[s] /\ MayBe(s, k)
  /\ life' = [life EXCEPT ![s] = "closed"]
  /\ token' = [token EXCEPT ![s] = k]
  /\ UNCHANGED running

Reopened(s, k) ==
  /\ life[s] = "closed" /\ k # Pending /\ MayBe(s, k)
  /\ life' = [life EXCEPT ![s] = "open"]
  /\ token' = [token EXCEPT ![s] = k]
  /\ UNCHANGED running

Deleted(gone) ==
  /\ \A s \in gone : life[s] = "closed" /\ ~running[s]
  /\ life' = [s \in Sessions |-> IF s \in gone THEN "gone" ELSE life[s]]
  /\ token' = [s \in Sessions |-> IF s \in gone THEN Pending ELSE token[s]]
  /\ UNCHANGED running

LifeNext ==
  \/ \E s \in Sessions :
       \/ AgentStarts(s) \/ AgentStops(s) \/ Abandoned(s)
       \/ \E k \in Conversations \cup {Pending} :
            Opened(s, k) \/ Learnt(s, k) \/ Closed(s, k) \/ Reopened(s, k)
  \/ \E gone \in SUBSET Sessions : Deleted(gone)

LifeSpec == LifeInit /\ [][LifeNext]_lifeVars

=============================================================================
