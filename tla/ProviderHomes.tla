----------------------------- MODULE ProviderHomes -----------------------------
(***************************************************************************)
(* Where a provider's CLI keeps its talks, and how Hydra finds them again. *)
(*                                                                         *)
(* Workers run on the user's own files.  The master and the router of      *)
(* Codex, Gemini and OpenCode run on a home of their workspace folder that *)
(* Hydra prepares before every start, a Hermes session on a home of its    *)
(* token that is prepared once.  When a home cannot be prepared the plan   *)
(* leaves it out and the agent starts on the user's files.  The resolvers  *)
(* look for talks in the folder of a session; a talk here is the file or   *)
(* row a CLI writes for one conversation, and agents write at any time.    *)
(* A launch, a resume and a search are a step each, on the one thread that *)
(* makes them.  Claude, which has no resolver and no home, is left out.    *)
(***************************************************************************)
EXTENDS Integers, FiniteSets, SequencesExt

CONSTANTS
  Providers,       \* keys of the providers that are looked at
  Sessions,        \* sessions, each launched once at most
  Controls,        \* those that are a master or a router
  Blank,           \* those with the blank Hermes profile
  Outsiders,       \* talks the user begins without Hydra, in the repository
  None,
  MaxChanges,      \* bound: how often the user changes the own files
  MaxFaults        \* bound: how often a home cannot be prepared

ASSUME HomeAssumption ==
  /\ Providers \subseteq {"codex", "gemini", "hermes", "opencode"}
  /\ Providers # {}
  /\ Controls \cup Blank \subseteq Sessions
  /\ MaxChanges \in Nat /\ MaxFaults \in Nat

VARIABLES
  provider,   \* the provider of all sessions
  shared,     \* the user's own files
  homes,      \* the homes Hydra prepares
  made,       \* homes with a directory for talks, if none in it yet
  talks,      \* what is written, what was written last first
  rows,       \* the token of each session
  base,       \* m_pendingResumeResolutions
  agents,     \* where the running agents have their files
  changes,    \* changes of the user's files so far
  faults      \* failures so far

vars == <<provider, shared, homes, made, talks, rows, base, agents, changes,
          faults>>

Talks == Sessions \cup Outsiders

Pending == "pending"      \* any pending token
Gone == "gone"            \* the row was deleted

Folders == {"workspace", "repository"}
Folder(s) == IF s \in Controls THEN "workspace" ELSE "repository"

(* A home is named by its folder, one of Hermes by its token.              *)
Places == {"workspace"} \cup Sessions
Shared == "shared"

ASSUME NameAssumption ==
  /\ Sessions \cap Outsiders = {}
  /\ Talks \cap ({None, Pending, Gone, Shared} \cup Folders) = {}
  /\ None \notin {Pending, Gone}

(* Files have the number of the change that made them, 0 when they are not *)
(* there or cut short, and Link when they are links to the user's file.    *)
Link == 100
Versions == 0 .. MaxChanges + 1
Home == [login : Versions \cup {Link}, config : Versions \cup {Link},
         trust : BOOLEAN]
NoHome == [login |-> 0, config |-> 0, trust |-> FALSE]

Talk == [id : Talks, at : Places \cup {Shared}, folder : Folders]
Agent == [home : Places \cup {Shared}, talk : Talks, fresh : BOOLEAN]

TypeOK ==
  /\ provider \in Providers
  /\ shared \in [login : Versions, config : Versions]
  /\ homes \in [Places -> Home]
  /\ made \subseteq Places
  /\ talks \in Seq(Talk)
  /\ \A i, j \in 1..Len(talks) : talks[i].id = talks[j].id => i = j
  /\ rows \in [Sessions -> {None, Pending, Gone} \cup Talks]
  /\ base \in [Sessions -> {None} \cup SUBSET Talks]
  /\ agents \in [Sessions -> {None} \cup Agent]
  /\ \A s \in Sessions : agents[s] # None => rows[s] \notin {None, Gone}
  /\ changes \in 0..MaxChanges /\ faults \in 0..MaxFaults

Init ==
  /\ provider \in Providers
  /\ shared = [login |-> 1, config |-> 1]
  /\ homes = [p \in Places |-> NoHome]
  /\ made = {}
  /\ talks = <<>>
  /\ rows = [s \in Sessions |-> None]
  /\ base = [s \in Sessions |-> None]
  /\ agents = [s \in Sessions |-> None]
  /\ changes = 0
  /\ faults = 0

-----------------------------------------------------------------------------
(* Preparing a home                                                        *)

(* Mutant: a file that is there already is left as it is.                  *)
SyncedOnce(old, source) == IF source = 0 \/ old # 0 THEN old ELSE source

(* syncSharedAuthFile, syncGeminiFileIfPresent: the old file is removed    *)
(* and the user's copied, if there is one.                                 *)
Synced(old, source) == IF source = 0 THEN old ELSE source

(* What is left when the copy fails after the old file was removed.        *)
Lost(old, source) == IF source = 0 THEN old ELSE 0

(* prepareCodexHome: the login is copied, then the settings are written,   *)
(* the workspace's trust among them.  What a failure can leave behind:     *)
PrepareCodex(h) ==
  LET copied == [h EXCEPT !.login = Synced(@, shared.login)]
  IN  [done   |-> [copied EXCEPT !.config = shared.config, !.trust = TRUE],
       broken |-> {h, [h EXCEPT !.login = Lost(@, shared.login)], copied,
                   [copied EXCEPT !.config = 0, !.trust = FALSE]}]

(* prepareGeminiCliHome: the login and the list of trusted folders are     *)
(* copied, the settings merged, and the workspace is put on the list.      *)
PrepareGemini(h) ==
  LET copied == [h EXCEPT !.login = Synced(@, shared.login)]
      listed == [copied EXCEPT !.trust = FALSE]
      merged == [listed EXCEPT !.config = shared.config]
  IN  [done   |-> [merged EXCEPT !.trust = TRUE],
       broken |-> {h, [h EXCEPT !.login = Lost(@, shared.login)], copied,
                   listed, merged, [listed EXCEPT !.config = 0]}]

(* ensureHermesHomeInitialized: settings and login are links, made in this *)
(* order and not made again; the blank profile has none.                   *)
PrepareHermes(h, s) ==
  IF s \in Blank THEN [done |-> h, broken |-> {h}]
  ELSE [done   |-> [h EXCEPT !.login = Link, !.config = Link],
        broken |-> {h, [h EXCEPT !.config = Link]}]

(* prepareIsolatedOpenCodeState: directories, and a link to the user's     *)
(* programs; settings are handed over in the environment.                  *)
PrepareOpenCode(h) == [done |-> [h EXCEPT !.config = Link], broken |-> {h}]

Prepare(h, s) ==
  CASE provider = "codex"    -> PrepareCodex(h)
    [] provider = "gemini"   -> PrepareGemini(h)
    [] provider = "hermes"   -> PrepareHermes(h, s)
    [] provider = "opencode" -> PrepareOpenCode(h)

(* Mutant: the category of a session is not known when it is resumed.      *)
PlaceAtLaunch(s, token) ==
  CASE provider = "hermes" -> IF token = Pending THEN s ELSE token
    [] provider # "hermes" -> IF s \in Controls /\ token = Pending
                              THEN "workspace" ELSE Shared

(* The home a start asks for: codexHomePathForWorkingDirectory,            *)
(* geminiCliHomePathForWorkingDirectory, the XDG paths of OpenCode, and    *)
(* hermesHomePathForToken, which strips a pending token to the final one.  *)
PlaceOf(s, token) ==
  CASE provider = "hermes" -> IF token = Pending THEN s ELSE token
    [] provider # "hermes" -> IF s \in Controls THEN "workspace" ELSE Shared

(* The home a start gets.  Hermes does not prepare one to resume in.       *)
StartIn(s, token, home) ==
  LET place == PlaceOf(s, token)
  IN  CASE place = Shared \/ (provider = "hermes" /\ token # Pending) ->
             /\ home = place
             /\ UNCHANGED <<homes, faults>>
        [] place # Shared /\ ~(provider = "hermes" /\ token # Pending) ->
             LET plan == Prepare(homes[place], s)
             IN  \/ /\ home = place
                    /\ homes' = [homes EXCEPT ![place] = plan.done]
                    /\ UNCHANGED faults
                 \/ /\ home = Shared
                    /\ faults < MaxFaults /\ faults' = faults + 1
                    /\ \E h \in plan.broken :
                         homes' = [homes EXCEPT ![place] = h]

-----------------------------------------------------------------------------
(* Finding talks                                                           *)

(* Mutant: only the user's own files are looked through.                   *)
SeesShared(written, folder) == {Shared}

(* sessionDirectoryCandidates of Codex: the folder's home, once there is a *)
(* directory for talks in it; listAllSessions of Gemini,                   *)
(* listSessionsForWorkingDirectory of OpenCode; listManagedResumeTokens,   *)
(* of which the titles hydra-hermes-... in the user's own talks are left   *)
(* out: nothing here gives a talk such a title.                            *)
Sees(written, folder) ==
  CASE provider = "codex" ->
         IF \/ folder \in made
            \/ \E i \in 1..Len(written) : written[i].at = folder
         THEN {folder} ELSE {Shared}
    [] provider = "gemini"   -> {Shared} \cup Places
    [] provider = "hermes"   -> Sessions
    [] provider = "opencode" -> {Shared, folder}

(* What a resolver lists for a session's folder.  Hermes has the token of  *)
(* a home for the talk in it, and knows no folders.                        *)
Found(written, s) ==
  { i \in DOMAIN written :
      /\ written[i].at \in Sees(written, Folder(s))
      /\ provider = "hermes" \/ written[i].folder = Folder(s) }

IdOf(talk) == IF provider = "hermes" THEN talk.at ELSE talk.id

Listed(written, s) == { IdOf(written[i]) : i \in Found(written, s) }

Claimed(s) == { rows[x] : x \in Sessions \ {s} } \ {None, Pending, Gone}

(* findNewSessionId: the newest of those that are new; Hermes lists the    *)
(* homes by their own times.                                               *)
NewTalk(written, s) ==
  LET new    == { i \in Found(written, s) :
                    IdOf(written[i]) \notin base[s] \cup Claimed(s) }
      newest == { i \in new : \A j \in new : i <= j }
  IN  { IdOf(written[i]) : i \in IF provider = "hermes" THEN new ELSE newest }

(* resolveResumeToken for a pending row: what it may find, and the         *)
(* baseline it takes when there was none.                                  *)
Search(s) ==
  LET free == Listed(talks, s) \ Claimed(s)
  IN  CASE provider = "hermes" /\ s \in free -> {s}
        [] ~(provider = "hermes" /\ s \in free) /\ base[s] # None ->
             NewTalk(talks, s)
        [] ~(provider = "hermes" /\ s \in free) /\ base[s] = None ->
             IF Cardinality(free) = 1 THEN free ELSE {}

Baseline(s) == IF base[s] = None THEN Listed(talks, s) ELSE base[s]

-----------------------------------------------------------------------------
(* What the supervisor does                                                *)

(* launchSession: the baseline is read after the start, and a quick agent  *)
(* has its talk in it.                                                     *)
Launch(s) ==
  /\ rows[s] = None
  /\ \E home \in Places \cup {Shared}, quick \in BOOLEAN :
       /\ StartIn(s, Pending, home)
       /\ agents' = [agents EXCEPT ![s] = [home |-> home, talk |-> s,
                                           fresh |-> ~quick]]
       /\ LET talk == [id |-> s, at |-> home, folder |-> Folder(s)]
              written == IF quick THEN <<talk>> \o talks ELSE talks
          IN  /\ talks' = written
              /\ base' = [base EXCEPT ![s] = Listed(written, s)]
  /\ rows' = [rows EXCEPT ![s] = Pending]
  /\ UNCHANGED <<provider, shared, made, changes>>

(* resolvePendingResumeToken, of a refresh or a closing call.              *)
Resolve(s) ==
  /\ rows[s] = Pending
  /\ \/ \E c \in Search(s) :
          /\ rows' = [rows EXCEPT ![s] = c]
          /\ base' = [base EXCEPT ![s] = None]
     \/ /\ Search(s) = {}
        /\ base' = [base EXCEPT ![s] = Baseline(s)]
        /\ UNCHANGED rows
  /\ UNCHANGED <<provider, shared, homes, made, talks, agents, changes, faults>>

(* resumeSession of a closed row with a token.                             *)
Resume(s) ==
  /\ rows[s] \in Talks /\ agents[s] = None
  /\ \E home \in Places \cup {Shared} :
       /\ StartIn(s, rows[s], home)
       /\ agents' = [agents EXCEPT ![s] = [home |-> home, talk |-> rows[s],
                                           fresh |-> FALSE]]
  /\ base' = [base EXCEPT ![s] = None]
  /\ UNCHANGED <<provider, shared, made, talks, rows, changes>>

(* The agent ends, and its row is closed.                                  *)
Close(s) ==
  /\ agents[s] # None
  /\ agents' = [agents EXCEPT ![s] = None]
  /\ UNCHANGED <<provider, shared, homes, made, talks, rows, base, changes,
                 faults>>

(* Mutant: a session that runs is deleted too.                             *)
DeleteRunning(s) ==
  /\ rows[s] \notin {None, Gone}
  /\ rows' = [rows EXCEPT ![s] = Gone]
  /\ base' = [base EXCEPT ![s] = None]
  /\ UNCHANGED <<provider, shared, homes, made, talks, agents, changes, faults>>

(* deleteStoredSession: the talk stays where it is.                        *)
Delete(s) ==
  /\ rows[s] \notin {None, Gone} /\ agents[s] = None
  /\ rows' = [rows EXCEPT ![s] = Gone]
  /\ base' = [base EXCEPT ![s] = None]
  /\ UNCHANGED <<provider, shared, homes, made, talks, agents, changes, faults>>

(* The app is started anew, and closes what was left running.              *)
Restart ==
  /\ base' = [s \in Sessions |-> None]
  /\ agents' = [s \in Sessions |-> None]
  /\ UNCHANGED <<provider, shared, homes, made, talks, rows, changes, faults>>

-----------------------------------------------------------------------------
(* What others do                                                          *)

Positions(id) == { i \in 1..Len(talks) : talks[i].id = id }

(* A CLI makes the directory it will write its talks in; of Codex it is    *)
(* looked at.                                                              *)
AgentOpens(s) ==
  /\ provider = "codex" /\ agents[s] # None
  /\ agents[s].home \in Places \ made
  /\ made' = made \cup {agents[s].home}
  /\ UNCHANGED <<provider, shared, homes, talks, rows, base, agents, changes,
                 faults>>

(* An agent begins its talk or goes on with one that is in its home.       *)
AgentTalks(s) ==
  /\ agents[s] # None
  /\ LET a == agents[s]
         old == { i \in Positions(a.talk) : talks[i].at = a.home }
     IN  \/ /\ a.fresh
            /\ talks' = <<[id |-> s, at |-> a.home, folder |-> Folder(s)]>>
                          \o talks
            /\ agents' = [agents EXCEPT ![s].fresh = FALSE]
         \/ /\ ~a.fresh
            /\ \E i \in old : talks' = <<talks[i]>> \o RemoveAt(talks, i)
            /\ UNCHANGED agents
  /\ UNCHANGED <<provider, shared, homes, made, rows, base, changes, faults>>

(* The user begins a talk without Hydra.                                   *)
OutsiderTalks(o) ==
  /\ Positions(o) = {}
  /\ talks' = <<[id |-> o, at |-> Shared, folder |-> "repository"]>> \o talks
  /\ UNCHANGED <<provider, shared, homes, made, rows, base, agents, changes,
                 faults>>

(* The user logs out, or logs in anew and edits the settings.              *)
UserChanges ==
  /\ changes < MaxChanges /\ changes' = changes + 1
  /\ \/ shared' = [shared EXCEPT !.login = 0]
     \/ shared' = [login |-> changes + 2, config |-> changes + 2]
  /\ UNCHANGED <<provider, homes, made, talks, rows, base, agents, faults>>

Next ==
  \/ \E s \in Sessions : \/ Launch(s) \/ Resolve(s) \/ Resume(s) \/ Close(s)
                         \/ Delete(s) \/ AgentOpens(s) \/ AgentTalks(s)
  \/ \E o \in Outsiders : OutsiderTalks(o)
  \/ UserChanges
  \/ Restart

Spec == Init /\ [][Next]_vars

-----------------------------------------------------------------------------
(* Properties                                                              *)

(* An agent that starts in a home of Hydra's finds it complete and up to   *)
(* date: the login the user has, unless there is none, the settings, and   *)
(* the workspace trusted, whatever earlier starts left half done; and a    *)
(* Hermes home, which is not prepared again, had all its links made.       *)
Complete(s, h) ==
  CASE provider \in {"codex", "gemini"} ->
         /\ shared.login # 0 => h.login = shared.login
         /\ h.config = shared.config
         /\ h.trust
    [] provider = "hermes" -> h.login = h.config
    [] provider = "opencode" -> h.config = Link

StartsComplete ==
  [][\A s \in Sessions :
       agents[s] = None /\ agents'[s] # None /\ agents'[s].home # Shared
         => Complete(s, homes'[agents'[s].home])]_vars

(* A resumed agent starts on the files its talk is in: the CLI would not   *)
(* know the identifier elsewhere.  It holds as long as every home could be *)
(* prepared; a start that fell back to the user's files leaves talks where *)
(* a later one does not look.                                              *)
ResumesWhereItTalked ==
  [][\A s \in Sessions :
       faults' = 0 /\ agents[s] = None /\ agents'[s] # None /\ rows[s] # None
         => \E i \in Positions(rows[s]) : talks[i].at = agents'[s].home]_vars

(* What an agent wrote is seen from its folder.  Gemini's and OpenCode's   *)
(* resolvers look in both places; Codex's and Hermes's only find it where  *)
(* the agent was meant to write.                                           *)
TalkIsListed ==
  \A i \in 1..Len(talks) :
    LET t == talks[i]
    IN  t.id \in Sessions
          /\ (provider \in {"gemini", "opencode"} \/ t.at = PlaceOf(t.id, Pending))
        => t.id \in Listed(talks, t.id)

(* A master or router does not run on the user's files.                    *)
(* (openCodeEnvironmentForInvocation; README.md:111.)                      *)
ControlsAreIsolated ==
  \A s \in Controls : agents[s] # None => agents[s].home # Shared

================================================================================
