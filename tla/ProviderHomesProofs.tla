-------------------------- MODULE ProviderHomesProofs --------------------------
(***************************************************************************)
(* Proofs about ProviderHomes: an agent starts in a complete home, a       *)
(* resumed one where its talk is, and what was written is found again, for *)
(* any number of sessions, of talks of the user's own, of logins and       *)
(* settings, and of failures.                                              *)
(***************************************************************************)
EXTENDS ProviderHomes, SequenceTheorems, TLAPS

Written == { talks[i] : i \in DOMAIN talks }

(* A talk is where its session was started: in the home meant for it or,   *)
(* when that could not be prepared, in the user's files.                   *)
TalksOK ==
  \A t \in Written :
    /\ t.id \in Sessions =>
         /\ t.at \in {PlaceOf(t.id, Pending), Shared}
         /\ t.folder = Folder(t.id)
         /\ rows[t.id] # None
    /\ t.id \in Outsiders => t.at = Shared /\ t.folder = "repository"

(* An agent that has not talked yet is a launched one.                     *)
AgentsOK ==
  \A s \in Sessions :
    agents[s] # None /\ agents[s].fresh =>
      /\ agents[s].home \in {PlaceOf(s, Pending), Shared}
      /\ \A t \in Written : t.id # s

(* A token that was found names a talk that can be seen from the session.  *)
Origin(s, t) ==
  /\ IdOf(t) = rows[s]
  /\ provider = "hermes" \/ t.folder = Folder(s)
  /\ provider = "hermes" => t.at # Shared

RowsOK ==
  \A s \in Sessions :
    rows[s] \in Talks => \E t \in Written : Origin(s, t)

(* The links of a Hermes home are all there or none is, unless the home    *)
(* could not be prepared; then nobody runs in it.                          *)
Whole(place) == homes[place].login = homes[place].config

HomesOK ==
  provider = "hermes" =>
    /\ \A s \in Sessions : rows[s] = None /\ s \in Blank => Whole(s)
    /\ \A t \in Written : t.at # Shared => Whole(t.at)
    /\ \A s \in Sessions :
         agents[s] # None /\ agents[s].fresh /\ agents[s].home # Shared
           => Whole(agents[s].home)

(* Without a failure nothing is written in another place.                  *)
PlacesOK ==
  faults = 0 =>
    /\ \A t \in Written : t.id \in Sessions => t.at = PlaceOf(t.id, Pending)
    /\ \A s \in Sessions :
         agents[s] # None /\ agents[s].fresh
           => agents[s].home = PlaceOf(s, Pending)

IInv == TypeOK /\ TalksOK /\ AgentsOK /\ RowsOK /\ HomesOK /\ PlacesOK

-----------------------------------------------------------------------------
(* What the operators return                                               *)

LEMMA PlaceIs ==
  ASSUME NEW s, NEW token
  PROVE  /\ provider = "hermes" =>
              PlaceOf(s, token) = IF token = Pending THEN s ELSE token
         /\ provider # "hermes" =>
              PlaceOf(s, token) = IF s \in Controls THEN "workspace" ELSE Shared
BY Zenon DEF PlaceOf

LEMMA SeesWhere ==
  ASSUME NEW w, NEW folder
  PROVE  /\ provider = "codex" =>
              Sees(w, folder) = IF \/ folder \in made
                                   \/ \E i \in 1..Len(w) : w[i].at = folder
                                THEN {folder} ELSE {Shared}
         /\ provider = "gemini" => Sees(w, folder) = {Shared} \cup Places
         /\ provider = "hermes" => Sees(w, folder) = Sessions
         /\ provider = "opencode" => Sees(w, folder) = {Shared, folder}
BY Zenon DEF Sees

(* A listed identifier is that of a talk, which outside Hermes has the     *)
(* folder of the session.                                                  *)
LEMMA ListedFrom ==
  ASSUME NEW w, NEW s, NEW c \in Listed(w, s)
  PROVE  \E i \in DOMAIN w :
           /\ c = IdOf(w[i])
           /\ provider = "hermes" => w[i].at \in Sessions
           /\ provider # "hermes" => w[i].folder = Folder(s)
BY SeesWhere DEF Listed, Found

LEMMA ListedType ==
  ASSUME NEW w \in Seq(Talk), NEW s
  PROVE  Listed(w, s) \subseteq Talks
<1>1. ASSUME NEW c \in Listed(w, s) PROVE c \in Talks
  <2>1. PICK i \in DOMAIN w : /\ c = IdOf(w[i])
                              /\ provider = "hermes" => w[i].at \in Sessions
    BY ListedFrom
  <2>2. w[i] \in Talk
    OBVIOUS
  <2> QED BY <2>1, <2>2 DEF IdOf, Talk, Talks
<1> QED BY <1>1

LEMMA NewIsListed ==
  ASSUME NEW w, NEW s
  PROVE  NewTalk(w, s) \subseteq Listed(w, s)
BY DEF NewTalk, Listed

LEMMA SearchFinds ==
  ASSUME NEW s PROVE Search(s) \subseteq Listed(talks, s)
<1> DEFINE free == Listed(talks, s) \ Claimed(s)
           own == provider = "hermes" /\ s \in free
<1>1. CASE own
  <2>1. Search(s) = {s}
    BY <1>1, Zenon DEF Search
  <2> QED BY <1>1, <2>1
<1>2. CASE ~own /\ base[s] # None
  <2>1. Search(s) = NewTalk(talks, s)
    BY <1>2, Zenon DEF Search
  <2> QED BY <2>1, NewIsListed
<1>3. CASE ~own /\ base[s] = None
  <2>1. Search(s) = IF Cardinality(free) = 1 THEN free ELSE {}
    BY <1>3, Zenon DEF Search
  <2> QED BY <2>1
<1> QED BY <1>1, <1>2, <1>3

-----------------------------------------------------------------------------
(* A home is prepared                                                      *)

LEMMA HomeFields ==
  ASSUME NEW h \in Home, NEW login \in Versions \cup {Link},
         NEW config \in Versions \cup {Link}, NEW trust \in BOOLEAN
  PROVE  /\ [h EXCEPT !.login = login] \in Home
         /\ [h EXCEPT !.config = config] \in Home
         /\ [h EXCEPT !.trust = trust] \in Home
BY DEF Home

LEMMA SyncedType ==
  ASSUME TypeOK, NEW old \in Versions \cup {Link}
  PROVE  /\ Synced(old, shared.login) \in Versions \cup {Link}
         /\ Lost(old, shared.login) \in Versions \cup {Link}
         /\ shared.config \in Versions \cup {Link}
         /\ shared.login # 0 => Synced(old, shared.login) = shared.login
         /\ 0 \in Versions
BY HomeAssumption DEF TypeOK, Synced, Lost, Versions

LEMMA CodexHome ==
  ASSUME TypeOK, NEW h \in Home
  PROVE  LET plan == PrepareCodex(h)
         IN  /\ plan.done \in Home /\ plan.broken \subseteq Home
             /\ shared.login # 0 => plan.done.login = shared.login
             /\ plan.done.config = shared.config /\ plan.done.trust = TRUE
<1> DEFINE login == Synced(h.login, shared.login)
           lost == Lost(h.login, shared.login)
           copied == [h EXCEPT !.login = login]
<1>1. h.login \in Versions \cup {Link}
  BY DEF Home
<1>2. /\ login \in Versions \cup {Link} /\ lost \in Versions \cup {Link}
      /\ shared.config \in Versions \cup {Link} /\ 0 \in Versions
      /\ shared.login # 0 => login = shared.login
  BY <1>1, SyncedType
<1>3. PrepareCodex(h) =
        [done   |-> [copied EXCEPT !.config = shared.config, !.trust = TRUE],
         broken |-> {h, [h EXCEPT !.login = lost], copied,
                     [copied EXCEPT !.config = 0, !.trust = FALSE]}]
  BY DEF PrepareCodex
<1> DEFINE written == [copied EXCEPT !.config = shared.config]
           done == [written EXCEPT !.trust = TRUE]
           cut == [copied EXCEPT !.config = 0]
<1>4. /\ copied \in Home /\ written \in Home /\ done \in Home
      /\ [h EXCEPT !.login = lost] \in Home
      /\ cut \in Home /\ [cut EXCEPT !.trust = FALSE] \in Home
  <2> HIDE DEF login, lost
  <2>1. copied \in Home /\ [h EXCEPT !.login = lost] \in Home
    BY <1>2, HomeFields
  <2> HIDE DEF copied
  <2>2. written \in Home /\ cut \in Home
    BY <1>2, <2>1, HomeFields
  <2> HIDE DEF written, cut
  <2> QED BY <2>1, <2>2, HomeFields
<1>5. /\ done = [copied EXCEPT !.config = shared.config, !.trust = TRUE]
      /\ [cut EXCEPT !.trust = FALSE]
           = [copied EXCEPT !.config = 0, !.trust = FALSE]
  OBVIOUS
<1>6. done.login = login /\ done.config = shared.config /\ done.trust = TRUE
  <2> HIDE DEF login, lost
  <2> QED BY DEF Home
<1>7. PrepareCodex(h) =
        [done   |-> done,
         broken |-> {h, [h EXCEPT !.login = lost], copied,
                     [cut EXCEPT !.trust = FALSE]}]
  BY <1>3, <1>5
<1> HIDE DEF login, lost, copied, written, done, cut
<1> QED BY <1>2, <1>4, <1>6, <1>7

LEMMA GeminiHome ==
  ASSUME TypeOK, NEW h \in Home
  PROVE  LET plan == PrepareGemini(h)
         IN  /\ plan.done \in Home /\ plan.broken \subseteq Home
             /\ shared.login # 0 => plan.done.login = shared.login
             /\ plan.done.config = shared.config /\ plan.done.trust = TRUE
<1> DEFINE login == Synced(h.login, shared.login)
           lost == Lost(h.login, shared.login)
           copied == [h EXCEPT !.login = login]
           listed == [copied EXCEPT !.trust = FALSE]
           merged == [listed EXCEPT !.config = shared.config]
           done == [merged EXCEPT !.trust = TRUE]
<1>1. h.login \in Versions \cup {Link}
  BY DEF Home
<1>2. /\ login \in Versions \cup {Link} /\ lost \in Versions \cup {Link}
      /\ shared.config \in Versions \cup {Link} /\ 0 \in Versions
      /\ shared.login # 0 => login = shared.login
  BY <1>1, SyncedType
<1>3. PrepareGemini(h) =
        [done   |-> done,
         broken |-> {h, [h EXCEPT !.login = lost], copied, listed, merged,
                     [listed EXCEPT !.config = 0]}]
  BY DEF PrepareGemini
<1>4. /\ copied \in Home /\ listed \in Home /\ merged \in Home /\ done \in Home
      /\ [h EXCEPT !.login = lost] \in Home /\ [listed EXCEPT !.config = 0] \in Home
  <2> HIDE DEF login, lost
  <2>1. copied \in Home /\ [h EXCEPT !.login = lost] \in Home
    BY <1>2, HomeFields
  <2> HIDE DEF copied
  <2>2. listed \in Home
    BY <2>1, HomeFields
  <2> HIDE DEF listed
  <2>3. merged \in Home /\ [listed EXCEPT !.config = 0] \in Home
    BY <1>2, <2>2, HomeFields
  <2> HIDE DEF merged
  <2> QED BY <2>1, <2>2, <2>3, HomeFields
<1>5. done.login = login /\ done.config = shared.config /\ done.trust = TRUE
  <2> HIDE DEF login, lost
  <2> QED BY DEF Home
<1> HIDE DEF login, lost, copied, listed, merged, done
<1> QED BY <1>2, <1>3, <1>4, <1>5

LEMMA HermesHome ==
  ASSUME NEW h \in Home, NEW s
  PROVE  LET plan == PrepareHermes(h, s)
         IN  /\ plan.done \in Home /\ plan.broken \subseteq Home
             /\ s \in Blank => plan.done = h /\ plan.broken = {h}
             /\ s \notin Blank => plan.done.login = plan.done.config
BY DEF PrepareHermes, Home

LEMMA OpenCodeHome ==
  ASSUME NEW h \in Home
  PROVE  LET plan == PrepareOpenCode(h)
         IN  /\ plan.done \in Home /\ plan.broken \subseteq Home
             /\ plan.done.config = Link
BY DEF PrepareOpenCode, Home

(* Whatever a home looked like, once prepared it is complete; one of the   *)
(* blank profile of Hermes is left as it is.                               *)
LEMMA Prepared ==
  ASSUME TypeOK, NEW h \in Home, NEW s \in Sessions
  PROVE  LET plan == Prepare(h, s)
         IN  /\ plan.done \in Home /\ plan.broken \subseteq Home
             /\ provider = "hermes" /\ s \in Blank =>
                  plan.done = h /\ plan.broken = {h}
             /\ ~(provider = "hermes" /\ s \in Blank) => Complete(s, plan.done)
<1>0. provider \in {"codex", "gemini", "hermes", "opencode"}
  BY HomeAssumption DEF TypeOK
<1>1. CASE provider = "codex"
  <2>1. /\ Prepare(h, s) = PrepareCodex(h)
        /\ \A x : Complete(s, x) <=> /\ shared.login # 0 => x.login = shared.login
                                     /\ x.config = shared.config
                                     /\ x.trust
    BY <1>1, Zenon DEF Prepare, Complete
  <2> QED BY <1>1, <2>1, CodexHome
<1>2. CASE provider = "gemini"
  <2>1. /\ Prepare(h, s) = PrepareGemini(h)
        /\ \A x : Complete(s, x) <=> /\ shared.login # 0 => x.login = shared.login
                                     /\ x.config = shared.config
                                     /\ x.trust
    BY <1>2, Zenon DEF Prepare, Complete
  <2> QED BY <1>2, <2>1, GeminiHome
<1>3. CASE provider = "hermes"
  <2>1. /\ Prepare(h, s) = PrepareHermes(h, s)
        /\ \A x : Complete(s, x) <=> x.login = x.config
    BY <1>3, Zenon DEF Prepare, Complete
  <2> QED BY <1>3, <2>1, HermesHome
<1>4. CASE provider = "opencode"
  <2>1. /\ Prepare(h, s) = PrepareOpenCode(h)
        /\ \A x : Complete(s, x) <=> x.config = Link
    BY <1>4, Zenon DEF Prepare, Complete
  <2> QED BY <1>4, <2>1, OpenCodeHome
<1> QED BY <1>0, <1>1, <1>2, <1>3, <1>4

-----------------------------------------------------------------------------
(* What is written                                                         *)

Unique(w) == \A i, j \in DOMAIN w : w[i].id = w[j].id => i = j

LEMMA TalkTypes ==
  ASSUME TypeOK
  PROVE  /\ Written \subseteq Talk
         /\ Unique(talks)
         /\ \A t, u \in Written : t.id = u.id => t = u
<1>1. talks \in Seq(Talk) /\ DOMAIN talks = 1 .. Len(talks)
  BY DEF TypeOK
<1>2. Unique(talks)
  BY <1>1 DEF TypeOK, Unique
<1> QED BY <1>1, <1>2 DEF Unique, Written

(* What is left of a sequence without one of its elements.                 *)
LEMMA TailAfter ==
  ASSUME NEW l \in Seq(Talk), NEW k \in 1 .. Len(l),
         NEW b, b = SubSeq(l, k + 1, Len(l))
  PROVE  /\ b \in Seq(Talk) /\ Len(b) = Len(l) - k
         /\ \A i \in 1 .. Len(l) - k : b[i] = l[k + i]
<1>0. Len(l) \in Nat /\ k + 1 \in Int /\ k \in Int /\ Len(l) \in Int
  OBVIOUS
<1>1. \A i \in k + 1 .. Len(l) : l[i] \in Talk
  OBVIOUS
<1>2. /\ b \in Seq(Talk)
      /\ Len(b) = IF k + 1 <= Len(l) THEN Len(l) - (k + 1) + 1 ELSE 0
      /\ \A i \in 1 .. Len(l) - (k + 1) + 1 : b[i] = l[(k + 1) + i - 1]
  BY <1>0, <1>1, SubSeqProperties
<1>3. Len(b) = Len(l) - k
  BY <1>0, <1>2
<1>4. ASSUME NEW i \in 1 .. Len(l) - k PROVE b[i] = l[k + i]
  <2>1. (k + 1) + i - 1 = k + i /\ i \in 1 .. Len(l) - (k + 1) + 1
    BY <1>0
  <2>2. QED
    BY <1>2, <2>1
<1>5. QED
  BY <1>2, <1>3, <1>4

LEMMA Dropped ==
  ASSUME NEW l \in Seq(Talk), NEW k \in 1 .. Len(l)
  PROVE  LET w == SubSeq(l, 1, k - 1) \o SubSeq(l, k + 1, Len(l))
         IN /\ w \in Seq(Talk) /\ Len(w) = Len(l) - 1
            /\ \A m \in 1 .. Len(l) - 1 : w[m] = IF m < k THEN l[m] ELSE l[m + 1]
<1> DEFINE a == SubSeq(l, 1, k - 1)
           b == SubSeq(l, k + 1, Len(l))
<1>0. b = SubSeq(l, k + 1, Len(l))
  OBVIOUS
<1>1. a \in Seq(Talk) /\ Len(a) = k - 1 /\ \A i \in 1 .. k - 1 : a[i] = l[i]
  BY SubSeqProperties
<1> HIDE DEF a, b
<1>2. b \in Seq(Talk) /\ Len(b) = Len(l) - k /\ \A i \in 1 .. Len(l) - k : b[i] = l[k + i]
  BY <1>0, TailAfter
<1>3. (a \o b) \in Seq(Talk) /\ Len(a \o b) = Len(l) - 1
  <2>1. (a \o b) \in Seq(Talk) /\ Len(a \o b) = Len(a) + Len(b)
    BY <1>1, <1>2, ConcatProperties
  <2>2. Len(l) \in Nat /\ k \in Nat
    OBVIOUS
  <2>3. Len(a) = k - 1
    BY <1>1
  <2>4. Len(b) = Len(l) - k
    BY <1>2
  <2>5. QED
    BY <2>1, <2>2, <2>3, <2>4
<1>4. ASSUME NEW m \in 1 .. Len(l) - 1
      PROVE  (a \o b)[m] = IF m < k THEN l[m] ELSE l[m + 1]
  <2>1. (a \o b)[m] = IF m <= Len(a) THEN a[m] ELSE b[m - Len(a)]
    BY <1>1, <1>2, ConcatProperties
  <2>2. CASE m < k
    BY <1>1, <2>1, <2>2
  <2>3. CASE ~(m < k)
    <3>1. /\ m - Len(a) \in 1 .. Len(l) - k /\ k + (m - Len(a)) = m + 1
          /\ ~(m <= Len(a))
      BY <1>1, <2>3
    <3>2. QED
      BY <1>2, <2>1, <2>3, <3>1
  <2>4. QED
    BY <2>2, <2>3
<1>5. QED
  BY <1>3, <1>4 DEF a, b

LEMMA Put ==
  ASSUME NEW x \in Talk, NEW w \in Seq(Talk)
  PROVE  /\ <<x>> \o w \in Seq(Talk) /\ Len(<<x>> \o w) = Len(w) + 1
         /\ (<<x>> \o w)[1] = x
         /\ \A j \in 1 .. Len(w) : (<<x>> \o w)[j + 1] = w[j]
OBVIOUS

(* Where the elements come from and go to when the i-th is moved first.    *)
Old(i, j) == IF j = 1 THEN i ELSE IF j <= i THEN j - 1 ELSE j
New(i, k) == IF k = i THEN 1 ELSE IF k < i THEN k + 1 ELSE k

LEMMA MovedFirst ==
  ASSUME NEW w \in Seq(Talk), NEW i \in 1 .. Len(w)
  PROVE  LET v == <<w[i]>> \o RemoveAt(w, i)
         IN  /\ v \in Seq(Talk) /\ Len(v) = Len(w)
             /\ \A j \in 1 .. Len(w) :
                  /\ Old(i, j) \in 1 .. Len(w) /\ New(i, j) \in 1 .. Len(w)
                  /\ New(i, Old(i, j)) = j /\ Old(i, New(i, j)) = j
                  /\ v[j] = w[Old(i, j)]
<1> DEFINE rest == RemoveAt(w, i)
           v == <<w[i]>> \o rest
<1>1. Len(w) \in Nat /\ i \in Int /\ 1 <= i /\ i <= Len(w) /\ w[i] \in Talk
  OBVIOUS
<1>2. /\ rest \in Seq(Talk) /\ Len(rest) = Len(w) - 1
      /\ \A m \in 1 .. Len(w) - 1 : rest[m] = IF m < i THEN w[m] ELSE w[m + 1]
  BY Dropped DEF RemoveAt
<1> HIDE DEF rest
<1>4. /\ v \in Seq(Talk) /\ Len(v) = Len(rest) + 1
      /\ v[1] = w[i]
      /\ \A j \in 1 .. Len(rest) : v[j + 1] = rest[j]
  BY <1>1, <1>2, Put
<1> HIDE DEF v
<1>5. ASSUME NEW j \in 1 .. Len(w)
      PROVE  /\ Old(i, j) \in 1 .. Len(w) /\ New(i, j) \in 1 .. Len(w)
             /\ New(i, Old(i, j)) = j /\ Old(i, New(i, j)) = j
  BY <1>1 DEF Old, New
<1>6. ASSUME NEW j \in 1 .. Len(w) PROVE v[j] = w[Old(i, j)]
  <2>1. CASE j = 1
    BY <1>4, <2>1 DEF Old
  <2>2. CASE j # 1 /\ j <= i
    <3>1. j - 1 \in 1 .. Len(w) - 1 /\ j - 1 < i /\ (j - 1) + 1 = j
      BY <1>1, <2>2
    <3>2. v[j] = rest[j - 1] /\ rest[j - 1] = w[j - 1]
      BY <1>2, <1>4, <3>1
    <3>3. Old(i, j) = j - 1
      BY <2>2 DEF Old
    <3> QED BY <3>2, <3>3
  <2>3. CASE j # 1 /\ ~(j <= i)
    <3>1. j - 1 \in 1 .. Len(w) - 1 /\ ~(j - 1 < i) /\ (j - 1) + 1 = j
      BY <1>1, <2>3
    <3>2. v[j] = rest[j - 1] /\ rest[j - 1] = w[j]
      BY <1>2, <1>4, <3>1
    <3>3. Old(i, j) = j
      BY <2>3 DEF Old
    <3> QED BY <3>2, <3>3
  <2> QED BY <2>1, <2>2, <2>3
<1>7. v \in Seq(Talk) /\ Len(v) = Len(w)
  BY <1>1, <1>2, <1>4
<1> QED BY <1>5, <1>6, <1>7 DEF v, rest

(* A new talk is written first.                                            *)
LEMMA Begun ==
  ASSUME TypeOK, NEW talk \in Talk, \A t \in Written : t.id # talk.id,
         talks' = <<talk>> \o talks
  PROVE  /\ talks' \in Seq(Talk) /\ Unique(talks)'
         /\ Written' = Written \cup {talk}
<1>1. talks \in Seq(Talk) /\ Unique(talks)
  BY TalkTypes DEF TypeOK
<1>2. /\ talks' \in Seq(Talk) /\ DOMAIN talks = 1 .. Len(talks)
      /\ DOMAIN talks' = 1 .. Len(talks) + 1
      /\ \A i \in DOMAIN talks' :
           talks'[i] = IF i = 1 THEN talk ELSE talks[i - 1]
  BY <1>1
<1>3. \A i \in DOMAIN talks : talks[i].id # talk.id /\ talks'[i + 1] = talks[i]
  BY <1>1, <1>2 DEF Written
<1>4. Unique(talks)'
  BY <1>1, <1>2, <1>3 DEF Unique
<1>5. Written' = Written \cup {talk}
  <2>1. Written' = { talks'[i] : i \in DOMAIN talks' }
    BY DEF Written
  <2>2. ASSUME NEW t \in Written' PROVE t \in Written \cup {talk}
    <3>1. PICK i \in DOMAIN talks' : t = talks'[i]
      BY <2>1
    <3>2. i # 1 => i - 1 \in DOMAIN talks /\ t = talks[i - 1]
      BY <1>2, <3>1
    <3> QED BY <1>2, <3>1, <3>2 DEF Written
  <2>3. ASSUME NEW t \in Written PROVE t \in Written'
    <3>1. PICK i \in DOMAIN talks : t = talks[i]
      BY DEF Written
    <3>2. i + 1 \in DOMAIN talks' /\ t = talks'[i + 1]
      BY <1>2, <1>3, <3>1
    <3> QED BY <2>1, <3>2
  <2>4. talk \in Written'
    <3>1. 1 \in DOMAIN talks' /\ talks'[1] = talk
      BY <1>1, <1>2
    <3> QED BY <2>1, <3>1
  <2> QED BY <2>2, <2>3, <2>4
<1> QED BY <1>2, <1>4, <1>5

(* A talk that goes on becomes the first one.                              *)
LEMMA WentOn ==
  ASSUME TypeOK, NEW i \in DOMAIN talks,
         talks' = <<talks[i]>> \o RemoveAt(talks, i)
  PROVE  /\ talks' \in Seq(Talk) /\ Unique(talks)'
         /\ Written' = Written
<1>1. /\ talks \in Seq(Talk) /\ Unique(talks) /\ DOMAIN talks = 1 .. Len(talks)
      /\ i \in 1 .. Len(talks)
  BY TalkTypes DEF TypeOK
<1>2. /\ talks' \in Seq(Talk) /\ Len(talks') = Len(talks)
      /\ \A j \in 1 .. Len(talks) :
           /\ Old(i, j) \in 1 .. Len(talks) /\ New(i, j) \in 1 .. Len(talks)
           /\ New(i, Old(i, j)) = j /\ Old(i, New(i, j)) = j
           /\ talks'[j] = talks[Old(i, j)]
  <2> DEFINE v == <<talks[i]>> \o RemoveAt(talks, i)
  <2>1. /\ v \in Seq(Talk) /\ Len(v) = Len(talks)
        /\ \A j \in 1 .. Len(talks) :
             /\ Old(i, j) \in 1 .. Len(talks) /\ New(i, j) \in 1 .. Len(talks)
             /\ New(i, Old(i, j)) = j /\ Old(i, New(i, j)) = j
             /\ v[j] = talks[Old(i, j)]
    BY <1>1, MovedFirst
  <2>2. talks' = v
    OBVIOUS
  <2> HIDE DEF v
  <2> QED BY <2>1, <2>2
<1>3. DOMAIN talks' = 1 .. Len(talks)
  BY <1>2
<1>4. Unique(talks)'
  <2>1. ASSUME NEW j \in 1 .. Len(talks), NEW k \in 1 .. Len(talks),
               talks'[j].id = talks'[k].id
        PROVE  j = k
    <3>1. /\ Old(i, j) \in DOMAIN talks /\ talks'[j] = talks[Old(i, j)]
          /\ Old(i, k) \in DOMAIN talks /\ talks'[k] = talks[Old(i, k)]
      BY <1>1, <1>2
    <3>2. Old(i, j) = Old(i, k)
      BY <1>1, <2>1, <3>1 DEF Unique
    <3> QED BY <1>2, <3>2
  <2> QED BY <1>3, <2>1 DEF Unique
<1>5. Written' = Written
  <2>1. /\ Written' = { talks'[j] : j \in 1 .. Len(talks) }
        /\ Written = { talks[k] : k \in 1 .. Len(talks) }
    BY <1>1, <1>3 DEF Written
  <2>2. ASSUME NEW t \in Written' PROVE t \in Written
    BY <1>2, <2>1
  <2>3. ASSUME NEW t \in Written PROVE t \in Written'
    <3>1. PICK k \in 1 .. Len(talks) : t = talks[k]
      BY <2>1
    <3>2. New(i, k) \in 1 .. Len(talks) /\ t = talks'[New(i, k)]
      BY <1>2, <3>1
    <3> QED BY <2>1, <3>2
  <2> QED BY <2>2, <2>3
<1> QED BY <1>2, <1>4, <1>5

-----------------------------------------------------------------------------
(* What the steps do                                                       *)

StartsPlain(s, token, home) ==
  /\ PlaceOf(s, token) = Shared \/ (provider = "hermes" /\ token # Pending)
  /\ home = PlaceOf(s, token)
  /\ UNCHANGED <<homes, faults>>

StartsPrepared(s, token, home) ==
  /\ PlaceOf(s, token) # Shared /\ (provider = "hermes" => token = Pending)
  /\ home = PlaceOf(s, token)
  /\ homes' = [homes EXCEPT ![home] = Prepare(homes[home], s).done]
  /\ UNCHANGED faults

StartsShared(s, token, home) ==
  /\ PlaceOf(s, token) # Shared /\ (provider = "hermes" => token = Pending)
  /\ home = Shared
  /\ faults < MaxFaults /\ faults' = faults + 1
  /\ \E h \in Prepare(homes[PlaceOf(s, token)], s).broken :
       homes' = [homes EXCEPT ![PlaceOf(s, token)] = h]

LEMMA StartCases ==
  ASSUME NEW s, NEW token, NEW home, StartIn(s, token, home)
  PROVE  \/ StartsPlain(s, token, home)
         \/ StartsPrepared(s, token, home)
         \/ StartsShared(s, token, home)
<1> DEFINE plain == PlaceOf(s, token) = Shared \/ (provider = "hermes" /\ token # Pending)
           asked == PlaceOf(s, token) # Shared /\ ~(provider = "hermes" /\ token # Pending)
<1>1. CASE plain
  <2>1. home = PlaceOf(s, token) /\ UNCHANGED <<homes, faults>>
    BY <1>1, Zenon DEF StartIn
  <2> QED BY <1>1, <2>1 DEF StartsPlain
<1>2. CASE asked
  <2>1. \/ /\ home = PlaceOf(s, token)
           /\ homes' = [homes EXCEPT ![PlaceOf(s, token)] =
                          Prepare(homes[PlaceOf(s, token)], s).done]
           /\ UNCHANGED faults
        \/ /\ home = Shared
           /\ faults < MaxFaults /\ faults' = faults + 1
           /\ \E h \in Prepare(homes[PlaceOf(s, token)], s).broken :
                homes' = [homes EXCEPT ![PlaceOf(s, token)] = h]
    BY <1>2, Zenon DEF StartIn
  <2> QED BY <1>2, <2>1 DEF StartsPrepared, StartsShared
<1> QED BY <1>1, <1>2

(* A start is in the place asked for or, after a failure, in the user's    *)
(* files, and only the home of that place changes.                         *)
LEMMA StartShape ==
  ASSUME TypeOK, NEW s \in Sessions, NEW token \in Talks \cup {Pending}, NEW home,
         StartIn(s, token, home)
  PROVE  /\ homes' \in [Places -> Home]
         /\ faults' \in 0 .. MaxFaults
         /\ faults' = faults \/ faults' = faults + 1
         /\ \/ home = PlaceOf(s, token) /\ faults' = faults
            \/ home = Shared /\ faults' = faults + 1
         /\ \A p \in Places : p # PlaceOf(s, token) => homes'[p] = homes[p]
         /\ provider = "hermes" /\ token # Pending => homes' = homes
<1> DEFINE place == PlaceOf(s, token)
           plan == Prepare(homes[place], s)
<1>1. homes \in [Places -> Home] /\ faults \in 0 .. MaxFaults
  BY DEF TypeOK
<1>2. token = Pending /\ place # Shared => place \in Places
  BY PlaceIs DEF Places
<1>3. provider # "hermes" /\ place # Shared => place \in Places
  BY PlaceIs DEF Places
<1>4. CASE StartsPlain(s, token, home)
  BY <1>1, <1>4 DEF StartsPlain
<1>5. CASE StartsPrepared(s, token, home)
  <2>1. place \in Places
    BY <1>2, <1>3, <1>5 DEF StartsPrepared
  <2>2. plan.done \in Home
    BY <1>1, <2>1, Prepared
  <2> HIDE DEF plan
  <2>3. homes' = [homes EXCEPT ![place] = plan.done] /\ home = place /\ faults' = faults
    BY <1>5 DEF StartsPrepared, plan
  <2>4. provider = "hermes" => token = Pending
    BY <1>5 DEF StartsPrepared
  <2> HIDE DEF place
  <2> QED BY <1>1, <2>1, <2>2, <2>3, <2>4 DEF place
<1>6. CASE StartsShared(s, token, home)
  <2>1. place \in Places
    BY <1>2, <1>3, <1>6 DEF StartsShared
  <2>2. plan.broken \subseteq Home
    BY <1>1, <2>1, Prepared
  <2> HIDE DEF plan
  <2>3. /\ home = Shared /\ faults < MaxFaults /\ faults' = faults + 1
        /\ \E h \in plan.broken : homes' = [homes EXCEPT ![place] = h]
    BY <1>6 DEF StartsShared, plan
  <2>4. provider = "hermes" => token = Pending
    BY <1>6 DEF StartsShared
  <2> HIDE DEF place
  <2>5. PICK h \in Home : homes' = [homes EXCEPT ![place] = h]
    BY <2>2, <2>3
  <2>6. faults' \in 0 .. MaxFaults
    BY <1>1, <2>3, HomeAssumption
  <2> QED BY <1>1, <2>1, <2>3, <2>4, <2>5, <2>6 DEF place
<1> QED BY <1>4, <1>5, <1>6, StartCases

(* The provider is chosen once.                                            *)
LEMMA ProviderStays ==
  ASSUME UNCHANGED provider
  PROVE  /\ \A s, token : PlaceOf(s, token)' = PlaceOf(s, token)
         /\ \A t : IdOf(t)' = IdOf(t)
BY Zenon DEF PlaceOf, IdOf

(* A launch starts an agent with a talk of its own to begin, which a quick *)
(* one has begun when the baseline is read.                                *)
LEMMA LaunchShape ==
  ASSUME TypeOK, TalksOK, NEW s \in Sessions, Launch(s)
  PROVE  \E home \in Places \cup {Shared}, quick \in BOOLEAN :
           LET talk == [id |-> s, at |-> home, folder |-> Folder(s)]
           IN  /\ StartIn(s, Pending, home)
               /\ agents' = [agents EXCEPT ![s] =
                               [home |-> home, talk |-> s, fresh |-> ~quick]]
               /\ talk \in Talk
               /\ talks' \in Seq(Talk) /\ Unique(talks)'
               /\ Written' = IF quick THEN Written \cup {talk} ELSE Written
               /\ base' \in [Sessions -> {None} \cup SUBSET Talks]
               /\ \A t \in Written : t.id # s
<1>1. PICK home \in Places \cup {Shared}, quick \in BOOLEAN :
        /\ StartIn(s, Pending, home)
        /\ agents' = [agents EXCEPT ![s] =
                        [home |-> home, talk |-> s, fresh |-> ~quick]]
        /\ talks' = IF quick
                    THEN <<[id |-> s, at |-> home, folder |-> Folder(s)]>> \o talks
                    ELSE talks
        /\ base' = [base EXCEPT ![s] = Listed(talks', s)]
  BY DEF Launch
<1> DEFINE talk == [id |-> s, at |-> home, folder |-> Folder(s)]
<1>2. talk \in Talk /\ talk.id = s
  BY DEF Talk, Talks, Folder, Folders
<1>3. \A t \in Written : t.id # s
  BY DEF TalksOK, Launch
<1>4. /\ talks' \in Seq(Talk) /\ Unique(talks)'
      /\ Written' = IF quick THEN Written \cup {talk} ELSE Written
  <2>1. CASE quick
    <3>1. talks' = <<talk>> \o talks
      BY <1>1, <2>1
    <3> HIDE DEF talk
    <3> QED BY <1>2, <1>3, <2>1, <3>1, Begun
  <2>2. CASE ~quick
    <3>1. talks' = talks
      BY <1>1, <2>2
    <3> QED BY <2>2, <3>1, TalkTypes DEF TypeOK, Unique, Written
  <2> QED BY <2>1, <2>2
<1>5. base' \in [Sessions -> {None} \cup SUBSET Talks]
  <2>1. Listed(talks', s) \subseteq Talks
    BY <1>4, ListedType
  <2> QED BY <1>1, <2>1 DEF TypeOK
<1> QED BY <1>1, <1>2, <1>3, <1>4, <1>5

LEMMA TypeFrom ==
  ASSUME TypeOK, talks' \in Seq(Talk), Unique(talks)'
  PROVE  \A i, j \in 1 .. Len(talks') : talks'[i].id = talks'[j].id => i = j
BY DEF Unique

LEMMA LaunchType ==
  ASSUME TypeOK, TalksOK, NEW s \in Sessions, Launch(s) PROVE TypeOK'
<1>1. PICK home \in Places \cup {Shared}, quick \in BOOLEAN :
        /\ StartIn(s, Pending, home)
        /\ agents' = [agents EXCEPT ![s] =
                        [home |-> home, talk |-> s, fresh |-> ~quick]]
        /\ talks' \in Seq(Talk) /\ Unique(talks)'
        /\ base' \in [Sessions -> {None} \cup SUBSET Talks]
  BY LaunchShape
<1>2. /\ homes' \in [Places -> Home] /\ faults' \in 0 .. MaxFaults
  BY <1>1, StartShape
<1>3. agents' \in [Sessions -> {None} \cup Agent]
  <2>1. [home |-> home, talk |-> s, fresh |-> ~quick] \in Agent
    BY DEF Agent, Talks
  <2> QED BY <1>1, <2>1 DEF TypeOK
<1>4. /\ rows' \in [Sessions -> {None, Pending, Gone} \cup Talks]
      /\ \A x \in Sessions : agents'[x] # None => rows'[x] \notin {None, Gone}
  <2>1. Pending # None /\ Pending # Gone
    BY NameAssumption DEF Pending, Gone
  <2>2. rows' = [rows EXCEPT ![s] = Pending]
    BY DEF Launch
  <2> QED BY <1>1, <2>1, <2>2 DEF TypeOK
<1>5. UNCHANGED <<provider, shared, made, changes>>
  BY DEF Launch
<1> QED BY <1>1, <1>2, <1>3, <1>4, <1>5, TypeFrom DEF TypeOK

LEMMA ResumeShape ==
  ASSUME NEW s \in Sessions, Resume(s)
  PROVE  \E home \in Places \cup {Shared} :
           /\ StartIn(s, rows[s], home)
           /\ agents' = [agents EXCEPT ![s] =
                           [home |-> home, talk |-> rows[s], fresh |-> FALSE]]
BY DEF Resume

LEMMA ResumeType ==
  ASSUME TypeOK, NEW s \in Sessions, Resume(s) PROVE TypeOK'
<1>1. PICK home \in Places \cup {Shared} :
        /\ StartIn(s, rows[s], home)
        /\ agents' = [agents EXCEPT ![s] =
                        [home |-> home, talk |-> rows[s], fresh |-> FALSE]]
  BY ResumeShape
<1>2. rows[s] \in Talks
      /\ UNCHANGED <<provider, shared, made, talks, rows, changes>>
  BY DEF Resume
<1>3. /\ homes' \in [Places -> Home] /\ faults' \in 0 .. MaxFaults
  BY <1>1, <1>2, StartShape
<1>4. agents' \in [Sessions -> {None} \cup Agent]
  <2>1. [home |-> home, talk |-> rows[s], fresh |-> FALSE] \in Agent
    BY <1>2 DEF Agent
  <2> QED BY <1>1, <2>1 DEF TypeOK
<1>5. \A x \in Sessions : agents'[x] # None => rows'[x] \notin {None, Gone}
  BY <1>1, <1>2, NameAssumption DEF TypeOK
<1>6. base' \in [Sessions -> {None} \cup SUBSET Talks]
  BY DEF Resume, TypeOK
<1> QED BY <1>1, <1>2, <1>3, <1>4, <1>5, <1>6 DEF TypeOK

LEMMA ResolveType ==
  ASSUME TypeOK, NEW s \in Sessions, Resolve(s) PROVE TypeOK'
<1>1. Listed(talks, s) \subseteq Talks
  BY ListedType DEF TypeOK
<1>2. Search(s) \subseteq Talks /\ Baseline(s) \in {None} \cup SUBSET Talks
  BY <1>1, SearchFinds DEF Baseline, TypeOK
<1>3. /\ rows' \in [Sessions -> {None, Pending, Gone} \cup Talks]
      /\ base' \in [Sessions -> {None} \cup SUBSET Talks]
      /\ \A x \in Sessions : rows'[x] \in {None, Gone} => rows[x] \in {None, Gone}
  BY <1>2, NameAssumption DEF Resolve, TypeOK
<1>4. UNCHANGED <<provider, shared, homes, made, talks, agents, changes, faults>>
  BY DEF Resolve
<1> QED BY <1>3, <1>4 DEF TypeOK

LEMMA OpensType ==
  ASSUME TypeOK, NEW s \in Sessions, AgentOpens(s) PROVE TypeOK'
BY DEF TypeOK, AgentOpens

LEMMA CloseType ==
  ASSUME TypeOK, NEW s \in Sessions, Close(s) PROVE TypeOK'
BY DEF Close, TypeOK

LEMMA DeleteType ==
  ASSUME TypeOK, NEW s \in Sessions, Delete(s) PROVE TypeOK'
BY DEF Delete, TypeOK

LEMMA RestartType == ASSUME TypeOK, Restart PROVE TypeOK'
BY DEF Restart, TypeOK

LEMMA UserType == ASSUME TypeOK, UserChanges PROVE TypeOK'
<1>1. /\ shared' \in [login : Versions, config : Versions]
      /\ changes' \in 0 .. MaxChanges
  BY HomeAssumption DEF UserChanges, TypeOK, Versions
<1> QED BY <1>1 DEF UserChanges, TypeOK

(* An agent begins its talk, or goes on with one of its home.              *)
LEMMA AgentTalksShape ==
  ASSUME TypeOK, AgentsOK, NEW s \in Sessions, AgentTalks(s)
  PROVE  LET talk == [id |-> s, at |-> agents[s].home, folder |-> Folder(s)]
         IN  /\ agents[s] # None /\ agents[s] \in Agent
             /\ talks' \in Seq(Talk) /\ Unique(talks)'
             /\ agents' \in [Sessions -> {None} \cup Agent]
             /\ \/ /\ agents[s].fresh
                   /\ Written' = Written \cup {talk}
                   /\ agents' = [agents EXCEPT ![s].fresh = FALSE]
                \/ Written' = Written /\ agents' = agents
<1> DEFINE talk == [id |-> s, at |-> agents[s].home, folder |-> Folder(s)]
<1>1. agents[s] # None /\ agents[s] \in Agent
  BY DEF AgentTalks, TypeOK
<1>2. CASE agents[s].fresh /\ talks' = <<talk>> \o talks
                           /\ agents' = [agents EXCEPT ![s].fresh = FALSE]
  <2>1. talk \in Talk /\ talk.id = s
    BY <1>1 DEF Talk, Talks, Agent, Folder, Folders
  <2>2. \A t \in Written : t.id # s
    BY <1>1, <1>2 DEF AgentsOK
  <2>3. agents' \in [Sessions -> {None} \cup Agent]
    BY <1>1, <1>2 DEF TypeOK, Agent
  <2>4. talks' = <<talk>> \o talks
    BY <1>2
  <2> HIDE DEF talk
  <2>5. talks' \in Seq(Talk) /\ Unique(talks)' /\ Written' = Written \cup {talk}
    BY <2>1, <2>2, <2>4, Begun
  <2> QED BY <1>1, <1>2, <2>3, <2>5 DEF talk
<1>3. CASE /\ \E i \in Positions(agents[s].talk) :
                talks' = <<talks[i]>> \o RemoveAt(talks, i)
           /\ agents' = agents
  <2>1. PICK i \in DOMAIN talks : talks' = <<talks[i]>> \o RemoveAt(talks, i)
    <3>1. DOMAIN talks = 1 .. Len(talks)
      BY DEF TypeOK
    <3> QED BY <1>3, <3>1 DEF Positions
  <2> QED BY <1>1, <1>3, <2>1, WentOn DEF TypeOK
<1> QED BY <1>1, <1>2, <1>3 DEF AgentTalks

LEMMA AgentTalksType ==
  ASSUME TypeOK, AgentsOK, NEW s \in Sessions, AgentTalks(s) PROVE TypeOK'
<1>1. /\ talks' \in Seq(Talk) /\ Unique(talks)'
      /\ agents' \in [Sessions -> {None} \cup Agent]
      /\ \A x \in Sessions : agents'[x] # None => agents[x] # None
  BY AgentTalksShape DEF TypeOK
<1>2. UNCHANGED <<provider, shared, homes, made, rows, base, changes, faults>>
  BY DEF AgentTalks
<1> QED BY <1>1, <1>2, TypeFrom DEF TypeOK

LEMMA OutsiderShape ==
  ASSUME TypeOK, NEW o \in Outsiders, OutsiderTalks(o)
  PROVE  LET talk == [id |-> o, at |-> Shared, folder |-> "repository"]
         IN  /\ talks' \in Seq(Talk) /\ Unique(talks)'
             /\ Written' = Written \cup {talk}
<1> DEFINE talk == [id |-> o, at |-> Shared, folder |-> "repository"]
<1>1. talk \in Talk /\ talk.id = o
  BY DEF Talk, Talks, Folders
<1>2. \A t \in Written : t.id # o
  <2>1. DOMAIN talks = 1 .. Len(talks)
    BY DEF TypeOK
  <2> QED BY <2>1 DEF OutsiderTalks, Positions, Written
<1>3. talks' = <<talk>> \o talks
  BY DEF OutsiderTalks
<1> HIDE DEF talk
<1>4. talks' \in Seq(Talk) /\ Unique(talks)' /\ Written' = Written \cup {talk}
  BY <1>1, <1>2, <1>3, Begun
<1> QED BY <1>4 DEF talk

LEMMA OutsiderType ==
  ASSUME TypeOK, NEW o \in Outsiders, OutsiderTalks(o) PROVE TypeOK'
<1>1. talks' \in Seq(Talk) /\ Unique(talks)'
  BY OutsiderShape
<1>2. UNCHANGED <<provider, shared, homes, made, rows, base, agents, changes,
                 faults>>
  BY DEF OutsiderTalks
<1> QED BY <1>1, <1>2, TypeFrom DEF TypeOK

-----------------------------------------------------------------------------
(* The parts of the invariant                                              *)

(* What is written stays.                                                  *)
LEMMA NothingIsUnwritten ==
  ASSUME IInv, [Next]_vars PROVE Written \subseteq Written'
<1> USE DEF IInv
<1>1. ASSUME NEW s \in Sessions, Launch(s) PROVE Written \subseteq Written'
  BY <1>1, LaunchShape
<1>2. ASSUME NEW s \in Sessions, AgentTalks(s) PROVE Written \subseteq Written'
  BY <1>2, AgentTalksShape
<1>3. ASSUME NEW o \in Outsiders, OutsiderTalks(o) PROVE Written \subseteq Written'
  BY <1>3, OutsiderShape
<1>4. ASSUME UNCHANGED talks PROVE Written \subseteq Written'
  BY <1>4 DEF Written
<1>5. ASSUME NEW s \in Sessions,
             \/ Resolve(s) \/ Resume(s) \/ Close(s) \/ Delete(s)
             \/ AgentOpens(s)
      PROVE  UNCHANGED talks
  BY <1>5 DEF Resolve, Resume, Close, Delete, AgentOpens
<1>6. UserChanges \/ Restart \/ UNCHANGED vars => UNCHANGED talks
  BY DEF UserChanges, Restart, vars
<1> QED BY <1>1, <1>2, <1>3, <1>4, <1>5, <1>6 DEF Next

(* TalksOK, AgentsOK and PlacesOK speak of the same: of where agents write *)
(* and where their talks are.                                              *)
WritersOK == TalksOK /\ AgentsOK /\ PlacesOK

LEMMA LaunchWriters ==
  ASSUME TypeOK, WritersOK, NEW s \in Sessions, Launch(s) PROVE WritersOK'
<1>1. PICK home \in Places \cup {Shared}, quick \in BOOLEAN :
        LET talk == [id |-> s, at |-> home, folder |-> Folder(s)]
        IN  /\ StartIn(s, Pending, home)
            /\ agents' = [agents EXCEPT ![s] =
                            [home |-> home, talk |-> s, fresh |-> ~quick]]
            /\ Written' = IF quick THEN Written \cup {talk} ELSE Written
            /\ \A t \in Written : t.id # s
  BY LaunchShape DEF WritersOK
<1> DEFINE talk == [id |-> s, at |-> home, folder |-> Folder(s)]
<1>2. /\ faults' = faults \/ faults' = faults + 1
      /\ faults \in Nat /\ faults' \in Nat
      /\ \/ home = PlaceOf(s, Pending) /\ faults' = faults
         \/ home = Shared /\ faults' = faults + 1
  <2>1. /\ faults' \in 0 .. MaxFaults
        /\ \/ home = PlaceOf(s, Pending) /\ faults' = faults
           \/ home = Shared /\ faults' = faults + 1
    BY <1>1, StartShape
  <2>2. faults \in 0 .. MaxFaults /\ MaxFaults \in Nat
    BY HomeAssumption DEF TypeOK
  <2> QED BY <2>1, <2>2
<1>3. faults' = 0 => faults = 0 /\ home = PlaceOf(s, Pending)
  BY <1>2
<1>4. UNCHANGED provider /\ rows' = [rows EXCEPT ![s] = Pending] /\ Pending # None
  BY NameAssumption DEF Launch, Pending
<1>5. \A x, token : PlaceOf(x, token)' = PlaceOf(x, token)
  BY <1>4, ProviderStays
<1>6. \A x \in Sessions : rows[x] # None => rows'[x] # None
  BY <1>4 DEF TypeOK
<1>7. rows'[s] # None
  BY <1>4 DEF TypeOK
<1>8. ASSUME NEW t \in Written'
      PROVE  t \in Written \/ t = talk
  BY <1>1
<1>9. TalksOK'
  <2>1. ASSUME NEW t \in Written'
        PROVE  /\ t.id \in Sessions =>
                    /\ t.at \in {PlaceOf(t.id, Pending), Shared}
                    /\ t.folder = Folder(t.id)
                    /\ rows'[t.id] # None
               /\ t.id \in Outsiders => t.at = Shared /\ t.folder = "repository"
    <3>1. CASE t \in Written
      BY <1>6, <3>1 DEF WritersOK, TalksOK
    <3>2. CASE t = talk
      BY <1>2, <1>7, <3>2, NameAssumption
    <3> QED BY <1>8, <3>1, <3>2
  <2> QED BY <1>5, <2>1 DEF TalksOK
<1>10. AgentsOK'
  <2>1. ASSUME NEW x \in Sessions, agents'[x] # None, agents'[x].fresh
        PROVE  /\ agents'[x].home \in {PlaceOf(x, Pending), Shared}
               /\ \A t \in Written' : t.id # x
    <3>1. CASE x = s
      <4>1. agents'[s] = [home |-> home, talk |-> s, fresh |-> ~quick]
        BY <1>1 DEF TypeOK
      <4>2. agents'[s].home = home /\ agents'[s].fresh = ~quick
        BY <4>1
      <4>3. ~quick
        BY <2>1, <3>1, <4>2
      <4> QED BY <1>1, <1>2, <3>1, <4>2, <4>3
    <3>2. CASE x # s
      <4>1. agents'[x] = agents[x]
        BY <1>1, <3>2 DEF TypeOK
      <4> QED BY <1>8, <2>1, <3>2, <4>1 DEF WritersOK, AgentsOK
    <3> QED BY <3>1, <3>2
  <2> QED BY <1>5, <2>1 DEF AgentsOK
<1>11. PlacesOK'
  <2>1. ASSUME faults' = 0, NEW t \in Written', t.id \in Sessions
        PROVE  t.at = PlaceOf(t.id, Pending)
    BY <1>3, <1>8, <2>1 DEF WritersOK, PlacesOK
  <2>2. ASSUME faults' = 0, NEW x \in Sessions, agents'[x] # None, agents'[x].fresh
        PROVE  agents'[x].home = PlaceOf(x, Pending)
    <3>1. CASE x = s
      <4>1. agents'[s] = [home |-> home, talk |-> s, fresh |-> ~quick]
        BY <1>1 DEF TypeOK
      <4> QED BY <1>3, <2>2, <3>1, <4>1
    <3>2. CASE x # s
      <4>1. agents'[x] = agents[x]
        BY <1>1, <3>2 DEF TypeOK
      <4> QED BY <1>3, <2>2, <4>1 DEF WritersOK, PlacesOK
    <3> QED BY <3>1, <3>2
  <2> QED BY <1>5, <2>1, <2>2 DEF PlacesOK
<1> QED BY <1>9, <1>10, <1>11 DEF WritersOK

LEMMA AgentTalksWriters ==
  ASSUME TypeOK, WritersOK, NEW s \in Sessions, AgentTalks(s) PROVE WritersOK'
<1> DEFINE talk == [id |-> s, at |-> agents[s].home, folder |-> Folder(s)]
<1>1. /\ agents[s] # None
      /\ \/ /\ agents[s].fresh
            /\ Written' = Written \cup {talk}
            /\ agents' = [agents EXCEPT ![s].fresh = FALSE]
         \/ Written' = Written /\ agents' = agents
  BY AgentTalksShape DEF WritersOK
<1>2. UNCHANGED <<provider, rows, faults>>
  BY DEF AgentTalks
<1>3. \A x, token : PlaceOf(x, token)' = PlaceOf(x, token)
  BY <1>2, ProviderStays
<1>4. ASSUME NEW t \in Written', t \notin Written
      PROVE  agents[s].fresh /\ t = talk
  BY <1>1, <1>4
<1>5. ASSUME NEW x \in Sessions, agents'[x] # None, agents'[x].fresh
      PROVE  /\ agents'[x] = agents[x]
             /\ x = s => Written' = Written
  <2>1. CASE Written' = Written /\ agents' = agents
    BY <2>1
  <2>2. CASE agents' = [agents EXCEPT ![s].fresh = FALSE]
    <3>1. x # s
      <4>1. agents[s] \in Agent
        BY <1>1 DEF TypeOK
      <4>2. agents'[s] = [agents[s] EXCEPT !.fresh = FALSE]
        BY <2>2 DEF TypeOK
      <4>3. agents'[s].fresh = FALSE
        BY <4>1, <4>2 DEF Agent
      <4> QED BY <1>5, <4>3
    <3> QED BY <2>2, <3>1 DEF TypeOK
  <2> QED BY <1>1, <2>1, <2>2
<1>6. TalksOK'
  <2>1. ASSUME NEW t \in Written'
        PROVE  /\ t.id \in Sessions =>
                    /\ t.at \in {PlaceOf(t.id, Pending), Shared}
                    /\ t.folder = Folder(t.id)
                    /\ rows[t.id] # None
               /\ t.id \in Outsiders => t.at = Shared /\ t.folder = "repository"
    <3>1. CASE t \in Written
      BY <3>1 DEF WritersOK, TalksOK
    <3>2. CASE t \notin Written
      <4>1. agents[s].home \in {PlaceOf(s, Pending), Shared}
        BY <1>1, <1>4, <3>2 DEF WritersOK, AgentsOK
      <4>2. rows[s] # None /\ s \notin Outsiders
        BY <1>1, NameAssumption DEF TypeOK
      <4> QED BY <1>4, <3>2, <4>1, <4>2
    <3> QED BY <3>1, <3>2
  <2> QED BY <1>2, <1>3, <2>1 DEF TalksOK
<1>7. AgentsOK'
  <2>1. ASSUME NEW x \in Sessions, agents'[x] # None, agents'[x].fresh
        PROVE  /\ agents'[x].home \in {PlaceOf(x, Pending), Shared}
               /\ \A t \in Written' : t.id # x
    <3>1. /\ agents'[x].home \in {PlaceOf(x, Pending), Shared}
          /\ \A t \in Written : t.id # x
      BY <1>5, <2>1 DEF WritersOK, AgentsOK
    <3>2. ASSUME NEW t \in Written', t \notin Written PROVE t.id # x
      BY <1>4, <1>5, <2>1, <3>2
    <3> QED BY <3>1, <3>2
  <2> QED BY <1>3, <2>1 DEF AgentsOK
<1>8. PlacesOK'
  <2>1. ASSUME faults = 0, NEW t \in Written', t.id \in Sessions
        PROVE  t.at = PlaceOf(t.id, Pending)
    <3>1. CASE t \in Written
      BY <2>1, <3>1 DEF WritersOK, PlacesOK
    <3>2. CASE t \notin Written
      BY <1>1, <1>4, <2>1, <3>2 DEF WritersOK, PlacesOK
    <3> QED BY <3>1, <3>2
  <2>2. ASSUME faults = 0, NEW x \in Sessions, agents'[x] # None, agents'[x].fresh
        PROVE  agents'[x].home = PlaceOf(x, Pending)
    BY <1>5, <2>2 DEF WritersOK, PlacesOK
  <2> QED BY <1>2, <1>3, <2>1, <2>2 DEF PlacesOK
<1> QED BY <1>6, <1>7, <1>8 DEF WritersOK

LEMMA OutsiderWriters ==
  ASSUME TypeOK, WritersOK, NEW o \in Outsiders, OutsiderTalks(o) PROVE WritersOK'
<1> DEFINE talk == [id |-> o, at |-> Shared, folder |-> "repository"]
<1>1. Written' = Written \cup {talk}
  BY OutsiderShape
<1>2. UNCHANGED <<provider, rows, agents, faults>>
  BY DEF OutsiderTalks
<1>3. \A x, token : PlaceOf(x, token)' = PlaceOf(x, token)
  BY <1>2, ProviderStays
<1>4. talk.id = o /\ talk.at = Shared /\ talk.folder = "repository" /\ o \notin Sessions
  BY NameAssumption
<1> HIDE DEF talk
<1>5. TalksOK'
  BY <1>1, <1>2, <1>3, <1>4 DEF WritersOK, TalksOK
<1>6. AgentsOK'
  BY <1>1, <1>2, <1>3, <1>4 DEF WritersOK, AgentsOK
<1>7. PlacesOK'
  BY <1>1, <1>2, <1>3, <1>4 DEF WritersOK, PlacesOK
<1> QED BY <1>5, <1>6, <1>7 DEF WritersOK

(* All other steps write nothing and start no agent with a new talk.       *)
LEMMA QuietWriters ==
  ASSUME WritersOK, UNCHANGED <<provider, talks>>,
         \A x \in Sessions : rows'[x] = None => rows[x] = None,
         \A x \in Sessions :
           agents'[x] # None /\ agents'[x].fresh => agents'[x] = agents[x],
         faults' = 0 => faults = 0
  PROVE  WritersOK'
<1>1. /\ \A x, token : PlaceOf(x, token)' = PlaceOf(x, token)
      /\ Written' = Written
  BY ProviderStays DEF Written
<1>2. TalksOK'
  BY <1>1 DEF WritersOK, TalksOK
<1>3. AgentsOK'
  BY <1>1 DEF WritersOK, AgentsOK
<1>4. PlacesOK'
  BY <1>1 DEF WritersOK, PlacesOK
<1> QED BY <1>2, <1>3, <1>4 DEF WritersOK

LEMMA ResumeWriters ==
  ASSUME TypeOK, WritersOK, NEW s \in Sessions, Resume(s) PROVE WritersOK'
<1>1. PICK home \in Places \cup {Shared} :
        /\ StartIn(s, rows[s], home)
        /\ agents' = [agents EXCEPT ![s] =
                        [home |-> home, talk |-> rows[s], fresh |-> FALSE]]
  BY ResumeShape
<1>2. rows[s] \in Talks /\ UNCHANGED <<provider, talks, rows>>
  BY DEF Resume
<1>3. faults' = 0 => faults = 0
  <2>1. faults' = faults \/ faults' = faults + 1
    BY <1>1, <1>2, StartShape
  <2>2. faults \in Nat
    BY DEF TypeOK
  <2> QED BY <2>1, <2>2
<1>4. ASSUME NEW x \in Sessions, agents'[x] # None, agents'[x].fresh
      PROVE  agents'[x] = agents[x]
  <2>1. agents'[s] = [home |-> home, talk |-> rows[s], fresh |-> FALSE]
    BY <1>1 DEF TypeOK
  <2>2. agents'[s].fresh = FALSE
    BY <2>1
  <2>3. x # s
    BY <1>4, <2>2
  <2> QED BY <1>1, <2>3 DEF TypeOK
<1> QED BY <1>2, <1>3, <1>4, QuietWriters

LEMMA StepWriters ==
  ASSUME TypeOK, WritersOK, [Next]_vars PROVE WritersOK'
<1>1. ASSUME NEW s \in Sessions, Launch(s) PROVE WritersOK'
  BY <1>1, LaunchWriters
<1>2. ASSUME NEW s \in Sessions, Resume(s) PROVE WritersOK'
  BY <1>2, ResumeWriters
<1>3. ASSUME NEW s \in Sessions, Resolve(s) PROVE WritersOK'
  <2>1. /\ UNCHANGED <<provider, talks, agents, faults>>
        /\ \A x \in Sessions : rows'[x] = None => rows[x] = None
    <3>1. Search(s) \subseteq Talks
      BY SearchFinds, ListedType DEF TypeOK
    <3> QED BY <1>3, <3>1, NameAssumption DEF Resolve, TypeOK
  <2> QED BY <2>1, QuietWriters
<1>4. ASSUME NEW s \in Sessions, Close(s) PROVE WritersOK'
  <2>1. /\ UNCHANGED <<provider, talks, rows, faults>>
        /\ \A x \in Sessions : agents'[x] # None => agents'[x] = agents[x]
    BY <1>4 DEF Close, TypeOK
  <2> QED BY <2>1, QuietWriters
<1>5. ASSUME NEW s \in Sessions, Delete(s) PROVE WritersOK'
  <2>1. /\ UNCHANGED <<provider, talks, agents, faults>>
        /\ \A x \in Sessions : rows'[x] = None => rows[x] = None
    BY <1>5, NameAssumption DEF Delete, TypeOK
  <2> QED BY <2>1, QuietWriters
<1>6. ASSUME NEW s \in Sessions, AgentTalks(s) PROVE WritersOK'
  BY <1>6, AgentTalksWriters
<1>7. ASSUME NEW o \in Outsiders, OutsiderTalks(o) PROVE WritersOK'
  BY <1>7, OutsiderWriters
<1>8. CASE UserChanges \/ Restart \/ UNCHANGED vars
  <2>1. /\ UNCHANGED <<provider, talks, rows, faults>>
        /\ \A x \in Sessions : agents'[x] # None => agents'[x] = agents[x]
    BY <1>8 DEF UserChanges, Restart, vars, TypeOK
  <2> QED BY <2>1, QuietWriters
<1>9. ASSUME NEW s \in Sessions, AgentOpens(s) PROVE WritersOK'
  BY <1>9, QuietWriters DEF AgentOpens
<1> QED BY <1>1, <1>2, <1>3, <1>4, <1>5, <1>6, <1>7, <1>8, <1>9 DEF Next

(* A token once found keeps the talk it was found by.                      *)
LEMMA StepRows ==
  ASSUME IInv, [Next]_vars PROVE RowsOK'
<1>1. UNCHANGED provider
  BY DEF Next, Launch, Resolve, Resume, Close, Delete, AgentOpens, AgentTalks,
         OutsiderTalks, UserChanges, Restart, vars
<1>2. ASSUME NEW x \in Sessions, rows'[x] \in Talks,
             NEW t \in Written, IdOf(t) = rows'[x],
             provider = "hermes" \/ t.folder = Folder(x),
             provider = "hermes" => t.at # Shared
      PROVE  \E u \in Written' : Origin(x, u)'
  <2>1. t \in Written' /\ IdOf(t)' = IdOf(t)
    BY <1>1, NothingIsUnwritten, ProviderStays
  <2> QED BY <1>1, <1>2, <2>1 DEF Origin
<1>3. ASSUME NEW x \in Sessions, rows'[x] \in Talks, rows'[x] = rows[x]
      PROVE  \E u \in Written' : Origin(x, u)'
  <2>1. PICK t \in Written : Origin(x, t)
    BY <1>3 DEF IInv, RowsOK
  <2> QED BY <1>2, <1>3, <2>1 DEF Origin
<1>4. ASSUME NEW s \in Sessions, Resolve(s), NEW x \in Sessions, rows'[x] \in Talks
      PROVE  \E u \in Written' : Origin(x, u)'
  <2>1. CASE rows'[x] = rows[x]
    BY <1>3, <1>4, <2>1
  <2>2. CASE rows'[x] # rows[x]
    <3>1. x = s /\ rows'[s] \in Search(s)
      BY <1>4, <2>2 DEF Resolve, IInv, TypeOK
    <3>2. rows'[s] \in Listed(talks, s)
      BY <3>1, SearchFinds
    <3>3. PICK i \in DOMAIN talks :
            /\ rows'[s] = IdOf(talks[i])
            /\ provider = "hermes" => talks[i].at \in Sessions
            /\ provider # "hermes" => talks[i].folder = Folder(s)
      BY <3>2, ListedFrom
    <3>4. talks[i] \in Written /\ Shared \notin Sessions
      BY NameAssumption DEF Written, Talks
    <3> QED BY <1>2, <1>4, <3>1, <3>3, <3>4
  <2> QED BY <2>1, <2>2
<1>5. ASSUME NEW s \in Sessions, Launch(s) \/ Delete(s),
             NEW x \in Sessions, rows'[x] \in Talks
      PROVE  rows'[x] = rows[x]
  BY <1>5, NameAssumption DEF Launch, Delete, IInv, TypeOK
<1>6. ASSUME NEW s \in Sessions,
             Resume(s) \/ Close(s) \/ AgentOpens(s) \/ AgentTalks(s)
      PROVE  UNCHANGED rows
  BY <1>6 DEF Resume, Close, AgentOpens, AgentTalks
<1>7. ASSUME NEW o \in Outsiders, OutsiderTalks(o) PROVE UNCHANGED rows
  BY <1>7 DEF OutsiderTalks
<1>8. UserChanges \/ Restart \/ UNCHANGED vars => UNCHANGED rows
  BY DEF UserChanges, Restart, vars
<1>9. ASSUME NEW x \in Sessions, rows'[x] \in Talks
      PROVE  \E u \in Written' : Origin(x, u)'
  BY <1>3, <1>4, <1>5, <1>6, <1>7, <1>8, <1>9 DEF Next
<1> QED BY <1>9 DEF RowsOK

(* The home a Hermes session is launched in has its links.                 *)
LEMMA LaunchedHome ==
  ASSUME IInv, provider = "hermes", NEW s \in Sessions, Launch(s), NEW home,
         StartIn(s, Pending, home), home # Shared
  PROVE  home = s /\ Whole(s)'
<1>1. PlaceOf(s, Pending) = s /\ s # Shared /\ s \in Places
  BY PlaceIs, NameAssumption DEF Talks, Places
<1>2. StartsPrepared(s, Pending, home)
  BY <1>1, StartCases DEF StartsPlain, StartsShared
<1>3. homes[s] \in Home /\ homes \in [Places -> Home]
  BY <1>1 DEF IInv, TypeOK
<1> DEFINE plan == Prepare(homes[s], s)
<1>4. /\ s \in Blank => plan.done = homes[s]
      /\ s \notin Blank => Complete(s, plan.done)
  BY <1>3, Prepared DEF IInv
<1>5. \A h : Complete(s, h) <=> h.login = h.config
  BY Zenon DEF Complete
<1>6. s \in Blank => homes[s].login = homes[s].config
  BY DEF Launch, IInv, HomesOK, Whole
<1>7. home = s /\ homes' = [homes EXCEPT ![s] = plan.done]
  BY <1>1, <1>2 DEF StartsPrepared
<1> HIDE DEF plan
<1>8. homes'[s] = plan.done
  BY <1>1, <1>3, <1>7
<1> QED BY <1>4, <1>5, <1>6, <1>7, <1>8 DEF Whole

LEMMA LaunchHomes ==
  ASSUME IInv, NEW s \in Sessions, Launch(s) PROVE HomesOK'
<1> USE DEF IInv
<1>1. PICK home \in Places \cup {Shared}, quick \in BOOLEAN :
        LET talk == [id |-> s, at |-> home, folder |-> Folder(s)]
        IN  /\ StartIn(s, Pending, home)
            /\ agents' = [agents EXCEPT ![s] =
                            [home |-> home, talk |-> s, fresh |-> ~quick]]
            /\ Written' = IF quick THEN Written \cup {talk} ELSE Written
            /\ \A t \in Written : t.id # s
  BY LaunchShape
<1> DEFINE talk == [id |-> s, at |-> home, folder |-> Folder(s)]
<1>2. UNCHANGED provider /\ rows[s] = None /\ rows' = [rows EXCEPT ![s] = Pending]
      /\ Pending # None
  BY NameAssumption DEF Launch, Pending
<1>3. SUFFICES ASSUME provider = "hermes" PROVE HomesOK'
  BY <1>2 DEF HomesOK
<1>4. PlaceOf(s, Pending) = s
  BY <1>3, PlaceIs
<1>5. ASSUME NEW p \in Places, p # s PROVE Whole(p)' <=> Whole(p)
  BY <1>1, <1>4, <1>5, StartShape DEF Whole
<1>6. home # Shared => home = s /\ Whole(s)'
  BY <1>1, <1>3, LaunchedHome
<1>7. ASSUME NEW x \in Sessions, rows'[x] = None, x \in Blank PROVE Whole(x)'
  <2>1. x # s /\ rows[x] = None /\ x \in Places
    BY <1>2, <1>7 DEF TypeOK, Places
  <2> QED BY <1>3, <1>5, <1>7, <2>1 DEF HomesOK
<1>8. ASSUME NEW t \in Written', t.at # Shared PROVE Whole(t.at)'
  <2>1. CASE t \in Written
    <3>1. t \in Talk
      BY <2>1, TalkTypes
    <3>2. t.id \in Sessions
      BY <1>8, <2>1, <3>1 DEF TalksOK, Talk, Talks
    <3>3. t.at = t.id
      BY <1>3, <1>8, <2>1, <3>2, PlaceIs DEF TalksOK
    <3>4. t.at # s /\ t.at \in Places
      BY <1>1, <2>1, <3>2, <3>3 DEF Places
    <3> QED BY <1>3, <1>5, <1>8, <2>1, <3>4 DEF HomesOK
  <2>2. CASE t \notin Written
    BY <1>1, <1>6, <1>8, <2>2
  <2> QED BY <2>1, <2>2
<1>9. ASSUME NEW x \in Sessions, agents'[x] # None, agents'[x].fresh,
             agents'[x].home # Shared, NEW p, p = agents'[x].home
      PROVE  Whole(p)'
  <2>1. CASE x = s
    <3>1. agents'[s].home = home
      BY <1>1 DEF TypeOK
    <3> QED BY <1>6, <1>9, <2>1, <3>1
  <2>2. CASE x # s
    <3>1. agents'[x] = agents[x]
      BY <1>1, <2>2 DEF TypeOK
    <3>2. agents[x].home = x
      BY <1>3, <1>9, <3>1, PlaceIs DEF AgentsOK
    <3>3. Whole(p) /\ p \in Places /\ p # s
      BY <1>3, <1>9, <2>2, <3>1, <3>2 DEF HomesOK, Places
    <3> QED BY <1>5, <3>3
  <2> QED BY <2>1, <2>2
<1> QED BY <1>3, <1>7, <1>8, <1>9 DEF HomesOK, Whole

(* Steps that leave the homes alone and begin no talk in one.              *)
LEMMA QuietHomes ==
  ASSUME HomesOK, UNCHANGED provider, provider = "hermes" => UNCHANGED homes,
         \A x \in Sessions : rows'[x] = None => rows[x] = None,
         \A t \in Written' : t \in Written \/ t.at = Shared
           \/ \E x \in Sessions :
                agents[x] # None /\ agents[x].fresh /\ t.at = agents[x].home,
         \A x \in Sessions :
           agents'[x] # None /\ agents'[x].fresh => agents'[x] = agents[x]
  PROVE  HomesOK'
<1>1. provider = "hermes" => \A p : Whole(p)' <=> Whole(p)
  BY DEF Whole
<1>2. SUFFICES ASSUME provider = "hermes" PROVE HomesOK'
  BY DEF HomesOK
<1>3. ASSUME NEW t \in Written', t.at # Shared PROVE Whole(t.at)
  BY <1>2, <1>3 DEF HomesOK
<1>4. ASSUME NEW x \in Sessions, agents'[x] # None, agents'[x].fresh,
             agents'[x].home # Shared
      PROVE  Whole(agents'[x].home)
  <2>1. agents'[x] = agents[x]
    BY <1>4
  <2> QED BY <1>2, <1>4, <2>1 DEF HomesOK
<1>5. \A x \in Sessions : rows'[x] = None /\ x \in Blank => Whole(x)
  BY <1>2 DEF HomesOK
<1>6. /\ \A t \in Written' : t.at # Shared => Whole(t.at)'
      /\ \A p : \A x \in Sessions :
           agents'[x] # None /\ agents'[x].fresh /\ agents'[x].home # Shared
             /\ p = agents'[x].home => Whole(p)'
      /\ \A x \in Sessions : rows'[x] = None /\ x \in Blank => Whole(x)'
  BY <1>1, <1>2, <1>3, <1>4, <1>5
<1> QED BY <1>6 DEF HomesOK, Whole

LEMMA StepHomes ==
  ASSUME IInv, [Next]_vars PROVE HomesOK'
<1> USE DEF IInv
<1>1. ASSUME NEW s \in Sessions, Launch(s) PROVE HomesOK'
  BY <1>1, LaunchHomes
<1>2. ASSUME NEW s \in Sessions, Resume(s) PROVE HomesOK'
  <2>1. PICK home \in Places \cup {Shared} :
          /\ StartIn(s, rows[s], home)
          /\ agents' = [agents EXCEPT ![s] =
                          [home |-> home, talk |-> rows[s], fresh |-> FALSE]]
    BY <1>2, ResumeShape
  <2>2. rows[s] \in Talks /\ rows[s] # Pending
        /\ UNCHANGED <<provider, talks, rows>>
    BY <1>2, NameAssumption DEF Resume
  <2>3. provider = "hermes" => UNCHANGED homes
    BY <2>1, <2>2, StartShape
  <2>4. ASSUME NEW x \in Sessions, agents'[x] # None, agents'[x].fresh
        PROVE  agents'[x] = agents[x]
    <3>1. agents'[s] = [home |-> home, talk |-> rows[s], fresh |-> FALSE]
      BY <2>1 DEF TypeOK
    <3>2. agents'[s].fresh = FALSE
      BY <3>1
    <3>3. x # s
      BY <2>4, <3>2
    <3> QED BY <2>1, <3>3 DEF TypeOK
  <2>5. Written' = Written
    BY <2>2 DEF Written
  <2> QED BY <2>2, <2>3, <2>4, <2>5, QuietHomes
<1>3. ASSUME NEW s \in Sessions, Resolve(s) PROVE HomesOK'
  <2>1. /\ UNCHANGED <<provider, homes, talks, agents>>
        /\ \A x \in Sessions : rows'[x] = None => rows[x] = None
    <3>1. Search(s) \subseteq Talks
      BY SearchFinds, ListedType DEF TypeOK
    <3> QED BY <1>3, <3>1, NameAssumption DEF Resolve, TypeOK
  <2>2. Written' = Written
    BY <2>1 DEF Written
  <2> QED BY <2>1, <2>2, QuietHomes
<1>4. ASSUME NEW s \in Sessions, Close(s) PROVE HomesOK'
  <2>1. /\ UNCHANGED <<provider, homes, talks, rows>>
        /\ \A x \in Sessions : agents'[x] # None => agents'[x] = agents[x]
    BY <1>4 DEF Close, TypeOK
  <2>2. Written' = Written
    BY <2>1 DEF Written
  <2> QED BY <2>1, <2>2, QuietHomes
<1>5. ASSUME NEW s \in Sessions, Delete(s) PROVE HomesOK'
  <2>1. /\ UNCHANGED <<provider, homes, talks, agents>>
        /\ \A x \in Sessions : rows'[x] = None => rows[x] = None
    BY <1>5, NameAssumption DEF Delete, TypeOK
  <2>2. Written' = Written
    BY <2>1 DEF Written
  <2> QED BY <2>1, <2>2, QuietHomes
<1>6. ASSUME NEW s \in Sessions, AgentTalks(s) PROVE HomesOK'
  <2> DEFINE talk == [id |-> s, at |-> agents[s].home, folder |-> Folder(s)]
  <2>1. /\ agents[s] # None /\ agents[s] \in Agent
        /\ \/ /\ agents[s].fresh
              /\ Written' = Written \cup {talk}
              /\ agents' = [agents EXCEPT ![s].fresh = FALSE]
           \/ Written' = Written /\ agents' = agents
    BY <1>6, AgentTalksShape
  <2>2. UNCHANGED <<provider, homes, rows>>
    BY <1>6 DEF AgentTalks
  <2>3. ASSUME NEW x \in Sessions, agents'[x] # None, agents'[x].fresh
        PROVE  agents'[x] = agents[x]
    <3>1. CASE agents' = agents
      BY <3>1
    <3>2. CASE agents' = [agents EXCEPT ![s].fresh = FALSE]
      <4>1. agents'[s] = [agents[s] EXCEPT !.fresh = FALSE]
        BY <3>2 DEF TypeOK
      <4>2. agents'[s].fresh = FALSE
        BY <2>1, <4>1 DEF Agent
      <4>3. x # s
        BY <2>3, <4>2
      <4> QED BY <3>2, <4>3 DEF TypeOK
    <3> QED BY <2>1, <3>1, <3>2
  <2>4. ASSUME NEW t \in Written', t \notin Written
        PROVE  \E x \in Sessions :
                 agents[x] # None /\ agents[x].fresh /\ t.at = agents[x].home
    BY <2>1, <2>4
  <2> QED BY <2>2, <2>3, <2>4, QuietHomes
<1>7. ASSUME NEW o \in Outsiders, OutsiderTalks(o) PROVE HomesOK'
  <2>1. UNCHANGED <<provider, homes, rows, agents>>
    BY <1>7 DEF OutsiderTalks
  <2>2. \A t \in Written' : t \in Written \/ t.at = Shared
    BY <1>7, OutsiderShape
  <2> QED BY <2>1, <2>2, QuietHomes
<1>8. CASE UserChanges \/ Restart \/ UNCHANGED vars
  <2>1. /\ UNCHANGED <<provider, homes, talks, rows>>
        /\ \A x \in Sessions : agents'[x] # None => agents'[x] = agents[x]
    BY <1>8 DEF UserChanges, Restart, vars, TypeOK
  <2>2. Written' = Written
    BY <2>1 DEF Written
  <2> QED BY <2>1, <2>2, QuietHomes
<1>9. ASSUME NEW s \in Sessions, AgentOpens(s) PROVE HomesOK'
  <2>1. UNCHANGED <<provider, homes, talks, rows, agents>>
    BY <1>9 DEF AgentOpens
  <2>2. Written' = Written
    BY <2>1 DEF Written
  <2> QED BY <2>1, <2>2, QuietHomes
<1> QED BY <1>1, <1>2, <1>3, <1>4, <1>5, <1>6, <1>7, <1>8, <1>9 DEF Next

LEMMA StepType ==
  ASSUME IInv, [Next]_vars PROVE TypeOK'
<1> USE DEF IInv
<1>1. CASE UNCHANGED vars
  BY <1>1 DEF vars, TypeOK
<1> QED BY <1>1, LaunchType, ResolveType, ResumeType, CloseType, DeleteType,
           OpensType, AgentTalksType, OutsiderType, UserType, RestartType DEF Next

LEMMA InitInv == ASSUME Init PROVE IInv
<1>1. Written = {}
  BY DEF Init, Written
<1>2. TypeOK
  <2>1. NoHome \in Home /\ 1 \in Versions
    BY HomeAssumption DEF NoHome, Home, Versions
  <2> QED BY <2>1, HomeAssumption DEF Init, TypeOK
<1>3. \A s \in Sessions : agents[s] = None /\ rows[s] = None /\ Whole(s)
  BY DEF Init, Whole, NoHome, Places
<1>4. None \notin Talks
  BY NameAssumption
<1> QED BY <1>1, <1>2, <1>3, <1>4
        DEF IInv, TalksOK, AgentsOK, RowsOK, HomesOK, PlacesOK

LEMMA HomesInvariant == Spec => []IInv
<1>1. Init => IInv
  BY InitInv
<1>2. IInv /\ [Next]_vars => IInv'
  <2> SUFFICES ASSUME IInv, [Next]_vars PROVE IInv'
    OBVIOUS
  <2>1. WritersOK'
    BY StepWriters DEF IInv, WritersOK
  <2> QED BY <2>1, StepType, StepRows, StepHomes DEF IInv, WritersOK
<1> QED BY <1>1, <1>2, PTL DEF Spec

-----------------------------------------------------------------------------
(* The theorems                                                            *)

(* An agent's files, its row and its home are of their types, its row was  *)
(* never deleted under it, and no talk is written twice.                   *)
THEOREM HomeTypes == Spec => []TypeOK
<1>1. IInv => TypeOK
  BY DEF IInv
<1> QED BY <1>1, HomesInvariant, PTL

(* The resolver of a provider lists what an agent of its wrote in the      *)
(* place it was meant to.                                                  *)
THEOREM TalksAreListed == Spec => []TalkIsListed
<1>1. ASSUME IInv, NEW i \in 1 .. Len(talks), talks[i].id \in Sessions,
             \/ provider \in {"gemini", "opencode"}
             \/ talks[i].at = PlaceOf(talks[i].id, Pending)
      PROVE  talks[i].id \in Listed(talks, talks[i].id)
  <2> DEFINE t == talks[i]
             s == talks[i].id
  <2>1. /\ t \in Talk /\ t \in Written /\ i \in DOMAIN talks
        /\ \A j \in 1 .. Len(talks) : talks[j] \in Talk
    BY <1>1 DEF IInv, TypeOK, Written
  <2>2. t.at \in {PlaceOf(s, Pending), Shared} /\ t.folder = Folder(s)
    BY <1>1, <2>1 DEF IInv, TalksOK
  <2>3. SUFFICES t.at \in Sees(talks, Folder(s)) /\ IdOf(t) = s
    BY <2>1, <2>2 DEF Listed, Found
  <2>4. provider \in {"codex", "gemini", "hermes", "opencode"}
    BY <1>1, HomeAssumption DEF IInv, TypeOK
  <2>5. CASE provider = "gemini"
    BY <2>1, <2>5, SeesWhere DEF IdOf, Talk
  <2>6. CASE provider = "opencode"
    <3>1. t.at \in {Folder(s), Shared}
      BY <2>2, <2>6, PlaceIs DEF Folder
    <3> QED BY <2>6, <3>1, SeesWhere DEF IdOf
  <2>7. CASE provider = "hermes"
    <3>1. t.at = s
      BY <1>1, <2>7, PlaceIs
    <3> QED BY <1>1, <2>7, <3>1, SeesWhere DEF IdOf
  <2>8. CASE provider = "codex"
    <3>1. t.at = IF s \in Controls THEN "workspace" ELSE Shared
      BY <1>1, <2>8, PlaceIs
    <3>2. CASE s \in Controls
      BY <2>8, <3>1, <3>2, SeesWhere DEF IdOf, Folder
    <3>3. CASE s \notin Controls
      <4>1. "repository" \notin Places \cup {Shared}
        BY NameAssumption DEF Places, Shared, Talks, Folders
      <4>2. ~ \E j \in 1 .. Len(talks) : talks[j].at = Folder(s)
        BY <2>1, <3>3, <4>1 DEF Folder, Talk
      <4>3. Folder(s) \notin made
        BY <1>1, <3>3, <4>1 DEF Folder, IInv, TypeOK
      <4> QED BY <2>8, <3>1, <3>3, <4>2, <4>3, SeesWhere DEF IdOf
    <3> QED BY <3>2, <3>3
  <2> QED BY <2>4, <2>5, <2>6, <2>7, <2>8
<1>2. IInv => TalkIsListed
  BY <1>1 DEF TalkIsListed
<1> QED BY <1>2, HomesInvariant, PTL

(* Only launches and resumes start an agent.                               *)
LEMMA OnlyStarts ==
  ASSUME TypeOK, AgentsOK, [Next]_vars, NEW s \in Sessions,
         agents[s] = None, agents'[s] # None
  PROVE  Launch(s) \/ Resume(s)
<1>1. ASSUME NEW x \in Sessions, Launch(x) \/ Resume(x)
      PROVE  x = s
  BY <1>1 DEF Launch, Resume, TypeOK
<1>2. ASSUME NEW x \in Sessions,
             Resolve(x) \/ Close(x) \/ Delete(x) \/ AgentOpens(x)
      PROVE  FALSE
  BY <1>2 DEF Resolve, Close, Delete, AgentOpens, TypeOK
<1>3. ASSUME NEW x \in Sessions, AgentTalks(x) PROVE FALSE
  <2>1. /\ agents[x] # None
        /\ agents' = agents \/ agents' = [agents EXCEPT ![x].fresh = FALSE]
    BY <1>3, AgentTalksShape
  <2> QED BY <2>1 DEF TypeOK
<1>4. ASSUME NEW o \in Outsiders, OutsiderTalks(o) PROVE FALSE
  BY <1>4 DEF OutsiderTalks
<1>5. ~(UserChanges \/ Restart \/ UNCHANGED vars)
  BY DEF UserChanges, Restart, vars, TypeOK
<1> QED BY <1>1, <1>2, <1>3, <1>4, <1>5 DEF Next

(* A home that a start prepared for itself is complete.                    *)
LEMMA CompleteOnceMade ==
  ASSUME IInv, NEW s \in Sessions, NEW token, NEW home,
         StartsPrepared(s, token, home), home \in Places,
         ~(provider = "hermes" /\ s \in Blank)
  PROVE  Complete(s, homes'[home])
<1> DEFINE plan == Prepare(homes[home], s)
<1>1. homes \in [Places -> Home]
  BY DEF IInv, TypeOK
<1>2. Complete(s, plan.done)
  BY <1>1, Prepared DEF IInv
<1>3. homes' = [homes EXCEPT ![home] = plan.done]
  BY DEF StartsPrepared
<1> HIDE DEF plan
<1>4. homes'[home] = plan.done
  BY <1>1, <1>3
<1> QED BY <1>2, <1>4

LEMMA WholeIsComplete ==
  ASSUME provider = "hermes", NEW s, NEW place
  PROVE  Complete(s, homes[place]) <=> Whole(place)
BY Zenon DEF Complete, Whole

LEMMA LaunchCompletes ==
  ASSUME IInv, NEW s \in Sessions, Launch(s),
         NEW home \in Places, home # Shared, StartIn(s, Pending, home)
  PROVE  Complete(s, homes'[home])
<1>1. CASE provider = "hermes"
  <2>1. home = s /\ Whole(s)'
    BY <1>1, LaunchedHome
  <2>2. Complete(s, homes'[s]) <=> homes'[s].login = homes'[s].config
    BY <1>1, Zenon DEF Complete
  <2> QED BY <2>1, <2>2 DEF Whole
<1>2. CASE provider # "hermes"
  <2>1. StartsPrepared(s, Pending, home)
    BY <1>2, StartCases DEF StartsPlain, StartsShared
  <2> QED BY <1>2, <2>1, CompleteOnceMade
<1> QED BY <1>1, <1>2

LEMMA ResumeCompletes ==
  ASSUME IInv, NEW s \in Sessions, Resume(s),
         NEW home \in Places, home # Shared, StartIn(s, rows[s], home)
  PROVE  Complete(s, homes'[home])
<1>0. rows[s] \in Talks /\ rows[s] # Pending
  BY NameAssumption DEF Resume
<1>1. CASE provider = "hermes"
  <2>1. home = rows[s] /\ homes' = homes
    BY <1>0, <1>1, StartCases, PlaceIs DEF StartsPlain, StartsPrepared, StartsShared
  <2>2. PICK t \in Written : Origin(s, t)
    BY <1>0 DEF IInv, RowsOK
  <2>3. t.at = rows[s] /\ t.at # Shared
    BY <1>1, <2>2 DEF Origin, IdOf
  <2>4. Whole(home)
    BY <1>1, <2>1, <2>3 DEF IInv, HomesOK
  <2> QED BY <1>1, <2>1, <2>4, WholeIsComplete
<1>2. CASE provider # "hermes"
  <2>1. StartsPrepared(s, rows[s], home)
    BY <1>2, StartCases DEF StartsPlain, StartsShared
  <2> QED BY <1>2, <2>1, CompleteOnceMade
<1> QED BY <1>1, <1>2

(* An agent that starts in a home of Hydra's finds it complete, whatever   *)
(* earlier starts left half done.                                          *)
THEOREM HomesStartComplete == Spec => StartsComplete
<1>1. ASSUME IInv, [Next]_vars, NEW s \in Sessions, agents[s] = None,
             agents'[s] # None, agents'[s].home # Shared
      PROVE  Complete(s, homes'[agents'[s].home])
  <2>0. TypeOK /\ TalksOK /\ AgentsOK
    BY <1>1 DEF IInv
  <2>1. CASE Launch(s)
    <3>1. PICK home \in Places \cup {Shared}, quick \in BOOLEAN :
            /\ StartIn(s, Pending, home)
            /\ agents' = [agents EXCEPT ![s] =
                            [home |-> home, talk |-> s, fresh |-> ~quick]]
      BY <2>0, <2>1, LaunchShape
    <3>2. agents'[s].home = home
      BY <2>0, <3>1 DEF TypeOK
    <3> QED BY <1>1, <2>1, <3>1, <3>2, LaunchCompletes
  <2>2. CASE Resume(s)
    <3>1. PICK home \in Places \cup {Shared} :
            /\ StartIn(s, rows[s], home)
            /\ agents' = [agents EXCEPT ![s] =
                            [home |-> home, talk |-> rows[s], fresh |-> FALSE]]
      BY <2>2, ResumeShape
    <3>2. agents'[s].home = home
      BY <2>0, <3>1 DEF TypeOK
    <3> QED BY <1>1, <2>2, <3>1, <3>2, ResumeCompletes
  <2> QED BY <1>1, <2>0, <2>1, <2>2, OnlyStarts
<1>2. IInv /\ [Next]_vars =>
        [\A s \in Sessions :
           agents[s] = None /\ agents'[s] # None /\ agents'[s].home # Shared
             => Complete(s, homes'[agents'[s].home])]_vars
  BY <1>1
<1> QED BY <1>2, HomesInvariant, PTL DEF Spec, StartsComplete

(* As long as every home could be prepared, a resumed agent starts on the  *)
(* files its talk is in.                                                   *)
THEOREM ResumesAreAtHome == Spec => ResumesWhereItTalked
<1>1. ASSUME IInv, [Next]_vars, NEW s \in Sessions, faults' = 0,
             agents[s] = None, agents'[s] # None, rows[s] # None
      PROVE  \E i \in Positions(rows[s]) : talks[i].at = agents'[s].home
  <2>0. TypeOK /\ AgentsOK /\ TalksOK /\ RowsOK /\ PlacesOK
    BY <1>1 DEF IInv
  <2>1. Resume(s)
    BY <1>1, <2>0, OnlyStarts DEF Launch
  <2>2. rows[s] \in Talks /\ rows[s] # Pending
    BY <2>1, NameAssumption DEF Resume
  <2>3. PICK home \in Places \cup {Shared} :
          /\ StartIn(s, rows[s], home)
          /\ agents' = [agents EXCEPT ![s] =
                          [home |-> home, talk |-> rows[s], fresh |-> FALSE]]
    BY <2>1, ResumeShape
  <2>4. agents'[s].home = home
    BY <2>0, <2>3 DEF TypeOK
  <2>5. faults = 0 /\ home = PlaceOf(s, rows[s])
    <3>1. /\ faults' = faults \/ faults' = faults + 1
          /\ \/ home = PlaceOf(s, rows[s]) /\ faults' = faults
             \/ home = Shared /\ faults' = faults + 1
      BY <2>0, <2>2, <2>3, StartShape
    <3>2. faults \in Nat
      BY <2>0 DEF TypeOK
    <3> QED BY <1>1, <3>1, <3>2
  <2>6. PICK t \in Written : Origin(s, t)
    BY <2>0, <2>2 DEF RowsOK
  <2>7. t \in Talk
    BY <2>0, <2>6, TalkTypes
  <2>8. t.id \in Sessions => t.at = PlaceOf(t.id, Pending)
    BY <2>0, <2>5, <2>6 DEF PlacesOK
  <2>9. t.id \in Outsiders => t.at = Shared /\ t.folder = "repository"
    BY <2>0, <2>6 DEF TalksOK
  <2>10. t.id \in Sessions => t.folder = Folder(t.id)
    BY <2>0, <2>6 DEF TalksOK
  <2>11. t.id \in Sessions \cup Outsiders
    BY <2>7 DEF Talk, Talks
  <2>12. t.id = rows[s] /\ t.at = home
    <3>1. CASE provider = "hermes"
      <4>1. t.at = rows[s] /\ t.at # Shared
        BY <2>6, <3>1 DEF Origin, IdOf
      <4>2. t.id \in Sessions /\ t.at = t.id
        BY <2>8, <2>9, <2>11, <3>1, <4>1, PlaceIs
      <4>3. home = rows[s]
        BY <2>2, <2>5, <3>1, PlaceIs
      <4> QED BY <4>1, <4>2, <4>3
    <3>2. CASE provider # "hermes"
      <4>1. t.id = rows[s] /\ t.folder = Folder(s)
        BY <2>6, <3>2 DEF Origin, IdOf
      <4>2. home = IF s \in Controls THEN "workspace" ELSE Shared
        BY <2>5, <3>2, PlaceIs
      <4>3. t.id \in Sessions =>
              t.at = IF t.id \in Controls THEN "workspace" ELSE Shared
        BY <2>8, <3>2, PlaceIs
      <4>4. t.at = IF t.folder = "workspace" THEN "workspace" ELSE Shared
        BY <2>9, <2>10, <2>11, <4>3 DEF Folder
      <4> QED BY <4>1, <4>2, <4>4 DEF Folder
    <3> QED BY <3>1, <3>2
  <2>13. PICK i \in DOMAIN talks : talks[i] = t
    BY <2>6 DEF Written
  <2>14. i \in Positions(rows[s])
    BY <2>0, <2>12, <2>13 DEF Positions, TypeOK
  <2> QED BY <2>4, <2>12, <2>13, <2>14
<1>2. IInv /\ [Next]_vars =>
        [\A s \in Sessions :
           faults' = 0 /\ agents[s] = None /\ agents'[s] # None /\ rows[s] # None
             => \E i \in Positions(rows[s]) : talks[i].at = agents'[s].home]_vars
  BY <1>1
<1> QED BY <1>2, HomesInvariant, PTL DEF Spec, ResumesWhereItTalked

===============================================================================
