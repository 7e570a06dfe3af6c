-------------------------- MODULE HierarchyService --------------------------
(***************************************************************************)
(* What a reader of COPC hierarchies promises its caller, whatever it does *)
(* inside: it opens or refuses a file; then it takes one query at a time   *)
(* and returns an error or a set of chunks.  A chunk in an answer is a     *)
(* matching chunk of the file.  An answer has every matching chunk of the  *)
(* pages the query reaches, unless one of those pages is lost: a call that *)
(* returns an error may lose pages, for good, and nothing else may.        *)
(***************************************************************************)
CONSTANTS
  Files, Queries,         \* what can be opened, and what can be asked
  QueryAll,               \* the query for everything
  ReachablePages(_, _),   \* the pages of a file that a query reaches
  ReachableChunks(_, _),  \* the matching chunks in those pages
  CompleteAnswer(_, _)    \* the matching chunks of the whole file

VARIABLES
  file,     \* the file being read
  phase,    \* "opening", "ready", "busy" or "closed"
  query,    \* the query being answered, or answered last
  outcome,  \* what the last call returned: "none", "opened", "ok" or "err"
  answer,   \* the chunks of the last Ok answer
  lost      \* the pages no later answer can be trusted about

svars == <<file, phase, query, outcome, answer, lost>>

SInit ==
  /\ file \in Files
  /\ phase = "opening"
  /\ query = QueryAll
  /\ outcome = "none"
  /\ answer = {}
  /\ lost = {}

Opened ==
  /\ phase = "opening"
  /\ phase' = "ready"
  /\ outcome' = "opened"
  /\ UNCHANGED <<file, query, answer, lost>>

LoseSome == lost \subseteq lost'

OpenFails ==
  /\ phase = "opening"
  /\ phase' = "closed"
  /\ outcome' = "err"
  /\ answer' = {}
  /\ LoseSome
  /\ UNCHANGED <<file, query>>

Ask(q) ==
  /\ phase = "ready"
  /\ phase' = "busy"
  /\ query' = q
  /\ outcome' = "none"
  /\ answer' = {}
  /\ UNCHANGED <<file, lost>>

\* A query the reader turns down at once costs nothing.
Refuse(q) ==
  /\ phase = "ready"
  /\ query' = q
  /\ outcome' = "err"
  /\ answer' = {}
  /\ UNCHANGED <<file, phase, lost>>

Sound(chunks) == chunks \subseteq CompleteAnswer(file, query)

Covers(chunks) ==
  lost \cap ReachablePages(file, query) = {} => ReachableChunks(file, query) \subseteq chunks

ReturnOk ==
  /\ phase = "busy"
  /\ phase' = "ready"
  /\ outcome' = "ok"
  /\ Sound(answer')
  /\ Covers(answer')
  /\ UNCHANGED <<file, query, lost>>

ReturnErr ==
  /\ phase = "busy"
  /\ phase' = "ready"
  /\ outcome' = "err"
  /\ answer' = {}
  /\ LoseSome
  /\ UNCHANGED <<file, query>>

SNext ==
  \/ Opened \/ OpenFails
  \/ \E q \in Queries : Ask(q) \/ Refuse(q)
  \/ ReturnOk \/ ReturnErr

SSpec == SInit /\ [][SNext]_svars
=============================================================================
