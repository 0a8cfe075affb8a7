------------------------------ MODULE FaqIndex ------------------------------
(***************************************************************************)
(* rag.Service and rag.Gaps (internal/rag): the FAQ in the database with   *)
(* its vectors, brought up to date when a process starts; the questions    *)
(* that were not answered well; and the cache of the vectors of questions. *)
(* A process starts with the settings and the FAQ file it is given, and    *)
(* ends at any moment.                                                     *)
(*                                                                         *)
(* What is found is left out: a search matters for which vectors it may    *)
(* compare.  Vectors of one model are similar for the same text and for no *)
(* other; those of two models are similar or not, as it happens.           *)
(***************************************************************************)
EXTENDS Integers, FiniteSets, Sequences, SequencesExt

CONSTANTS
  Model, Dimension,   \* embedding models, and how long their vectors are
  Settings,           \* records of a FAQ file and a model
  Nothing,
  Caller, Text,       \* goroutines that search or save, and their questions
  CacheSize,          \* 256 in the code
  MaxStarts, MaxAsks  \* bounds: starts of the process, questions

ASSUME SettingsAssumption ==
  /\ \A s \in Settings : s.model \in Model
  /\ \A m \in Model : Dimension[m] \in Nat
  /\ Nothing \notin Settings \cup Model
ASSUME SizesAssumption == CacheSize \in Nat \ {0} /\ MaxStarts \in Nat /\ MaxAsks \in Nat

VARIABLES
  index,         \* table faq: whose rows they are, and whether with vectors
  fingerprint,   \* table faq_metadata: the settings written there
  gaps,          \* table knowledge_gaps: rows by text and model
  pc, settings,  \* where the process is, and what it was started with
  ready, vectorEnabled,   \* of Service
  cache, order,           \* s.cache and s.cacheOrder
  at, ask,       \* where each caller is, and what it asks: [text, save, vector]
  starts, asks,  \* bounds: how often so far
  torn,          \* history: rows were committed and their fingerprint was not
  overlapped     \* history: texts with two saves at a time

database == <<index, fingerprint, gaps>>
service == <<ready, vectorEnabled, cache, order>>
callers == <<at, ask, asks, overlapped>>
vars == <<database, pc, settings, service, callers, starts, torn>>

NoAsk == [text |-> Nothing, save |-> FALSE, vector |-> Nothing]
Memory == /\ cache' = {} /\ order' = <<>> /\ ready' = FALSE /\ vectorEnabled' = FALSE
          /\ at' = [c \in Caller |-> "idle"] /\ ask' = [c \in Caller |-> NoAsk]

Init ==
  /\ index = [of |-> Nothing, vectors |-> FALSE] /\ fingerprint = Nothing
  /\ gaps = [g \in Text \X (Model \cup {Nothing}) |-> 0]
  /\ pc = "down" /\ settings = Nothing
  /\ ready = FALSE /\ vectorEnabled = FALSE /\ cache = {} /\ order = <<>>
  /\ at = [c \in Caller |-> "idle"] /\ ask = [c \in Caller |-> NoAsk]
  /\ starts = 0 /\ asks = 0 /\ torn = FALSE /\ overlapped = {}

----------------------------------------------------------------------------
(* The start of a process: Migrate, then Service.Initialize.               *)

Start ==
  /\ pc = "down" /\ starts < MaxStarts
  /\ settings' \in Settings
  /\ pc' = "migrate" /\ starts' = starts + 1
  /\ UNCHANGED <<database, service, callers, torn>>

Other(m) == m \in Model /\ Dimension[m] # Dimension[settings.model]

IndexMigrated == IF index.of # Nothing /\ Other(index.of.model)
                 THEN [index EXCEPT !.vectors = FALSE] ELSE index

(* Rows of the other dimension stay, without their vectors.                *)
GapsMigrated == [g \in DOMAIN gaps |->
  IF Other(g[2]) THEN 0
  ELSE IF g[2] # Nothing THEN gaps[g]
  ELSE LET dropped == {m \in Model : Other(m)} IN
       gaps[g] + FoldSet(LAMBDA m, n : n + gaps[<<g[1], m>>], 0, dropped)]

(* The tables are altered one after the other; a failure ends the process. *)
Migrate ==
  /\ pc = "migrate"
  /\ \/ index' = IndexMigrated /\ gaps' = GapsMigrated /\ pc' = "initialize"
     \/ index' \in {index, IndexMigrated} /\ UNCHANGED gaps /\ pc' = "down"
  /\ UNCHANGED <<fingerprint, settings, service, callers, starts, torn>>

Up(isReady, enabled) ==
  /\ pc' = "up" /\ ready' = isReady /\ vectorEnabled' = enabled
  /\ UNCHANGED <<cache, order>>

NoFaq ==   \* there is no file; or it is no good, or the database
  /\ pc = "initialize"
  /\ \E missing \in BOOLEAN : Up(missing, FALSE)
  /\ UNCHANGED <<database, settings, callers, starts, torn>>

(* Mutant: the vectors are not counted.                                    *)
SameFingerprint == fingerprint = settings

Unchanged == fingerprint = settings /\ index.of # Nothing /\ index.vectors

KeepIndex ==
  /\ pc = "initialize" /\ Unchanged
  /\ Up(TRUE, TRUE)
  /\ UNCHANGED <<database, settings, callers, starts, torn>>

(* A batch of documents: a vector for each, or an error, also for a partial*)
(* answer and for an index, a length or a number that is wrong.            *)
EmbedBatch == {"vectors", "error"}

(* Also when the fingerprint could not be read.  The documents are embedded*)
(* before the table is touched, and replaced in one transaction.           *)
ReplaceFAQBatch ==
  /\ pc = "initialize"
  /\ \E documents \in EmbedBatch :
       \/ /\ documents = "vectors"
          /\ index' = [of |-> settings, vectors |-> TRUE]
          /\ pc' = "fingerprint" /\ UNCHANGED service
       \/ Up(TRUE, FALSE) /\ UNCHANGED index
  /\ UNCHANGED <<fingerprint, gaps, settings, callers, starts, torn>>

WriteFingerprint ==
  /\ pc = "fingerprint"
  /\ \/ fingerprint' = settings /\ torn' = FALSE /\ Up(TRUE, TRUE)
     \/ UNCHANGED fingerprint /\ torn' = TRUE /\ Up(TRUE, FALSE)
  /\ UNCHANGED <<index, gaps, settings, callers, starts>>

(* The process ends, and with it all that is in memory.                    *)
Stop ==
  /\ pc # "down" /\ pc' = "down" /\ settings' = Nothing
  /\ torn' = (torn \/ pc = "fingerprint")
  /\ Memory
  /\ UNCHANGED <<database, asks, overlapped, starts>>

----------------------------------------------------------------------------
(* EmbedQuery: the cache under s.mu, the model outside of it.              *)

Touched(x) == Append(RemoveFirst(order, x), x)

(* Mutant: the key is appended although another call has added it.         *)
InsertAgain(x) ==
  /\ cache' = (IF Len(order) >= CacheSize THEN cache \ {Head(order)} ELSE cache) \cup {x}
  /\ order' = Append(IF Len(order) >= CacheSize THEN Tail(order) ELSE order, x)

Insert(x) ==
  LET rest == RemoveFirst(order, x) IN
  /\ cache' = (IF Len(rest) >= CacheSize THEN cache \ {Head(rest)} ELSE cache) \cup {x}
  /\ order' = Append(IF Len(rest) >= CacheSize THEN Tail(rest) ELSE rest, x)

Go(c, place, a) == at' = [at EXCEPT ![c] = place] /\ ask' = [ask EXCEPT ![c] = a]

(* By vector and text, by either alone if that fails; nothing is kept.     *)
Compared(c) == Go(c, "idle", NoAsk)

(* A search compares the vector with the rows and is over; a save goes on. *)
HasVector(c, a, v) ==
  IF a.save THEN Go(c, "look", [a EXCEPT !.vector = v]) ELSE Compared(c)

(* Search, if ready and with vectors (otherwise it only reads the text), or*)
(* Gaps.save.                                                              *)
Ask(c) ==
  /\ pc = "up" /\ at[c] = "idle" /\ asks < MaxAsks
  /\ asks' = asks + 1
  /\ \E x \in Text, save \in BOOLEAN :
       /\ save \/ (ready /\ vectorEnabled)
       /\ LET a == [text |-> x, save |-> save, vector |-> Nothing] IN
          IF x \in cache
          THEN order' = Touched(x) /\ HasVector(c, a, settings.model)
          ELSE UNCHANGED order /\ Go(c, "embedding", a)
  /\ UNCHANGED <<database, pc, settings, ready, vectorEnabled, cache, starts, torn, overlapped>>

(* What three attempts bring: a vector of the model, or none.              *)
Embed == {settings.model, Nothing}

(* Without a vector the search is one of text, and the question is saved   *)
(* as it is.                                                               *)
Embedded(c) ==
  /\ at[c] = "embedding"
  /\ \E v \in Embed :
       /\ IF v = Nothing THEN UNCHANGED <<cache, order>> ELSE Insert(ask[c].text)
       /\ HasVector(c, ask[c], v)
  /\ UNCHANGED <<database, pc, settings, ready, vectorEnabled, asks, starts, torn, overlapped>>

----------------------------------------------------------------------------
(* Gaps.save: looks for a similar question, then counts or inserts.        *)

Rows(texts, models) == \E g \in texts \X models : gaps[g] > 0

(* Mutant: a question is found by its text, as long as that has no vector. *)
FoundByText(a) == {Rows({a.text}, {Nothing})}

Found(a) ==
  IF a.vector = Nothing THEN {Rows({a.text}, Model \cup {Nothing})}
  ELSE IF Rows({a.text}, {a.vector}) THEN {TRUE}
  ELSE {FALSE} \cup {Rows(Text, Model \ {a.vector})}

Look(c) ==
  /\ at[c] = "look"
  /\ \/ \E found \in Found(ask[c]) :   \* one that exists is only counted
          Go(c, IF found THEN "count" ELSE "insert", ask[c])
     \/ Go(c, "idle", NoAsk)
  /\ overlapped' = IF \E d \in Caller \ {c} : at[d] = "insert" /\ ask[d].text = ask[c].text
                   THEN overlapped \cup {ask[c].text} ELSE overlapped
  /\ UNCHANGED <<database, pc, settings, service, asks, starts, torn>>

Write(c) ==
  /\ at[c] \in {"count", "insert"}
  /\ gaps' \in IF at[c] = "count" THEN {gaps}
               ELSE {gaps, [gaps EXCEPT ![<<ask[c].text, ask[c].vector>>] = @ + 1]}
  /\ Go(c, "idle", NoAsk)
  /\ UNCHANGED <<index, fingerprint, pc, settings, service, asks, starts, torn, overlapped>>

(* An administrator clears the list.                                       *)
ClearGaps ==
  /\ pc = "up" /\ \E g \in DOMAIN gaps : gaps[g] > 0
  /\ gaps' = [g \in DOMAIN gaps |-> 0]
  /\ UNCHANGED <<index, fingerprint, pc, settings, service, callers, starts, torn>>

Initialize == Start \/ Migrate \/ NoFaq \/ KeepIndex \/ ReplaceFAQBatch \/ WriteFingerprint
Next == \/ Initialize \/ Stop \/ ClearGaps
        \/ \E c \in Caller : Ask(c) \/ Embedded(c) \/ Look(c) \/ Write(c)

Spec == Init /\ [][Next]_vars

----------------------------------------------------------------------------
(* A question is compared with vectors as long as its own, and only by a   *)
(* process whose settings are those of the fingerprint; they are then its  *)
(* own model's, of its FAQ, over any sequence of settings, failures and    *)
(* restarts (service.go:144 and :158, store.go:89).  After rows were       *)
(* committed without their fingerprint every other settings embed the FAQ  *)
(* again; those that the fingerprint still names do not, which is the      *)
(* disagreement at the end of this module.                                 *)
VectorsCompatible == vectorEnabled =>
  /\ fingerprint = settings
  /\ index.vectors /\ Dimension[index.of.model] = Dimension[settings.model]
  /\ torn \/ index.of = settings

(* The cache of questions and the order of its eviction hold the same keys,*)
(* each once, and no more than the limit, although a miss is filled in     *)
(* after others have used the cache (service.go:74-90).                    *)
QueryCacheConsistent ==
  /\ Range(order) = cache /\ Len(order) = Cardinality(cache)
  /\ Len(order) <= CacheSize

(* A question is one row of knowledge_gaps for each model that embedded    *)
(* it, over restarts and changes of the model, unless two saves of it had  *)
(* not seen each other (gaps.go:67).                                       *)
GapsUnique == \A x \in Text \ overlapped, m \in Model : gaps[<<x, m>>] <= 1

----------------------------------------------------------------------------
(* What the documents say and the code does not keep.                      *)

(* A question is compared with vectors of its own model only: "A failed    *)
(* embedding-model replacement retains safe full-text retrieval while      *)
(* disabling incompatible vector search", rows and fingerprint preserved   *)
(* (docs/go-migration/runtime-validation.md:76).  The rows are committed   *)
(* (service.go:246) before the fingerprint is written (service.go:165);    *)
(* when the writing fails or the process dies in between, a start with the *)
(* settings of the old fingerprint keeps the other model's rows.           *)
IncompatibleSearchDisabled == vectorEnabled => index.of.model = settings.model
=============================================================================
