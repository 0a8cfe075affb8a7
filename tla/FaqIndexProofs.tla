--------------------------- MODULE FaqIndexProofs ---------------------------
(***************************************************************************)
(* FaqIndex, for any models and settings, any callers and questions, a     *)
(* cache of any size and any bounds on starts and questions.               *)
(*                                                                         *)
(* Three arguments that hardly touch. The vectors may be compared because  *)
(* what the fingerprint says of the rows is true unless rows were          *)
(* committed and it was not written. The cache and the order of eviction   *)
(* agree since a key is taken out of the order before it is appended. A    *)
(* question is one row because whoever is about to insert it has seen no   *)
(* row of it and is alone with it.                                         *)
(***************************************************************************)
EXTENDS FaqIndex, FiniteSetTheorems, TLAPS

Asked == [text : Text, save : BOOLEAN, vector : Model \cup {Nothing}]

CallersTyped ==
  /\ at \in [Caller -> {"idle", "embedding", "look", "count", "insert"}]
  /\ ask \in [Caller -> Asked \cup {NoAsk}]
  /\ \A c \in Caller : at[c] # "idle" => pc = "up" /\ ask[c] \in Asked

(* The rows without a vector are left out: how many there are is a sum.    *)
TypeOK ==
  /\ index \in [of : Settings \cup {Nothing}, vectors : BOOLEAN]
  /\ fingerprint \in Settings \cup {Nothing}
  /\ DOMAIN gaps = Text \X (Model \cup {Nothing})
  /\ \A x \in Text, m \in Model : gaps[<<x, m>>] \in Nat
  /\ pc \in {"down", "migrate", "initialize", "fingerprint", "up"}
  /\ settings \in Settings \cup {Nothing} /\ (pc # "down" => settings \in Settings)
  /\ ready \in BOOLEAN /\ vectorEnabled \in BOOLEAN /\ torn \in BOOLEAN
  /\ order \in Seq(Text)
  /\ CallersTyped
  /\ starts \in Nat /\ asks \in Nat

Served == {"initialize", "fingerprint", "up"}   \* after Migrate

(* Rows with vectors are as long as this process's, and are those that the *)
(* fingerprint names unless it was not written.                            *)
FingerprintHonest ==
  /\ index.vectors => index.of \in Settings
  /\ pc \in Served /\ index.vectors =>
       Dimension[index.of.model] = Dimension[settings.model]
  /\ pc = "fingerprint" => index.vectors /\ index.of = settings
  /\ index.vectors /\ ~torn /\ pc # "fingerprint" => fingerprint = index.of
  /\ vectorEnabled => /\ pc = "up" /\ fingerprint = settings
                      /\ index.vectors /\ (torn \/ index.of = settings)

(* The order of eviction s holds the keys k, each once.                    *)
Lists(s, k) ==
  /\ \A i, j \in 1..Len(s) : s[i] = s[j] => i = j
  /\ k = {s[i] : i \in 1..Len(s)}

CacheListed == Lists(order, cache) /\ Len(order) <= CacheSize

(* Who is about to insert a question is alone with it and has seen no row. *)
InsertsAlone == \A c \in Caller :
  at[c] = "insert" /\ ask[c].text \notin overlapped =>
    /\ ask[c].vector \in Model => gaps[<<ask[c].text, ask[c].vector>>] = 0
    /\ \A d \in Caller : at[d] = "insert" /\ ask[d].text = ask[c].text => d = c

IInv == TypeOK /\ FingerprintHonest /\ CacheListed /\ InsertsAlone /\ GapsUnique

USE SettingsAssumption, SizesAssumption

----------------------------------------------------------------------------
(* The order of eviction: what its operations leave in it.                 *)

(* One sequence after another, as the provers need it.                     *)
LEMMA Joined ==
  ASSUME NEW a \in Seq(Text), NEW b \in Seq(Text)
  PROVE  /\ a \o b \in Seq(Text) /\ Len(a \o b) = Len(a) + Len(b)
         /\ \A j \in 1..Len(a) : (a \o b)[j] = a[j]
         /\ \A j \in 1..Len(b) : (a \o b)[Len(a) + j] = b[j]
OBVIOUS

(* Without an element of it, a sequence is the others in their order.      *)
LEMMA RemoveAtElements ==
  ASSUME NEW s \in Seq(Text), NEW i \in 1..Len(s)
  PROVE  /\ RemoveAt(s, i) \in Seq(Text)
         /\ Len(RemoveAt(s, i)) = Len(s) - 1
         /\ \A j \in 1..(Len(s) - 1) :
              RemoveAt(s, i)[j] = IF j < i THEN s[j] ELSE s[j + 1]
<1>1. /\ SubSeq(s, 1, i - 1) \in Seq(Text)
      /\ Len(SubSeq(s, 1, i - 1)) = i - 1
      /\ \A j \in 1..(i - 1) : SubSeq(s, 1, i - 1)[j] = s[j]
  OBVIOUS
<1>2. /\ SubSeq(s, i + 1, Len(s)) \in Seq(Text)
      /\ Len(SubSeq(s, i + 1, Len(s))) = Len(s) - i
      /\ \A j \in 1..(Len(s) - i) : SubSeq(s, i + 1, Len(s))[j] = s[i + j]
  OBVIOUS
<1> DEFINE a == SubSeq(s, 1, i - 1)
           b == SubSeq(s, i + 1, Len(s))
<1>3. RemoveAt(s, i) = a \o b BY DEF RemoveAt
<1> HIDE DEF a, b
<1>4. /\ a \in Seq(Text) /\ b \in Seq(Text)
      /\ Len(a) = i - 1 /\ Len(b) = Len(s) - i
  BY <1>1, <1>2 DEF a, b
<1>5. a \o b \in Seq(Text) /\ Len(a \o b) = Len(s) - 1
  <2>1. a \o b \in Seq(Text) /\ Len(a \o b) = Len(a) + Len(b)
    BY <1>4, Joined, Zenon
  <2> QED BY <1>4, <2>1
<1>6. ASSUME NEW j \in 1..(Len(s) - 1)
      PROVE  (a \o b)[j] = IF j < i THEN s[j] ELSE s[j + 1]
  <2>1. CASE j < i
    <3>1. j \in 1..Len(a) /\ a[j] = s[j] BY <1>1, <1>4, <2>1 DEF a
    <3> QED BY <1>4, <2>1, <3>1, Joined
  <2>2. CASE j >= i
    <3> DEFINE l == j - i + 1
    <3>1. l \in 1..Len(b) /\ j = Len(a) + l BY <1>4, <2>2
    <3>2. (a \o b)[j] = b[l] BY <1>4, <3>1, Joined
    <3>3. b[l] = s[i + l] BY <1>2, <1>4, <3>1 DEF b
    <3>4. i + l = j + 1 OBVIOUS
    <3> QED BY <2>2, <3>2, <3>3, <3>4
  <2>3. j < i \/ j >= i OBVIOUS
  <2> QED BY <2>1, <2>2, <2>3, Zenon
<1> QED BY <1>3, <1>5, <1>6, Zenon

(* removeCacheOrderLocked: the key is out of the list, the others are not. *)
LEMMA RemoveLists ==
  ASSUME NEW s \in Seq(Text), NEW k, Lists(s, k), NEW x \in Text
  PROVE  /\ RemoveFirst(s, x) \in Seq(Text)
         /\ Lists(RemoveFirst(s, x), k \ {x})
         /\ Len(RemoveFirst(s, x)) <= Len(s)
         /\ x \in k => Len(RemoveFirst(s, x)) = Len(s) - 1
<1>1. CASE \E i \in 1..Len(s) : s[i] = x
  <2> PICK i \in 1..Len(s) : s[i] = x BY <1>1
  <2> DEFINE r == RemoveAt(s, i)
  <2>1. RemoveFirst(s, x) = r
    <3>1. {j \in 1..Len(s) : s[j] = x} = {i} BY DEF Lists
    <3>2. Min({i}) = i BY DEF Min
    <3> QED BY <3>1, <3>2 DEF RemoveFirst, SelectInSeq
  <2>2. /\ r \in Seq(Text) /\ Len(r) = Len(s) - 1
        /\ \A j \in 1..(Len(s) - 1) : r[j] = IF j < i THEN s[j] ELSE s[j + 1]
    BY RemoveAtElements
  <2> HIDE DEF r
  <2>3. ASSUME NEW a \in 1..Len(r), NEW b \in 1..Len(r), r[a] = r[b]
        PROVE  a = b
    <3> DEFINE At(j) == IF j < i THEN j ELSE j + 1
    <3>1. /\ At(a) \in 1..Len(s) /\ r[a] = s[At(a)]
          /\ At(b) \in 1..Len(s) /\ r[b] = s[At(b)]
      BY <2>2
    <3>2. At(a) = At(b) BY <2>3, <3>1 DEF Lists
    <3> QED BY <2>2, <3>2
  <2>4. {r[j] : j \in 1..Len(r)} \subseteq k \ {x}
    BY <2>2 DEF Lists
  <2>5. ASSUME NEW y \in k \ {x} PROVE \E j \in 1..Len(r) : r[j] = y
    <3> PICK j \in 1..Len(s) : s[j] = y BY DEF Lists
    <3>1. CASE j < i BY <2>2, <3>1
    <3>2. CASE j > i
      <4>1. j - 1 \in 1..Len(r) /\ r[j - 1] = s[j] BY <2>2, <3>2
      <4> QED BY <4>1
    <3> QED BY <3>1, <3>2
  <2>6. k \ {x} = {r[j] : j \in 1..Len(r)} BY <2>4, <2>5
  <2>7. Lists(r, k \ {x}) BY <2>3, <2>6 DEF Lists
  <2> QED BY <2>1, <2>2, <2>7
<1>2. CASE ~\E i \in 1..Len(s) : s[i] = x
  <2>1. RemoveFirst(s, x) = s BY <1>2 DEF RemoveFirst
  <2>2. x \notin k BY <1>2 DEF Lists
  <2>3. Lists(s, k \ {x}) BY <2>2 DEF Lists
  <2> QED BY <2>1, <2>2, <2>3
<1> QED BY <1>1, <1>2

(* A key that is not in the list is one more at its end.                   *)
LEMMA AppendLists ==
  ASSUME NEW s \in Seq(Text), NEW k, Lists(s, k), NEW x \in Text, x \notin k
  PROVE  /\ Append(s, x) \in Seq(Text)
         /\ Lists(Append(s, x), k \cup {x})
         /\ Len(Append(s, x)) = Len(s) + 1
<1> DEFINE r == Append(s, x)
<1>1. /\ r \in Seq(Text) /\ Len(r) = Len(s) + 1 /\ r[Len(s) + 1] = x
      /\ \A j \in 1..Len(s) : r[j] = s[j]
  OBVIOUS
<1> HIDE DEF r
<1>2. \A a, b \in 1..Len(r) : r[a] = r[b] => a = b BY <1>1 DEF Lists
<1>3. k \cup {x} = {r[j] : j \in 1..Len(r)}
  <2>1. {r[j] : j \in 1..Len(r)} \subseteq k \cup {x} BY <1>1 DEF Lists
  <2>2. x \in {r[j] : j \in 1..Len(r)} BY <1>1
  <2>3. k \subseteq {r[j] : j \in 1..Len(r)} BY <1>1 DEF Lists
  <2> QED BY <2>1, <2>2, <2>3
<1> QED BY <1>1, <1>2, <1>3 DEF Lists, r

(* Without its head, a list is of the other keys.                          *)
LEMMA TailLists ==
  ASSUME NEW s \in Seq(Text), NEW k, Lists(s, k), Len(s) > 0
  PROVE  /\ Tail(s) \in Seq(Text)
         /\ Lists(Tail(s), k \ {Head(s)})
         /\ Len(Tail(s)) = Len(s) - 1
<1> DEFINE r == Tail(s)
<1>1. /\ r \in Seq(Text) /\ Len(r) = Len(s) - 1 /\ Head(s) = s[1]
      /\ \A j \in 1..Len(r) : r[j] = s[j + 1]
  OBVIOUS
<1> HIDE DEF r
<1>2. \A a, b \in 1..Len(r) : r[a] = r[b] => a = b BY <1>1 DEF Lists
<1>3. {r[j] : j \in 1..Len(r)} \subseteq k \ {s[1]} BY <1>1 DEF Lists
<1>4. ASSUME NEW y \in k \ {s[1]} PROVE \E j \in 1..Len(r) : r[j] = y
  <2> PICK j \in 1..Len(s) : s[j] = y BY DEF Lists
  <2>1. j - 1 \in 1..Len(r) /\ r[j - 1] = y BY <1>1
  <2> QED BY <2>1
<1> QED BY <1>1, <1>2, <1>3, <1>4 DEF Lists, r

(* A list without repetition is as long as it has keys.                    *)
LEMMA ListCounts ==
  ASSUME NEW s \in Seq(Text), NEW k, Lists(s, k)
  PROVE  Range(s) = k /\ Len(s) = Cardinality(k)
<1>1. Range(s) = k BY DEF Range, Lists
<1>2. s \in Bijection(1..Len(s), k)
  BY DEF Lists, Bijection, Injection, Surjection, IsInjective
<1>3. ExistsBijection(1..Len(s), k) BY <1>2 DEF ExistsBijection
<1> QED BY <1>1, <1>3, FS_CountingElements

----------------------------------------------------------------------------
(* The cache of questions, under s.mu.                                     *)

(* A hit moves its key to the end.                                         *)
LEMMA TouchedListed ==
  ASSUME order \in Seq(Text), CacheListed, NEW x \in Text, x \in cache
  PROVE  /\ Touched(x) \in Seq(Text) /\ Lists(Touched(x), cache)
         /\ Len(Touched(x)) <= CacheSize
<1> DEFINE r == RemoveFirst(order, x)
<1>1. r \in Seq(Text) /\ Lists(r, cache \ {x}) /\ Len(r) = Len(order) - 1
  <2>1. Lists(order, cache) BY DEF CacheListed
  <2> QED BY <2>1, RemoveLists
<1>2. Touched(x) = Append(r, x) BY DEF Touched
<1> HIDE DEF r
<1>3. /\ Append(r, x) \in Seq(Text) /\ Len(Append(r, x)) = Len(r) + 1
      /\ Lists(Append(r, x), (cache \ {x}) \cup {x})
  BY <1>1, AppendLists
<1>4. (cache \ {x}) \cup {x} = cache OBVIOUS
<1>5. Lists(Append(r, x), cache) BY <1>3, <1>4, Zenon
<1> QED BY <1>1, <1>2, <1>3, <1>5 DEF CacheListed

(* A miss that is filled in takes the place of the oldest key if there is  *)
(* none left, and of itself if another call was faster.                    *)
LEMMA InsertListed ==
  ASSUME order \in Seq(Text), CacheListed, NEW x \in Text, Insert(x)
  PROVE  order' \in Seq(Text) /\ CacheListed'
<1> DEFINE r == RemoveFirst(order, x)
<1>1. r \in Seq(Text) /\ Lists(r, cache \ {x}) /\ Len(r) <= CacheSize
  <2>1. r \in Seq(Text) /\ Lists(r, cache \ {x}) /\ Len(r) <= Len(order)
    BY RemoveLists DEF CacheListed
  <2> HIDE DEF r
  <2> QED BY <2>1 DEF CacheListed
<1>2. /\ cache' = (IF Len(r) >= CacheSize THEN cache \ {Head(r)} ELSE cache) \cup {x}
      /\ order' = Append(IF Len(r) >= CacheSize THEN Tail(r) ELSE r, x)
  BY DEF Insert
<1> HIDE DEF r
<1>3. CASE Len(r) >= CacheSize
  <2> DEFINE t == Tail(r)
             k == (cache \ {x}) \ {Head(r)}
  <2>1. t \in Seq(Text) /\ Lists(t, k) /\ Len(t) = Len(r) - 1
    BY <1>1, <1>3, TailLists
  <2>2. order' = Append(t, x) BY <1>2, <1>3
  <2>3. cache' = k \cup {x} BY <1>2, <1>3
  <2>4. x \notin k OBVIOUS
  <2> HIDE DEF t, k
  <2>5. /\ Append(t, x) \in Seq(Text) /\ Lists(Append(t, x), k \cup {x})
        /\ Len(Append(t, x)) = Len(t) + 1
    BY <2>1, <2>4, AppendLists
  <2> QED BY <1>1, <2>1, <2>2, <2>3, <2>5 DEF CacheListed
<1>4. CASE ~(Len(r) >= CacheSize)
  <2>1. /\ Append(r, x) \in Seq(Text) /\ Len(Append(r, x)) = Len(r) + 1
        /\ Lists(Append(r, x), (cache \ {x}) \cup {x})
    BY <1>1, AppendLists
  <2>2. cache' = (cache \ {x}) \cup {x} /\ order' = Append(r, x)
    BY <1>2, <1>4
  <2> QED BY <1>1, <1>4, <2>1, <2>2 DEF CacheListed
<1> QED BY <1>3, <1>4

----------------------------------------------------------------------------
(* The first state, and what the steps of callers have in common.          *)

(* Nothing is stored and nothing runs.                                     *)
LEMMA InitIInv == Init => IInv
<1> SUFFICES ASSUME Init PROVE IInv OBVIOUS
<1>1. TypeOK
  <2>1. DOMAIN gaps = Text \X (Model \cup {Nothing}) BY DEF Init
  <2>2. \A x \in Text, m \in Model : gaps[<<x, m>>] \in Nat BY DEF Init
  <2>3. order \in Seq(Text) BY DEF Init
  <2>4. /\ at \in [Caller -> {"idle", "embedding", "look", "count", "insert"}]
        /\ ask \in [Caller -> Asked \cup {NoAsk}]
        /\ \A c \in Caller : at[c] = "idle"
    BY DEF Init
  <2> QED BY <2>1, <2>2, <2>3, <2>4 DEF Init, TypeOK, CallersTyped
<1>2. FingerprintHonest BY DEF Init, FingerprintHonest, Served
<1>3. CacheListed BY DEF Init, CacheListed, Lists
<1>4. InsertsAlone BY DEF Init, InsertsAlone
<1>5. GapsUnique BY DEF Init, GapsUnique
<1> QED BY <1>1, <1>2, <1>3, <1>4, <1>5 DEF IInv

Others(c) == \A d \in Caller \ {c} : at'[d] = at[d] /\ ask'[d] = ask[d]

(* A caller goes on, and the others stay where they are.                   *)
LEMMA GoTyped ==
  ASSUME TypeOK, NEW c \in Caller, NEW a \in Asked \cup {NoAsk},
         NEW p \in {"idle", "embedding", "look", "count", "insert"},
         p # "idle" => pc' = "up" /\ a \in Asked, pc' = pc, Go(c, p, a)
  PROVE  CallersTyped' /\ at'[c] = p /\ ask'[c] = a /\ Others(c)
BY DEF TypeOK, CallersTyped, Others, Go

(* With a vector a search is over and a save looks for the question.       *)
LEMMA HasVectorGoes ==
  ASSUME NEW c \in Caller, NEW a \in Asked, NEW v \in Model \cup {Nothing},
         HasVector(c, a, v)
  PROVE  \E p \in {"idle", "look"}, b \in Asked \cup {NoAsk} :
           Go(c, p, b) /\ (p # "idle" => b \in Asked)
<1>1. [a EXCEPT !.vector = v] \in Asked BY DEF Asked
<1> QED BY <1>1 DEF HasVector, Compared

(* What a step of a caller leaves typed.                                   *)
LEMMA CallerTyped ==
  ASSUME TypeOK, NEW c \in Caller, Ask(c) \/ Embedded(c) \/ Look(c) \/ Write(c)
  PROVE  CallersTyped' /\ Others(c)
<1> DEFINE Goal == CallersTyped' /\ Others(c)
<1>1. ASSUME Ask(c) PROVE Goal
  <2> PICK x \in Text, save \in BOOLEAN :
        LET a == [text |-> x, save |-> save, vector |-> Nothing] IN
        IF x \in cache THEN HasVector(c, a, settings.model) ELSE Go(c, "embedding", a)
    BY <1>1 DEF Ask
  <2> DEFINE a == [text |-> x, save |-> save, vector |-> Nothing]
  <2>1. a \in Asked BY DEF Asked
  <2>2. pc' = pc /\ pc = "up" /\ settings.model \in Model BY <1>1 DEF Ask, TypeOK
  <2>3. CASE x \in cache
    <3>1. HasVector(c, a, settings.model) BY <2>3
    <3> HIDE DEF a
    <3> QED BY <2>1, <2>2, <3>1, HasVectorGoes, GoTyped
  <2>4. CASE x \notin cache
    <3>1. Go(c, "embedding", a) BY <2>4
    <3> HIDE DEF a
    <3> QED BY <2>1, <2>2, <3>1, GoTyped
  <2> QED BY <2>3, <2>4
<1>2. ASSUME Embedded(c) PROVE Goal
  <2> PICK v \in Embed : HasVector(c, ask[c], v) BY <1>2 DEF Embedded
  <2>1. pc' = pc /\ pc = "up" /\ ask[c] \in Asked /\ v \in Model \cup {Nothing}
    BY <1>2 DEF Embedded, TypeOK, CallersTyped, Embed
  <2> QED BY <2>1, HasVectorGoes, GoTyped
<1>3. ASSUME Look(c) PROVE Goal
  <2>1. PICK p \in {"idle", "count", "insert"}, a \in {ask[c], NoAsk} :
          Go(c, p, a) /\ (p # "idle" => a = ask[c])
    BY <1>3 DEF Look
  <2>2. pc' = pc /\ pc = "up" /\ ask[c] \in Asked BY <1>3 DEF Look, TypeOK, CallersTyped
  <2> QED BY <2>1, <2>2, GoTyped
<1>4. ASSUME Write(c) PROVE Goal
  <2>1. Go(c, "idle", NoAsk) /\ pc' = pc BY <1>4 DEF Write
  <2> QED BY <2>1, GoTyped
<1> QED BY <1>1, <1>2, <1>3, <1>4

(* Migrate leaves the rows of a model as they are, or none.                *)
LEMMA MigratedGaps ==
  ASSUME TypeOK
  PROVE  /\ DOMAIN GapsMigrated = DOMAIN gaps
         /\ \A x \in Text, m \in Model :
              GapsMigrated[<<x, m>>] \in {0, gaps[<<x, m>>]}
<1>1. DOMAIN GapsMigrated = DOMAIN gaps BY DEF GapsMigrated
<1>2. ASSUME NEW x \in Text, NEW m \in Model
      PROVE  GapsMigrated[<<x, m>>] \in {0, gaps[<<x, m>>]}
  <2>1. <<x, m>> \in DOMAIN gaps /\ m # Nothing BY DEF TypeOK
  <2>2. GapsMigrated[<<x, m>>] = IF Other(m) THEN 0 ELSE gaps[<<x, m>>]
    BY <2>1 DEF GapsMigrated
  <2> QED BY <2>2
<1> QED BY <1>1, <1>2

(* A save adds one to the rows of its question and model, and to no other. *)
LEMMA WrittenGaps ==
  ASSUME TypeOK, NEW c \in Caller, Write(c)
  PROVE  /\ DOMAIN gaps' = DOMAIN gaps
         /\ \A x \in Text, m \in Model :
              \/ gaps'[<<x, m>>] = gaps[<<x, m>>]
              \/ /\ at[c] = "insert" /\ ask[c].text = x /\ ask[c].vector = m
                 /\ gaps'[<<x, m>>] = gaps[<<x, m>>] + 1
<1>1. \/ gaps' = gaps
      \/ at[c] = "insert" /\ gaps' = [gaps EXCEPT ![<<ask[c].text, ask[c].vector>>] = @ + 1]
  BY DEF Write
<1> QED BY <1>1 DEF TypeOK

----------------------------------------------------------------------------
(* The steps, part by part.                                                *)

CallerStep == \E c \in Caller : Ask(c) \/ Embedded(c) \/ Look(c) \/ Write(c)

(* The questions that callers have keep the service and its tables apart   *)
(* from the cache and the rows of knowledge_gaps.                          *)
LEMMA CallersAside ==
  CallerStep => UNCHANGED <<index, fingerprint, pc, settings, ready, vectorEnabled, starts, torn>>
<1> SUFFICES ASSUME NEW c \in Caller, Ask(c) \/ Embedded(c) \/ Look(c) \/ Write(c)
             PROVE UNCHANGED <<index, fingerprint, pc, settings, ready, vectorEnabled, starts, torn>>
  BY DEF CallerStep
<1> QED BY DEF Ask, Embedded, Look, Write, database, service

(* Steps of the process, of an administrator, of a caller, and none.       *)
LEMMA StepKinds ==
  [Next]_vars =>
    \/ Start \/ Migrate \/ NoFaq \/ KeepIndex \/ ReplaceFAQBatch \/ WriteFingerprint
    \/ Stop \/ ClearGaps \/ CallerStep \/ UNCHANGED vars
BY DEF Next, Initialize, CallerStep

(* The fingerprint is told of every change of the rows, or torn says that  *)
(* it was not; and only rows that fit this process are compared.           *)
LEMMA FingerprintStep == IInv /\ [Next]_vars => FingerprintHonest'
<1> SUFFICES ASSUME IInv, [Next]_vars PROVE FingerprintHonest' OBVIOUS
<1> USE DEF IInv, FingerprintHonest, Served
<1>1. CASE Start BY <1>1 DEF Start, database, service
<1>2. CASE Migrate
  <2>1. /\ UNCHANGED <<fingerprint, settings, torn, vectorEnabled>>
        /\ pc = "migrate" /\ pc' \in {"initialize", "down"}
        /\ index' \in {index, IndexMigrated}
        /\ pc' = "initialize" => index' = IndexMigrated
    BY <1>2 DEF Migrate, service
  <2>2. IndexMigrated.vectors => /\ index.vectors /\ IndexMigrated = index
                                 /\ Dimension[index.of.model] = Dimension[settings.model]
    BY DEF IndexMigrated, Other, TypeOK
  <2> QED BY <2>1, <2>2
<1>3. CASE NoFaq BY <1>3 DEF NoFaq, Up, database
<1>4. CASE KeepIndex BY <1>4 DEF KeepIndex, Up, Unchanged, database
<1>5. CASE ReplaceFAQBatch
  BY <1>5 DEF ReplaceFAQBatch, EmbedBatch, Up, service, TypeOK
<1>6. CASE WriteFingerprint BY <1>6 DEF WriteFingerprint, Up, TypeOK
<1>7. CASE Stop BY <1>7 DEF Stop, Memory, database
<1>8. CASE ClearGaps BY <1>8 DEF ClearGaps, service
<1>9. CASE CallerStep BY <1>9, CallersAside
<1>10. CASE UNCHANGED vars BY <1>10 DEF vars, database, service
<1> QED BY <1>1, <1>2, <1>3, <1>4, <1>5, <1>6, <1>7, <1>8, <1>9, <1>10, StepKinds

(* The cache and its order change together.                                *)
LEMMA CacheStep == IInv /\ [Next]_vars => order' \in Seq(Text) /\ CacheListed'
<1> SUFFICES ASSUME IInv, [Next]_vars PROVE order' \in Seq(Text) /\ CacheListed' OBVIOUS
<1>1. order \in Seq(Text) /\ CacheListed BY DEF IInv, TypeOK
<1>2. ASSUME UNCHANGED <<cache, order>> PROVE order' \in Seq(Text) /\ CacheListed'
  BY <1>1, <1>2 DEF CacheListed
<1>3. CASE Stop
  <2>1. cache' = {} /\ order' = <<>> BY <1>3 DEF Stop, Memory
  <2> QED BY <2>1 DEF CacheListed, Lists
<1>4. ASSUME NEW c \in Caller, Ask(c) PROVE order' \in Seq(Text) /\ CacheListed'
  <2>1. cache' = cache BY <1>4 DEF Ask
  <2>2. PICK x \in Text :
          IF x \in cache THEN order' = Touched(x) ELSE order' = order
    BY <1>4 DEF Ask
  <2>3. CASE x \in cache BY <1>1, <2>1, <2>2, <2>3, TouchedListed DEF CacheListed
  <2>4. CASE x \notin cache BY <1>2, <2>1, <2>2, <2>4
  <2> QED BY <2>3, <2>4
<1>5. ASSUME NEW c \in Caller, Embedded(c) PROVE order' \in Seq(Text) /\ CacheListed'
  <2>1. ask[c].text \in Text BY <1>5 DEF Embedded, IInv, TypeOK, CallersTyped, Asked
  <2>2. UNCHANGED <<cache, order>> \/ Insert(ask[c].text) BY <1>5 DEF Embedded
  <2> QED BY <1>1, <1>2, <2>1, <2>2, InsertListed
<1>6. CASE \E c \in Caller : Look(c) \/ Write(c)
  BY <1>2, <1>6 DEF Look, Write, service
<1>7. CASE Start \/ Migrate \/ NoFaq \/ KeepIndex \/ ReplaceFAQBatch
           \/ WriteFingerprint \/ ClearGaps \/ UNCHANGED vars
  BY <1>2, <1>7 DEF Start, Migrate, NoFaq, KeepIndex, ReplaceFAQBatch,
       WriteFingerprint, ClearGaps, Up, service, vars
<1> QED BY <1>3, <1>4, <1>5, <1>6, <1>7, StepKinds DEF CallerStep

(* No more is inserted than was looked for, alone.                         *)
LEMMA GapsStep == IInv /\ [Next]_vars => InsertsAlone' /\ GapsUnique'
<1> SUFFICES ASSUME IInv, [Next]_vars PROVE InsertsAlone' /\ GapsUnique' OBVIOUS
<1> USE DEF IInv
<1>1. \A x \in Text, m \in Model : gaps[<<x, m>>] \in Nat BY DEF TypeOK
<1>2. ASSUME UNCHANGED <<gaps, at, ask, overlapped>> PROVE InsertsAlone' /\ GapsUnique'
  BY <1>2 DEF InsertsAlone, GapsUnique
<1>3. CASE Migrate
  <2>1. UNCHANGED callers BY <1>3 DEF Migrate
  <2>2. CASE gaps' = gaps BY <1>2, <2>1, <2>2 DEF callers
  <2>3. CASE gaps' = GapsMigrated
    <3>1. \A c \in Caller : at[c] = "idle" BY <1>3 DEF Migrate, TypeOK, CallersTyped
    <3>2. InsertsAlone' BY <2>1, <3>1 DEF callers, InsertsAlone
    <3>3. GapsUnique'
      <4> SUFFICES ASSUME NEW x \in Text \ overlapped, NEW m \in Model
                   PROVE  gaps'[<<x, m>>] <= 1
        BY <2>1 DEF callers, GapsUnique
      <4>1. gaps[<<x, m>>] <= 1 BY DEF GapsUnique
      <4> QED BY <2>3, <4>1, MigratedGaps
    <3> QED BY <3>2, <3>3
  <2> QED BY <1>3, <2>2, <2>3 DEF Migrate
<1>4. CASE ClearGaps
  <2>1. \A x \in Text, m \in Model : gaps'[<<x, m>>] = 0
    BY <1>4 DEF ClearGaps, TypeOK
  <2>2. UNCHANGED callers BY <1>4 DEF ClearGaps
  <2>3. InsertsAlone'
    <3>1. \A c \in Caller : at[c] = "insert" => ask[c].text \in Text
      BY DEF TypeOK, CallersTyped, Asked
    <3> QED BY <2>1, <2>2, <3>1 DEF callers, InsertsAlone
  <2>4. GapsUnique'
    <3> SUFFICES ASSUME NEW x \in Text \ overlapped', NEW m \in Model
                 PROVE  gaps'[<<x, m>>] <= 1
      BY DEF GapsUnique
    <3> QED BY <2>1
  <2> QED BY <2>3, <2>4
<1>5. CASE Stop
  <2>1. \A c \in Caller : at'[c] = "idle" BY <1>5 DEF Stop, Memory
  <2>2. UNCHANGED <<gaps, overlapped>> BY <1>5 DEF Stop, database
  <2> QED BY <2>1, <2>2 DEF InsertsAlone, GapsUnique
<1>6. ASSUME NEW c \in Caller, Ask(c) \/ Embedded(c) PROVE InsertsAlone' /\ GapsUnique'
  <2>1. UNCHANGED <<gaps, overlapped>> BY <1>6 DEF Ask, Embedded, database
  <2>2. at'[c] \in {"idle", "look", "embedding"}
    BY <1>6 DEF Ask, Embedded, HasVector, Compared, Go, TypeOK, CallersTyped
  <2>3. Others(c) BY <1>6, CallerTyped
  <2>4. InsertsAlone' BY <2>1, <2>2, <2>3 DEF InsertsAlone, Others
  <2>5. GapsUnique' BY <2>1 DEF GapsUnique
  <2> QED BY <2>4, <2>5
<1>7. ASSUME NEW c \in Caller, Look(c) PROVE InsertsAlone' /\ GapsUnique'
  <2>1. Others(c) /\ gaps' = gaps BY <1>7, CallerTyped DEF Look, database
  <2>2. overlapped \subseteq overlapped' BY <1>7 DEF Look
  <2>3. ask[c] \in Asked BY <1>7 DEF Look, TypeOK, CallersTyped
  <2>4. ASSUME at'[c] = "insert"
        PROVE  /\ ask'[c] = ask[c]
               /\ ask[c].vector \in Model => gaps[<<ask[c].text, ask[c].vector>>] = 0
    <3>1. FALSE \in Found(ask[c]) /\ Go(c, "insert", ask[c])
      <4>1. ~Go(c, "idle", NoAsk) BY <2>4 DEF Go, TypeOK, CallersTyped
      <4>2. PICK found \in Found(ask[c]) :
              Go(c, IF found THEN "count" ELSE "insert", ask[c])
        BY <1>7, <4>1 DEF Look
      <4>3. CASE found
        <5>1. Go(c, "count", ask[c]) BY <4>2, <4>3
        <5> QED BY <2>4, <5>1 DEF Go, TypeOK, CallersTyped
      <4>4. CASE ~found
        <5>1. found = FALSE
          <6>1. found \in BOOLEAN BY DEF Found, Rows
          <6> QED BY <4>4, <6>1
        <5> QED BY <4>2, <4>4, <5>1
      <4> QED BY <4>3, <4>4
    <3>2. ask'[c] = ask[c] BY <3>1 DEF Go, TypeOK, CallersTyped
    <3>3. ASSUME ask[c].vector \in Model
          PROVE  gaps[<<ask[c].text, ask[c].vector>>] = 0
      <4>1. ~Rows({ask[c].text}, {ask[c].vector}) BY <3>1, <3>3 DEF Found
      <4>2. ~(gaps[<<ask[c].text, ask[c].vector>>] > 0) BY <4>1 DEF Rows
      <4>3. ask[c].text \in Text BY <2>3 DEF Asked
      <4> QED BY <1>1, <3>3, <4>2, <4>3
    <3> QED BY <3>2, <3>3
  <2>5. ASSUME NEW d \in Caller \ {c}, at[d] = "insert", ask[d].text = ask[c].text
        PROVE  ask[c].text \in overlapped'
    BY <1>7, <2>5 DEF Look
  <2>6. InsertsAlone' BY <2>1, <2>2, <2>4, <2>5 DEF InsertsAlone, Others
  <2>7. GapsUnique' BY <2>1, <2>2 DEF GapsUnique
  <2> QED BY <2>6, <2>7
<1>8. ASSUME NEW c \in Caller, Write(c) PROVE InsertsAlone' /\ GapsUnique'
  <2>1. overlapped' = overlapped /\ at'[c] = "idle"
    BY <1>8 DEF Write, Go, TypeOK, CallersTyped
  <2>2. Others(c) BY <1>8, CallerTyped
  <2>3. ASSUME NEW x \in Text \ overlapped, NEW m \in Model,
               gaps'[<<x, m>>] # gaps[<<x, m>>]
        PROVE  /\ gaps[<<x, m>>] = 0 /\ gaps'[<<x, m>>] = 1
               /\ \A d \in Caller \ {c} : ~(at[d] = "insert" /\ ask[d].text = x)
    BY <1>8, <2>3, WrittenGaps DEF InsertsAlone
  <2>4. InsertsAlone'
    <3> SUFFICES ASSUME NEW d \in Caller, at'[d] = "insert", ask'[d].text \notin overlapped'
                 PROVE  /\ ask'[d].vector \in Model => gaps'[<<ask'[d].text, ask'[d].vector>>] = 0
                        /\ \A e \in Caller : at'[e] = "insert" /\ ask'[e].text = ask'[d].text => e = d
      BY DEF InsertsAlone
    <3>1. d # c /\ at[d] = "insert" /\ ask'[d] = ask[d] /\ ask[d].text \in Text \ overlapped
      BY <2>1, <2>2 DEF Others, TypeOK, CallersTyped, Asked
    <3>2. \A e \in Caller : at'[e] = "insert" /\ ask'[e].text = ask'[d].text => e = d
      BY <2>1, <2>2, <3>1 DEF Others, InsertsAlone
    <3>3. ask[d].vector \in Model => gaps'[<<ask[d].text, ask[d].vector>>] = 0
      BY <2>3, <3>1 DEF InsertsAlone
    <3> QED BY <3>1, <3>2, <3>3
  <2>5. GapsUnique'
    <3> SUFFICES ASSUME NEW x \in Text \ overlapped, NEW m \in Model
                 PROVE  gaps'[<<x, m>>] <= 1
      BY <2>1 DEF GapsUnique
    <3>1. gaps[<<x, m>>] <= 1 BY DEF GapsUnique
    <3> QED BY <2>3, <3>1
  <2> QED BY <2>4, <2>5
<1>9. CASE Start \/ NoFaq \/ KeepIndex \/ ReplaceFAQBatch \/ WriteFingerprint \/ UNCHANGED vars
  BY <1>2, <1>9 DEF Start, NoFaq, KeepIndex, ReplaceFAQBatch, WriteFingerprint,
       database, callers, vars
<1> QED BY <1>3, <1>4, <1>5, <1>6, <1>7, <1>8, <1>9, StepKinds DEF CallerStep

(* Every variable keeps its kind of value.                                 *)
LEMMA TypeStep == IInv /\ [Next]_vars => TypeOK'
<1> SUFFICES ASSUME TypeOK, order' \in Seq(Text), [Next]_vars PROVE TypeOK'
  BY CacheStep DEF IInv
<1> USE DEF TypeOK
<1>1. CASE Start BY <1>1 DEF Start, database, service, callers, CallersTyped
<1>2. CASE Migrate
  <2>1. /\ UNCHANGED <<fingerprint, settings, ready, vectorEnabled, cache, order,
                       at, ask, asks, overlapped, starts, torn>>
        /\ pc = "migrate" /\ pc' \in {"initialize", "down"}
        /\ index' \in {index, IndexMigrated} /\ gaps' \in {gaps, GapsMigrated}
    BY <1>2 DEF Migrate, service, callers
  <2>2. IndexMigrated \in [of : Settings \cup {Nothing}, vectors : BOOLEAN]
    BY DEF IndexMigrated
  <2>3. /\ DOMAIN gaps' = Text \X (Model \cup {Nothing})
        /\ \A x \in Text, m \in Model : gaps'[<<x, m>>] \in Nat
    <3>1. CASE gaps' = gaps BY <3>1
    <3>2. CASE gaps' = GapsMigrated BY <3>2, MigratedGaps
    <3> QED BY <2>1, <3>1, <3>2
  <2>4. CallersTyped' BY <2>1 DEF CallersTyped
  <2> QED BY <2>1, <2>2, <2>3, <2>4
<1>3. CASE NoFaq BY <1>3 DEF NoFaq, Up, database, callers, CallersTyped
<1>4. CASE KeepIndex BY <1>4 DEF KeepIndex, Up, database, callers, CallersTyped
<1>5. CASE ReplaceFAQBatch
  <2>1. /\ pc = "initialize" /\ pc' \in {"fingerprint", "up"}
        /\ index' \in {index, [of |-> settings, vectors |-> TRUE]}
        /\ ready' \in BOOLEAN /\ vectorEnabled' \in BOOLEAN
        /\ UNCHANGED <<fingerprint, gaps, settings, at, ask, asks, starts, torn>>
    BY <1>5 DEF ReplaceFAQBatch, Up, service, callers
  <2>2. CallersTyped' BY <2>1 DEF CallersTyped
  <2>3. settings \in Settings /\ settings' = settings BY <2>1
  <2>4. index' \in [of : Settings \cup {Nothing}, vectors : BOOLEAN]
    <3>1. CASE index' = index BY <3>1
    <3>2. CASE index' = [of |-> settings, vectors |-> TRUE] BY <2>3, <3>2
    <3> QED BY <2>1, <3>1, <3>2
  <2>5. /\ DOMAIN gaps' = Text \X (Model \cup {Nothing})
        /\ \A x \in Text, m \in Model : gaps'[<<x, m>>] \in Nat
    BY <2>1
  <2> QED BY <2>1, <2>2, <2>3, <2>4, <2>5
<1>6. CASE WriteFingerprint
  BY <1>6 DEF WriteFingerprint, Up, callers, CallersTyped
<1>7. CASE Stop BY <1>7 DEF Stop, Memory, database, CallersTyped
<1>8. CASE ClearGaps
  <2>1. UNCHANGED <<index, fingerprint, pc, settings, ready, vectorEnabled, cache, order,
                    at, ask, asks, overlapped, starts, torn>>
    BY <1>8 DEF ClearGaps, service, callers
  <2>2. /\ DOMAIN gaps' = Text \X (Model \cup {Nothing})
        /\ \A x \in Text, m \in Model : gaps'[<<x, m>>] \in Nat
    BY <1>8 DEF ClearGaps
  <2> QED BY <2>1, <2>2 DEF CallersTyped
<1>9. CASE CallerStep
  <2> PICK c \in Caller : Ask(c) \/ Embedded(c) \/ Look(c) \/ Write(c)
    BY <1>9 DEF CallerStep
  <2>1. CallersTyped' BY CallerTyped
  <2>2. UNCHANGED <<index, fingerprint, pc, settings, ready, vectorEnabled, starts, torn>>
    BY <1>9, CallersAside
  <2>3. /\ DOMAIN gaps' = Text \X (Model \cup {Nothing})
        /\ \A x \in Text, m \in Model : gaps'[<<x, m>>] \in Nat
    <3>1. CASE Write(c)
      <4>1. DOMAIN gaps' = DOMAIN gaps BY <3>1, WrittenGaps
      <4>2. ASSUME NEW x \in Text, NEW m \in Model PROVE gaps'[<<x, m>>] \in Nat
        <5>1. \/ gaps'[<<x, m>>] = gaps[<<x, m>>]
              \/ gaps'[<<x, m>>] = gaps[<<x, m>>] + 1
          BY <3>1, WrittenGaps
        <5>2. gaps[<<x, m>>] \in Nat OBVIOUS
        <5> QED BY <5>1, <5>2
      <4> QED BY <4>1, <4>2
    <3>2. CASE Ask(c) \/ Embedded(c) \/ Look(c)
      BY <3>2 DEF Ask, Embedded, Look, database
    <3> QED BY <3>1, <3>2
  <2>4. asks' \in Nat BY DEF Ask, Embedded, Look, Write
  <2> QED BY <2>1, <2>2, <2>3, <2>4
<1>10. CASE UNCHANGED vars BY <1>10 DEF vars, database, service, callers, CallersTyped
<1> QED BY <1>1, <1>2, <1>3, <1>4, <1>5, <1>6, <1>7, <1>8, <1>9, <1>10, StepKinds

----------------------------------------------------------------------------
(* The inductive invariant holds in every reachable state.                 *)
THEOREM Invariant == Spec => []IInv
<1>1. IInv /\ [Next]_vars => IInv'
  BY TypeStep, FingerprintStep, CacheStep, GapsStep DEF IInv
<1> QED BY InitIInv, <1>1, PTL DEF Spec

(* Every variable keeps its kind of value.                                 *)
THEOREM TypeCorrect == Spec => []TypeOK
<1>1. IInv => TypeOK BY DEF IInv
<1> QED BY <1>1, Invariant, PTL

(* Only a process that the fingerprint names compares vectors, and they    *)
(* are as long as its own; they are of its model and FAQ unless rows were  *)
(* committed without their fingerprint: Migrate, Unchanged and             *)
(* WriteFingerprint, over any number of starts.                            *)
THEOREM VectorsSafe == Spec => []VectorsCompatible
<1>1. IInv => VectorsCompatible
  BY DEF IInv, FingerprintHonest, Served, VectorsCompatible
<1> QED BY <1>1, Invariant, PTL

(* The cache of questions and its order of eviction hold the same keys and *)
(* never more than CacheSize, whichever calls EmbedQuery overlaps.         *)
THEOREM CacheSafe == Spec => []QueryCacheConsistent
<1>1. IInv => QueryCacheConsistent
  <2> SUFFICES ASSUME IInv PROVE QueryCacheConsistent OBVIOUS
  <2>1. order \in Seq(Text) /\ Lists(order, cache) /\ Len(order) <= CacheSize
    BY DEF IInv, TypeOK, CacheListed
  <2> QED BY <2>1, ListCounts DEF QueryCacheConsistent
<1> QED BY <1>1, Invariant, PTL

(* Gaps.save keeps a question in one row for each model, unless two saves  *)
(* of it looked before either inserted.                                    *)
THEOREM RowsUnique == Spec => []GapsUnique
<1>1. IInv => GapsUnique BY DEF IInv
<1> QED BY <1>1, Invariant, PTL
=============================================================================
