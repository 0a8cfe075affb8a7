---------------------------- MODULE IntakeProofs ----------------------------
(***************************************************************************)
(* The way of a message from Telegram to the pipeline, for any number of   *)
(* users, messages, updates and processes, and any limit of a batch:       *)
(* Buffer by itself, and Intake with it.                                   *)
(*                                                                         *)
(* The buffer treats every user by himself: what holds of one is stated of *)
(* the values of his messages, his batches, how many he sent and which     *)
(* /start dropped, and kept when a message comes, a batch leaves or is     *)
(* dropped.  The rest is who may still flush: a timer or a drain.          *)
(***************************************************************************)
EXTENDS Intake, FiniteSetTheorems, SequenceTheorems, TLAPS

(* One user: his pending messages, his batches, the number of his messages *)
(* and the numbers of those dropped.                                       *)

Piece(items, batches, k) == IF k \in DOMAIN batches THEN batches[k].items ELSE items

OneAttachment(items) ==
  \A i, j \in DOMAIN items : Attached(items[i]) /\ Attached(items[j]) => i = j

AllShown(batch) ==
  \A i \in DOMAIN batch.items : Attached(batch.items[i]) => batch.items[i].n = Shown(batch)

Complete(items, batches, n, gone) ==
  \A x : x \in (1..n) \ gone <=>
           \E k \in 1..Len(batches) + 1 : x \in Ids(Piece(items, batches, k))

InOrder(items, batches) ==
  \A k, l \in 1..Len(batches) + 1 :
    \A i \in DOMAIN Piece(items, batches, k), j \in DOMAIN Piece(items, batches, l) :
      k < l \/ (k = l /\ i < j) => Piece(items, batches, k)[i].n < Piece(items, batches, l)[j].n

Good(items, batches, n, gone) ==
  /\ items \in Seq(Message) /\ batches \in Seq(Batch)
  /\ n \in 0..MaxMessages /\ gone \in SUBSET (1..n)
  /\ OneAttachment(items)
  /\ \A k \in DOMAIN batches : AllShown(batches[k])
  /\ Complete(items, batches, n, gone)
  /\ InOrder(items, batches)

USE MaxMessagesAssumption

----------------------------------------------------------------------------
(* A user.                                                                 *)

(* The items of a sequence with one more.                                  *)
LEMMA OneMore ==
  ASSUME NEW S, NEW s \in Seq(S), NEW m \in S
  PROVE  /\ Append(s, m) \in Seq(S) /\ Len(Append(s, m)) = Len(s) + 1 /\ Len(s) \in Nat
         /\ DOMAIN Append(s, m) = 1..Len(s) + 1 /\ DOMAIN s = 1..Len(s)
         /\ \A i \in 1..Len(s) : Append(s, m)[i] = s[i]
         /\ Append(s, m)[Len(s) + 1] = m
<1>1. /\ Append(s, m) \in Seq(S) /\ Len(Append(s, m)) = Len(s) + 1 /\ Len(s) \in Nat
      /\ \A i \in 1..Len(s) : Append(s, m)[i] = s[i]
      /\ Append(s, m)[Len(s) + 1] = m
  BY AppendProperties
<1> QED BY <1>1, LenProperties

(* The first item of a kind, where there is one at most.                   *)
LEMMA FirstOfOne ==
  ASSUME NEW items \in Seq(Message), OneAttachment(items), NEW kind \in {"image", "pdf"}
  PROVE  /\ First(items, kind) \in 0..MaxMessages
         /\ \A i \in DOMAIN items : items[i].kind = kind => First(items, kind) = items[i].n
         /\ (\A i \in DOMAIN items : items[i].kind # kind) => First(items, kind) = 0
<1> DEFINE S == {i \in DOMAIN items : items[i].kind = kind}
<1>1. CASE S = {} BY <1>1 DEF First
<1>2. CASE S # {}
  <2>1. PICK i \in S : TRUE BY <1>2
  <2>2. \A j \in S : j = i BY <2>1 DEF OneAttachment, Attached
  <2>3. i \in DOMAIN items /\ items[i] \in Message
    BY <2>1, ElementOfSeq, LenProperties
  <2>4. i \in Nat BY <2>3, LenProperties
  <2>5. Min(S) = i
    <3>1. i \in S /\ \A y \in S : i <= y BY <2>1, <2>2, <2>4
    <3>2. \A x \in S : (\A y \in S : x <= y) => x = i BY <2>2
    <3> QED BY <3>1, <3>2 DEF Min
  <2>6. First(items, kind) = items[i].n BY <1>2, <2>5 DEF First
  <2>7. items[i].n \in 0..MaxMessages BY <2>3 DEF Message, Number
  <2> QED BY <2>1, <2>2, <2>6, <2>7
<1> QED BY <1>1, <1>2

(* A batch with one attachment at most shows it.                           *)
LEMMA BatchShows ==
  ASSUME NEW items \in Seq(Message), OneAttachment(items)
  PROVE  /\ MakeBatch(items) \in Batch /\ AllShown(MakeBatch(items))
         /\ MakeBatch(items).items = items
<1>1. /\ First(items, "image") \in 0..MaxMessages /\ First(items, "pdf") \in 0..MaxMessages
  BY FirstOfOne
<1>2. /\ MakeBatch(items) \in Batch /\ MakeBatch(items).items = items
      /\ MakeBatch(items).pdf = First(items, "pdf")
      /\ MakeBatch(items).image = First(items, "image")
  BY <1>1 DEF MakeBatch, Batch
<1>3. ASSUME NEW i \in DOMAIN items, Attached(items[i])
      PROVE  items[i].n = Shown(MakeBatch(items))
  <2>0. items[i] \in Message BY <1>3, ElementOfSeq, LenProperties
  <2>1. items[i].n \in Nat \ {0} BY <2>0 DEF Message, Number
  <2>2. CASE items[i].kind = "pdf"
    <3>1. First(items, "pdf") = items[i].n BY <1>3, <2>2, FirstOfOne
    <3> QED BY <1>2, <2>1, <3>1 DEF Shown
  <2>3. CASE items[i].kind = "image"
    <3>1. First(items, "image") = items[i].n BY <1>3, <2>3, FirstOfOne
    <3>2. \A j \in DOMAIN items : items[j].kind # "pdf"
      BY <1>3, <2>3 DEF OneAttachment, Attached
    <3>3. First(items, "pdf") = 0 BY <3>2, FirstOfOne
    <3> QED BY <1>2, <2>1, <3>1, <3>3 DEF Shown
  <2> QED BY <1>3, <2>2, <2>3 DEF Attached
<1> QED BY <1>2, <1>3 DEF AllShown

(* Submit: the next number joins the pending messages.                     *)
LEMMA GoodGrows ==
  ASSUME NEW items, NEW batches, NEW n, NEW gone, Good(items, batches, n, gone),
         n < MaxMessages, NEW m \in Message, m.n = n + 1, ~Conflict(items, m)
  PROVE  Good(Append(items, m), batches, n + 1, gone)
<1> DEFINE longer == Append(items, m)
           last == Len(batches) + 1
<1>0. /\ items \in Seq(Message) /\ batches \in Seq(Batch) /\ n \in 0..MaxMessages
      /\ gone \in SUBSET (1..n) /\ n \in Nat
  BY DEF Good
<1>1. /\ longer \in Seq(Message) /\ Len(items) \in Nat
      /\ DOMAIN longer = 1..Len(items) + 1 /\ DOMAIN items = 1..Len(items)
      /\ \A i \in 1..Len(items) : longer[i] = items[i]
      /\ longer[Len(items) + 1] = m
  BY <1>0, OneMore
<1> HIDE DEF longer
<1>2. OneAttachment(longer)
  <2>1. OneAttachment(items) BY DEF Good
  <2> QED BY <1>1, <2>1 DEF OneAttachment, Conflict
<1>3. /\ \A k \in 1..Len(batches) : Piece(longer, batches, k) = Piece(items, batches, k)
      /\ Piece(longer, batches, last) = longer /\ Piece(items, batches, last) = items
      /\ Len(batches) \in Nat
  <2>1. Len(batches) \in Nat /\ DOMAIN batches = 1..Len(batches) BY <1>0, LenProperties
  <2> QED BY <2>1 DEF Piece
<1>4. Ids(longer) = Ids(items) \cup {n + 1}
  BY <1>1 DEF Ids
<1>5. Complete(longer, batches, n + 1, gone)
  <2>1. ASSUME NEW x
        PROVE  (\E k \in 1..last : x \in Ids(Piece(longer, batches, k)))
                 <=> (\E k \in 1..last : x \in Ids(Piece(items, batches, k))) \/ x = n + 1
    BY <1>3, <1>4
  <2>2. \A x : x \in (1..n + 1) \ gone <=> x \in (1..n) \ gone \/ x = n + 1
    BY <1>0
  <2> QED BY <2>1, <2>2 DEF Good, Complete
<1>6. InOrder(longer, batches)
  <2> SUFFICES ASSUME NEW k \in 1..last, NEW l \in 1..last,
                      NEW i \in DOMAIN Piece(longer, batches, k),
                      NEW j \in DOMAIN Piece(longer, batches, l),
                      k < l \/ (k = l /\ i < j)
               PROVE  Piece(longer, batches, k)[i].n < Piece(longer, batches, l)[j].n
    BY DEF InOrder
  <2>1. CASE l = last /\ j = Len(items) + 1
    <3>1. Piece(longer, batches, l)[j].n = n + 1 BY <1>1, <1>3, <2>1
    <3>2. i \in DOMAIN Piece(items, batches, k)
          /\ Piece(longer, batches, k)[i] = Piece(items, batches, k)[i]
      BY <1>1, <1>3, <2>1
    <3>3. Piece(items, batches, k)[i].n \in Ids(Piece(items, batches, k)) BY <3>2 DEF Ids
    <3>4. Piece(items, batches, k)[i].n \in 1..n BY <3>3 DEF Good, Complete
    <3> QED BY <1>0, <3>1, <3>2, <3>4
  <2>2. CASE ~(l = last /\ j = Len(items) + 1)
    <3>1. j \in DOMAIN Piece(items, batches, l)
          /\ Piece(longer, batches, l)[j] = Piece(items, batches, l)[j]
      BY <1>1, <1>3, <2>2
    <3>2. i \in DOMAIN Piece(items, batches, k)
          /\ Piece(longer, batches, k)[i] = Piece(items, batches, k)[i]
      BY <1>1, <1>3, <2>2
    <3> QED BY <3>1, <3>2 DEF Good, InOrder
  <2> QED BY <2>1, <2>2
<1>7. n + 1 \in 0..MaxMessages /\ gone \in SUBSET (1..n + 1) BY <1>0
<1> QED BY <1>0, <1>1, <1>2, <1>5, <1>6, <1>7 DEF Good, longer

(* The pending messages leave as a batch.                                  *)
LEMMA GoodSends ==
  ASSUME NEW items, NEW batches, NEW n, NEW gone, Good(items, batches, n, gone)
  PROVE  Good(<<>>, Append(batches, MakeBatch(items)), n, gone)
<1> DEFINE more == Append(batches, MakeBatch(items))
           last == Len(batches) + 1
<1>0. /\ items \in Seq(Message) /\ batches \in Seq(Batch) /\ OneAttachment(items)
  BY DEF Good
<1>1. /\ MakeBatch(items) \in Batch /\ AllShown(MakeBatch(items))
      /\ MakeBatch(items).items = items
  BY <1>0, BatchShows
<1>2. /\ more \in Seq(Batch) /\ Len(more) = last /\ Len(batches) \in Nat
      /\ DOMAIN more = 1..last /\ DOMAIN batches = 1..Len(batches)
      /\ \A k \in 1..Len(batches) : more[k] = batches[k]
      /\ more[last] = MakeBatch(items)
  BY <1>0, <1>1, OneMore
<1> HIDE DEF more
<1>3. /\ \A k \in 1..last : Piece(<<>>, more, k) = Piece(items, batches, k)
      /\ Piece(<<>>, more, last + 1) = <<>>
  BY <1>1, <1>2 DEF Piece
<1>4. OneAttachment(<<>>) /\ <<>> \in Seq(Message) BY DEF OneAttachment
<1>5. \A k \in DOMAIN more : AllShown(more[k])
  BY <1>1, <1>2 DEF Good
<1>6. Complete(<<>>, more, n, gone)
  <2>1. Ids(<<>>) = {} BY DEF Ids
  <2>2. 1..Len(more) + 1 = 1..last \cup {last + 1} BY <1>2
  <2>3. ASSUME NEW x
        PROVE  (\E k \in 1..Len(more) + 1 : x \in Ids(Piece(<<>>, more, k)))
                 <=> (\E k \in 1..last : x \in Ids(Piece(items, batches, k)))
    BY <1>3, <2>1, <2>2
  <2> QED BY <2>3 DEF Good, Complete
<1>7. InOrder(<<>>, more)
  <2> SUFFICES ASSUME NEW k \in 1..Len(more) + 1, NEW l \in 1..Len(more) + 1,
                      NEW i \in DOMAIN Piece(<<>>, more, k),
                      NEW j \in DOMAIN Piece(<<>>, more, l),
                      k < l \/ (k = l /\ i < j)
               PROVE  Piece(<<>>, more, k)[i].n < Piece(<<>>, more, l)[j].n
    BY DEF InOrder
  <2>1. DOMAIN <<>> = {} OBVIOUS
  <2>2. k \in 1..last /\ l \in 1..last BY <1>2, <1>3, <2>1
  <2>3. /\ Piece(<<>>, more, k) = Piece(items, batches, k)
        /\ Piece(<<>>, more, l) = Piece(items, batches, l)
    BY <1>3, <2>2
  <2> QED BY <2>2, <2>3 DEF Good, InOrder
<1> QED BY <1>2, <1>4, <1>5, <1>6, <1>7 DEF Good, more

(* /start drops the pending messages.                                      *)
LEMMA GoodDrops ==
  ASSUME NEW items, NEW batches, NEW n, NEW gone, Good(items, batches, n, gone)
  PROVE  Good(<<>>, batches, n, gone \cup Ids(items))
<1> DEFINE last == Len(batches) + 1
<1>0. /\ items \in Seq(Message) /\ batches \in Seq(Batch) /\ Len(batches) \in Nat
      /\ gone \in SUBSET (1..n)
  BY LenProperties DEF Good
<1>1. /\ \A k \in 1..Len(batches) : Piece(<<>>, batches, k) = Piece(items, batches, k)
      /\ Piece(<<>>, batches, last) = <<>> /\ Piece(items, batches, last) = items
  BY <1>0, LenProperties DEF Piece
<1>2. OneAttachment(<<>>) /\ <<>> \in Seq(Message) BY DEF OneAttachment
<1>3. \A x \in Ids(items) : x \in (1..n) \ gone
  BY <1>0, <1>1 DEF Good, Complete
<1>4. ASSUME NEW k \in 1..Len(batches), NEW x \in Ids(Piece(items, batches, k))
      PROVE  x \notin Ids(items) /\ x \in (1..n) \ gone
  <2>1. PICK i \in DOMAIN Piece(items, batches, k) : x = Piece(items, batches, k)[i].n
    BY DEF Ids
  <2>2. x \in (1..n) \ gone BY <1>0, <1>4 DEF Good, Complete
  <2>3. \A j \in DOMAIN items : x < items[j].n
    BY <1>0, <1>1, <2>1 DEF Good, InOrder
  <2>4. n \in Nat /\ x \in Nat BY <2>2 DEF Good
  <2> QED BY <2>2, <2>3, <2>4 DEF Ids
<1>5. Complete(<<>>, batches, n, gone \cup Ids(items))
  <2>1. Ids(<<>>) = {} BY DEF Ids
  <2>2. 1..Len(batches) + 1 = 1..Len(batches) \cup {last} BY <1>0
  <2>3. ASSUME NEW x
        PROVE  x \in (1..n) \ (gone \cup Ids(items)) <=>
               \E k \in 1..last : x \in Ids(Piece(<<>>, batches, k))
    <3>1. (\E k \in 1..last : x \in Ids(Piece(<<>>, batches, k)))
            <=> \E k \in 1..Len(batches) : x \in Ids(Piece(items, batches, k))
      BY <1>1, <2>1, <2>2
    <3>2. x \in (1..n) \ gone <=> x \in Ids(items) \/
            \E k \in 1..Len(batches) : x \in Ids(Piece(items, batches, k))
      BY <1>1, <2>2 DEF Good, Complete
    <3> QED BY <1>4, <3>1, <3>2
  <2> QED BY <2>3 DEF Complete
<1>6. InOrder(<<>>, batches)
  <2>1. DOMAIN <<>> = {} OBVIOUS
  <2>2. ASSUME NEW k \in 1..last, NEW i \in DOMAIN Piece(<<>>, batches, k)
        PROVE  Piece(<<>>, batches, k) = Piece(items, batches, k)
    BY <1>0, <1>1, <2>1
  <2> QED BY <2>2 DEF Good, InOrder
<1>7. gone \cup Ids(items) \in SUBSET (1..n) BY <1>0, <1>3
<1> QED BY <1>2, <1>5, <1>6, <1>7 DEF Good

----------------------------------------------------------------------------
(* The buffer.                                                             *)

USE UserAssumption, LimitAssumption

(* Every user's messages, and how many of them wait.                       *)
UsersGood ==
  /\ pending \in [User -> [items : Seq(Message), generation : Nat]]
  /\ sent \in [User -> Seq(Batch)] /\ count \in [User -> 0..MaxMessages]
  /\ discarded \in [User -> SUBSET Number]
  /\ \A u \in User :
       /\ Good(pending[u].items, sent[u], count[u], discarded[u])
       /\ pending[u].generation = Len(pending[u].items) /\ Len(pending[u].items) < Limit

(* A timer whose callback waits is of a batch that has grown since, or the *)
(* user has been silent since.                                             *)
TimersKnown ==
  /\ timers \subseteq [user : User, first : Number, generation : 1..Limit - 1, fired : BOOLEAN]
  /\ quiet \in [User -> BOOLEAN]
  /\ \A t \in timers :
       /\ t.first <= count[t.user]
       /\ pending[t.user].items # <<>> /\ pending[t.user].items[1].n = t.first
            => t.generation <= pending[t.user].generation
       /\ t.fired /\ Current(t) => quiet[t.user]

(* Nothing is pending in a closed buffer, and every Sink is counted.       *)
SinksCounted ==
  /\ closed \in BOOLEAN /\ drain \in {"serving", "draining", "drained", "timedOut", "down"}
  /\ closed <=> drain # "serving"
  /\ closed => \A u \in User : pending[u] = NoBatch
  /\ running \in SUBSET (User \X Number) /\ IsFiniteSet(running) /\ wg = Cardinality(running)
  /\ \A g \in running : g[2] <= Len(sent[g[1]])
  /\ drain = "drained" => running = {}

BufferInv == UsersGood /\ TimersKnown /\ SinksCounted

(* What leaves of a batch: nothing, or one batch at the end.               *)
LEMMA OutAppends ==
  ASSUME NEW s \in Seq(Batch), NEW items \in Seq(Message), OneAttachment(items)
  PROVE  /\ Out(items) \in Seq(Batch)
         /\ s \o Out(items) = IF items = <<>> THEN s ELSE Append(s, MakeBatch(items))
<1>1. CASE items = <<>> BY <1>1, ConcatEmptySeq DEF Out
<1>2. CASE items # <<>>
  <2>1. MakeBatch(items) \in Batch BY BatchShows
  <2> DEFINE b == MakeBatch(items)
  <2>2. Out(items) = <<b>> BY <1>2 DEF Out
  <2> HIDE DEF b
  <2>3. Append(s, b) = s \o <<b>> BY <2>1, AppendIsConcat DEF b
  <2>4. <<b>> \in Seq(Batch) BY <2>1 DEF b
  <2> QED BY <1>2, <2>2, <2>3, <2>4 DEF b
<1> QED BY <1>1, <1>2

(* An empty buffer.                                                        *)
LEMMA NothingPending ==
  NoBatch \in [items : Seq(Message), generation : Nat] /\ NoBatch.items = <<>>
  /\ NoBatch.generation = 0 /\ Len(NoBatch.items) = 0
BY DEF NoBatch

(* A step that gives one user other messages, and everybody else none.     *)
LEMMA OneUser ==
  ASSUME UsersGood, NEW u \in User, NEW p \in [items : Seq(Message), generation : Nat],
         NEW batches, NEW n, NEW gone,
         pending' = [pending EXCEPT ![u] = p], sent' = [sent EXCEPT ![u] = batches],
         count' = [count EXCEPT ![u] = n], discarded' = [discarded EXCEPT ![u] = gone],
         Good(p.items, batches, n, gone), p.generation = Len(p.items), Len(p.items) < Limit
  PROVE  UsersGood'
<1>1. /\ batches \in Seq(Batch) /\ n \in 0..MaxMessages /\ gone \in SUBSET Number
  BY DEF Good, Number
<1>2. /\ pending' \in [User -> [items : Seq(Message), generation : Nat]]
      /\ sent' \in [User -> Seq(Batch)] /\ count' \in [User -> 0..MaxMessages]
      /\ discarded' \in [User -> SUBSET Number]
  BY <1>1 DEF UsersGood
<1>3. ASSUME NEW v \in User
      PROVE  /\ Good(pending'[v].items, sent'[v], count'[v], discarded'[v])
             /\ pending'[v].generation = Len(pending'[v].items) /\ Len(pending'[v].items) < Limit
  <2>1. CASE v = u
    <3>1. pending'[v] = p /\ sent'[v] = batches /\ count'[v] = n /\ discarded'[v] = gone
      BY <2>1 DEF UsersGood
    <3> QED BY <3>1
  <2>2. CASE v # u
    <3>1. /\ pending'[v] = pending[v] /\ sent'[v] = sent[v] /\ count'[v] = count[v]
          /\ discarded'[v] = discarded[v]
      BY <2>2 DEF UsersGood
    <3> QED BY <3>1 DEF UsersGood
  <2> QED BY <2>1, <2>2
<1> QED BY <1>2, <1>3 DEF UsersGood

(* A step after which nothing of one user is pending.                      *)
LEMMA OneUserEmptied ==
  ASSUME UsersGood, NEW u \in User, NEW batches, NEW gone,
         pending' = [pending EXCEPT ![u] = NoBatch], sent' = [sent EXCEPT ![u] = batches],
         UNCHANGED count, discarded' = [discarded EXCEPT ![u] = gone],
         Good(<<>>, batches, count[u], gone)
  PROVE  UsersGood'
<1> DEFINE p == NoBatch
           n == count[u]
<1>1. p \in [items : Seq(Message), generation : Nat] BY NothingPending
<1>2. p.items = <<>> /\ p.generation = Len(p.items) /\ Len(p.items) < Limit
  BY NothingPending
<1>3. pending' = [pending EXCEPT ![u] = p] OBVIOUS
<1>4. count' = [count EXCEPT ![u] = n] BY DEF UsersGood
<1> HIDE DEF p, n
<1>5. Good(p.items, batches, n, gone) BY <1>2 DEF n
<1> QED BY <1>1, <1>2, <1>3, <1>4, <1>5, OneUser

(* Dispatch appends to what users have sent.                               *)
LEMMA DispatchSent ==
  ASSUME UsersGood, NEW u \in User, NEW batches \in Seq(Batch), Dispatch(Only(u, batches))
  PROVE  sent' = [sent EXCEPT ![u] = sent[u] \o batches]
<1>1. \A v \in User : Only(u, batches)[v] = IF v = u THEN batches ELSE <<>> BY DEF Only
<1>2. sent' = [v \in User |-> sent[v] \o Only(u, batches)[v]] BY DEF Dispatch
<1>3. \A v \in User : sent[v] \in Seq(Batch) /\ sent[v] \o <<>> = sent[v]
  BY ConcatEmptySeq DEF UsersGood
<1> QED BY <1>1, <1>2, <1>3 DEF UsersGood

(* Batches appended one after the other.                                   *)
LEMMA BatchesAssociate ==
  \A a, b, c \in Seq(Batch) : a \o (b \o c) = (a \o b) \o c
BY ConcatAssociative

(* No batches are a sequence of batches.                                   *)
LEMMA NoBatches == <<>> \in Seq(Batch)
BY EmptySeq

(* Submit: the batch that has an attachment leaves first, the message joins*)
(* what is pending, and the batch it fills leaves.                         *)
LEMMA SubmitUsers ==
  ASSUME UsersGood, NEW u \in User, NEW kind \in Kind, Submit(u, kind)
  PROVE  /\ UsersGood'
         /\ \A v \in User \ {u} : pending'[v] = pending[v] /\ count'[v] = count[v]
         /\ count[u] \in Nat /\ count'[u] = count[u] + 1
         /\ \/ pending'[u] = NoBatch
            \/ /\ pending[u].items # <<>> /\ pending'[u].items[1].n = pending[u].items[1].n
               /\ pending'[u].generation = pending[u].generation + 1
            \/ pending'[u].items[1].n = count[u] + 1
         /\ \/ pending'[u] = NoBatch /\ timers' = Unstopped(u)
            \/ /\ pending'[u].items # <<>> /\ pending'[u].generation \in 1..Limit - 1
               /\ pending'[u].items[1].n \in Number
               /\ pending'[u].items[1].n <= count[u] + 1
               /\ timers' = Unstopped(u) \cup Arm(u, pending'[u])
         /\ \A v \in User \ {u} : sent'[v] = sent[v]
         /\ \E new : (\A v \in User : new[v] \in Seq(Batch)) /\ Dispatch(new)
<1> DEFINE m == [n |-> count[u] + 1, kind |-> kind]
           conflict == Conflict(pending[u].items, m)
           p == IF conflict THEN NoBatch ELSE pending[u]
           grown == [items |-> Append(p.items, m), generation |-> p.generation + 1]
           full == Full(grown.items)
           first == IF conflict THEN Out(pending[u].items) ELSE <<>>
           second == IF full THEN Out(grown.items) ELSE <<>>
           final == IF full THEN NoBatch ELSE grown
<1>1. /\ count[u] < MaxMessages /\ count' = [count EXCEPT ![u] = count[u] + 1]
      /\ Dispatch(Only(u, first \o second))
      /\ pending' = [pending EXCEPT ![u] = final]
      /\ timers' = Unstopped(u) \cup IF full THEN {} ELSE Arm(u, grown)
      /\ UNCHANGED discarded
  BY DEF Submit, Accepts
<1>2. /\ pending[u] \in [items : Seq(Message), generation : Nat]
      /\ sent[u] \in Seq(Batch) /\ count[u] \in 0..MaxMessages /\ count[u] \in Nat
      /\ Good(pending[u].items, sent[u], count[u], discarded[u])
      /\ pending[u].generation = Len(pending[u].items) /\ Len(pending[u].items) < Limit
  BY DEF UsersGood
<1>3. m \in Message /\ m.n = count[u] + 1
  BY <1>1, <1>2, KindAssumption DEF Message, Number
<1>4. /\ p \in [items : Seq(Message), generation : Nat] /\ p.generation = Len(p.items)
      /\ ~Conflict(p.items, m)
      /\ first \in Seq(Batch) /\ Good(p.items, sent[u] \o first, count[u], discarded[u])
  <2>1. CASE conflict
    <3>1. p = NoBatch /\ first = Out(pending[u].items) BY <2>1
    <3>2. pending[u].items # <<>> /\ OneAttachment(pending[u].items)
      BY <1>2, <2>1 DEF Conflict, Good
    <3>3. /\ first \in Seq(Batch)
          /\ sent[u] \o first = Append(sent[u], MakeBatch(pending[u].items))
      BY <1>2, <3>1, <3>2, OutAppends
    <3>4. Good(<<>>, sent[u] \o first, count[u], discarded[u]) BY <1>2, <3>3, GoodSends
    <3>5. ~Conflict(NoBatch.items, m) BY NothingPending DEF Conflict
    <3> HIDE DEF first, m
    <3> QED BY <3>1, <3>3, <3>4, <3>5, NothingPending
  <2>2. CASE ~conflict
    <3>1. p = pending[u] /\ first = <<>> BY <2>2
    <3>2. sent[u] \o <<>> = sent[u] BY <1>2, ConcatEmptySeq
    <3> QED BY <1>2, <2>2, <3>1, <3>2
  <2> QED BY <2>1, <2>2
<1>5. Good(grown.items, sent[u] \o first, count[u] + 1, discarded[u])
  <2> HIDE DEF m, p, first
  <2> QED BY <1>1, <1>3, <1>4, GoodGrows
<1>6. /\ grown \in [items : Seq(Message), generation : Nat] /\ grown.items # <<>>
      /\ grown.generation = Len(grown.items) /\ Len(grown.items) = Len(p.items) + 1
      /\ Len(p.items) \in Nat /\ grown.items[1] = IF p.items = <<>> THEN m ELSE p.items[1]
      /\ grown.items[1] \in Message
  <2> HIDE DEF m, p
  <2>1. /\ Append(p.items, m) \in Seq(Message) /\ Append(p.items, m) # <<>>
        /\ Len(Append(p.items, m)) = Len(p.items) + 1 /\ Len(p.items) \in Nat
        /\ \A i \in 1..Len(p.items) : Append(p.items, m)[i] = p.items[i]
        /\ Append(p.items, m)[Len(p.items) + 1] = m
    BY <1>3, <1>4, AppendProperties
  <2>2. Append(p.items, m)[1] = IF p.items = <<>> THEN m ELSE p.items[1]
    <3>1. p.items = <<>> => Len(p.items) = 0 OBVIOUS
    <3>2. p.items # <<>> => 1 \in 1..Len(p.items) BY <1>4, <2>1
    <3> QED BY <2>1, <3>1, <3>2
  <2>3. Append(p.items, m)[1] \in Message BY <2>1, ElementOfSeq
  <2> QED BY <1>4, <2>1, <2>2, <2>3
<1>7. /\ second \in Seq(Batch) /\ final \in [items : Seq(Message), generation : Nat]
      /\ final.generation = Len(final.items) /\ Len(final.items) < Limit
      /\ Good(final.items, (sent[u] \o first) \o second, count[u] + 1, discarded[u])
      /\ sent[u] \o first \in Seq(Batch)
  <2>0. sent[u] \o first \in Seq(Batch) BY <1>2, <1>4, ConcatProperties
  <2> HIDE DEF grown, first
  <2>1. CASE full
    <3>1. OneAttachment(grown.items) /\ grown.items \in Seq(Message) BY <1>5 DEF Good
    <3>2. /\ second \in Seq(Batch)
          /\ (sent[u] \o first) \o second = Append(sent[u] \o first, MakeBatch(grown.items))
      BY <1>6, <2>0, <2>1, <3>1, OutAppends
    <3>3. Good(<<>>, (sent[u] \o first) \o second, count[u] + 1, discarded[u])
      BY <1>5, <3>2, GoodSends
    <3>4. final = NoBatch BY <2>1
    <3> QED BY <2>0, <3>2, <3>3, <3>4, NothingPending
  <2>2. CASE ~full
    <3>1. final = grown /\ second = <<>> BY <2>2
    <3>2. (sent[u] \o first) \o <<>> = sent[u] \o first BY <2>0, ConcatEmptySeq
    <3>3. Len(grown.items) < Limit BY <1>6, <2>2 DEF Full
    <3>4. second \in Seq(Batch)
      <4>1. second = <<>> BY <3>1
      <4> QED BY <4>1, NoBatches
    <3>5. (sent[u] \o first) \o second = sent[u] \o first BY <3>1, <3>2
    <3>6. Good(final.items, (sent[u] \o first) \o second, count[u] + 1, discarded[u])
      BY <1>5, <3>1, <3>5
    <3>7. /\ final \in [items : Seq(Message), generation : Nat]
          /\ final.generation = Len(final.items) /\ Len(final.items) < Limit
      BY <1>6, <3>1, <3>3
    <3> HIDE DEF second, final
    <3> QED BY <2>0, <3>4, <3>6, <3>7
  <2> QED BY <2>1, <2>2
<1>8. sent' = [sent EXCEPT ![u] = (sent[u] \o first) \o second]
  <2> HIDE DEF first, second
  <2>1. first \o second \in Seq(Batch) BY <1>4, <1>7, ConcatProperties
  <2>2. sent' = [sent EXCEPT ![u] = sent[u] \o (first \o second)]
    BY <1>1, <2>1, DispatchSent
  <2>3. sent[u] \o (first \o second) = (sent[u] \o first) \o second
    BY <1>2, <1>4, <1>7, BatchesAssociate
  <2> QED BY <2>2, <2>3
<1>9. discarded' = [discarded EXCEPT ![u] = discarded[u]] BY <1>1 DEF UsersGood
<1> HIDE DEF m, conflict, first, second, full, grown, p, final
<1>19. \E new : (\A v \in User : new[v] \in Seq(Batch)) /\ Dispatch(new)
  <2>1. first \o second \in Seq(Batch) BY <1>4, <1>7, ConcatProperties
  <2>2. \A v \in User : Only(u, first \o second)[v] \in Seq(Batch)
    BY <2>1, NoBatches DEF Only
  <2> QED BY <1>1, <2>2
<1>20. \A v \in User \ {u} : sent'[v] = sent[v] BY <1>8 DEF UsersGood
<1>10. UsersGood' BY <1>1, <1>7, <1>8, <1>9, OneUser
<1>11. /\ pending'[u] = final /\ count'[u] = count[u] + 1
       /\ \A v \in User \ {u} : pending'[v] = pending[v] /\ count'[v] = count[v]
  BY <1>1 DEF UsersGood
<1>12. p = pending[u] \/ p = NoBatch BY DEF p
<1>13. (final = NoBatch /\ full) \/ (final = grown /\ ~full) BY DEF final
<1>14. ~full => grown.generation \in 1..Limit - 1
  BY <1>6 DEF full, Full
<1>15. grown.generation = p.generation + 1 BY DEF grown
<1>16. grown.items[1].n = count[u] + 1 \/ (p.items # <<>> /\ grown.items[1].n = p.items[1].n)
  BY <1>3, <1>6
<1>17. p.items # <<>> => p = pending[u] BY <1>12, NothingPending
<1>18. grown.items[1].n \in Number /\ grown.items[1].n <= count[u] + 1
  <2>1. grown.items[1].n \in Number BY <1>6 DEF Message
  <2>2. grown.items[1].n \in 1..count[u] + 1
    <3>1. grown.items[1].n \in Ids(grown.items)
      <4>1. 1 \in DOMAIN grown.items
        <5>1. DOMAIN grown.items = 1..Len(grown.items) BY <1>6, LenProperties
        <5> QED BY <1>6, <5>1
      <4> QED BY <4>1 DEF Ids
    <3>2. /\ Piece(grown.items, sent[u] \o first, Len(sent[u] \o first) + 1) = grown.items
          /\ Len(sent[u] \o first) \in Nat
      BY <1>7, LenProperties DEF Piece
    <3>3. Len(sent[u] \o first) + 1 \in 1..Len(sent[u] \o first) + 1 BY <3>2
    <3> QED BY <1>5, <3>1, <3>2, <3>3 DEF Good, Complete
  <2> QED BY <1>2, <2>1, <2>2
<1> QED BY <1>1, <1>2, <1>6, <1>10, <1>11, <1>13, <1>14, <1>15, <1>16, <1>17, <1>18, <1>19, <1>20

----------------------------------------------------------------------------
(* Every step of the buffer.                                               *)

(* Batches that leave have a goroutine each, and are counted.              *)
LEMMA SinksGrow ==
  ASSUME UsersGood, UsersGood', SinksCounted, NEW new, \A u \in User : new[u] \in Seq(Batch),
         Dispatch(new)
  PROVE  /\ running' \in SUBSET (User \X Number) /\ IsFiniteSet(running')
         /\ wg' = Cardinality(running')
         /\ \A g \in running' : g[2] <= Len(sent'[g[1]])
<1> DEFINE fresh == {g \in User \X Number :
                       Len(sent[g[1]]) < g[2] /\ g[2] <= Len(sent[g[1]]) + Len(new[g[1]])}
<1>1. running' = running \cup fresh /\ wg' = wg + Cardinality(fresh) BY DEF Dispatch
<1>2. \A u \in User : sent'[u] = sent[u] \o new[u] BY DEF Dispatch
<1>3. \A u \in User : /\ Len(sent[u]) \in Nat /\ Len(new[u]) \in Nat
                      /\ Len(sent'[u]) = Len(sent[u]) + Len(new[u])
  BY <1>2, LenProperties, ConcatProperties DEF UsersGood
<1>4. IsFiniteSet(User \X Number)
  <2>1. IsFiniteSet(Number) BY FS_Interval DEF Number
  <2> QED BY <2>1, FS_Product
<1>5. IsFiniteSet(fresh)
  BY <1>4, FS_Subset
<1>6. IsFiniteSet(running) /\ wg = Cardinality(running) /\ running \in SUBSET (User \X Number)
      /\ \A g \in running : g[2] <= Len(sent[g[1]])
  BY DEF SinksCounted
<1>7. running \cap fresh = {}
  <2> SUFFICES ASSUME NEW g \in running \cap fresh PROVE FALSE OBVIOUS
  <2>1. g[1] \in User /\ g[2] \in Number BY <1>6
  <2>2. g[2] <= Len(sent[g[1]]) /\ Len(sent[g[1]]) < g[2] BY <1>6
  <2> QED BY <1>3, <2>1, <2>2 DEF Number
<1>8. \A g \in running' : g[2] <= Len(sent'[g[1]])
  <2> SUFFICES ASSUME NEW g \in running' PROVE g[2] <= Len(sent'[g[1]]) OBVIOUS
  <2>0. g \in running \/ g \in fresh BY <1>1
  <2>1. g \in User \X Number BY <1>6, <2>0
  <2>2. g[1] \in User /\ g[2] \in Nat BY <2>1 DEF Number
  <2>3. g[2] <= Len(sent[g[1]]) \/ g[2] <= Len(sent[g[1]]) + Len(new[g[1]])
    BY <1>6, <2>0
  <2> HIDE DEF fresh
  <2>4. /\ Len(sent[g[1]]) \in Nat /\ Len(new[g[1]]) \in Nat
        /\ Len(sent'[g[1]]) = Len(sent[g[1]]) + Len(new[g[1]])
    BY <1>3, <2>2
  <2> DEFINE k == g[2]
             a == Len(sent[g[1]])
             b == Len(new[g[1]])
             c == Len(sent'[g[1]])
  <2>5. k \in Nat /\ a \in Nat /\ b \in Nat /\ c = a + b /\ (k <= a \/ k <= a + b)
    BY <2>2, <2>3, <2>4
  <2> HIDE DEF k, a, b, c
  <2>6. k <= c BY <2>5
  <2> QED BY <2>6 DEF k, c
<1>9. running' \in SUBSET (User \X Number) BY <1>1, <1>6
<1> HIDE DEF fresh
<1>10. IsFiniteSet(running \cup fresh)
       /\ Cardinality(running \cup fresh) =
            Cardinality(running) + Cardinality(fresh) - Cardinality(running \cap fresh)
  BY <1>5, <1>6, FS_Union
<1>11. Cardinality(running \cap fresh) = 0 BY <1>7, FS_EmptySet
<1>12. Cardinality(running) \in Nat /\ Cardinality(fresh) \in Nat BY <1>5, <1>6, FS_CardinalityType
<1> QED BY <1>1, <1>6, <1>8, <1>9, <1>10, <1>11, <1>12

(* A batch that leaves, or nothing, as flushLocked has it for one user.    *)
LEMMA FlushUsers ==
  ASSUME UsersGood, NEW u \in User, Flush(u), UNCHANGED <<count, discarded>>
  PROVE  /\ UsersGood' /\ pending' = [pending EXCEPT ![u] = NoBatch]
         /\ \A v \in User : Only(u, Out(pending[u].items))[v] \in Seq(Batch)
         /\ \A v \in User \ {u} : sent'[v] = sent[v]
<1> DEFINE out == Out(pending[u].items)
<1>1. /\ pending' = [pending EXCEPT ![u] = NoBatch] /\ Dispatch(Only(u, out))
      /\ count' = count /\ discarded' = discarded
  BY DEF Flush
<1>2. /\ pending[u].items \in Seq(Message) /\ sent[u] \in Seq(Batch)
      /\ Good(pending[u].items, sent[u], count[u], discarded[u])
      /\ OneAttachment(pending[u].items)
  BY DEF UsersGood, Good
<1>3. /\ out \in Seq(Batch)
      /\ sent[u] \o out = IF pending[u].items = <<>> THEN sent[u]
                          ELSE Append(sent[u], MakeBatch(pending[u].items))
  BY <1>2, OutAppends
<1> HIDE DEF out
<1>4. sent' = [sent EXCEPT ![u] = sent[u] \o out] BY <1>1, <1>3, DispatchSent
<1>5. Good(<<>>, sent[u] \o out, count[u], discarded[u])
  <2>1. CASE pending[u].items = <<>> BY <1>2, <1>3, <2>1
  <2>2. CASE pending[u].items # <<>> BY <1>2, <1>3, <2>2, GoodSends
  <2> QED BY <2>1, <2>2
<1>6. discarded' = [discarded EXCEPT ![u] = discarded[u]] BY <1>1 DEF UsersGood
<1>7. UsersGood' BY <1>1, <1>4, <1>5, <1>6, OneUserEmptied
<1>8. \A v \in User : Only(u, out)[v] \in Seq(Batch)
  BY <1>3, NoBatches DEF Only
<1>9. \A v \in User \ {u} : sent'[v] = sent[v] BY <1>4 DEF UsersGood
<1> QED BY <1>1, <1>7, <1>8, <1>9 DEF out

(* Timers stay known when some are stopped and pending batches leave.      *)
LEMMA TimersEmptied ==
  ASSUME TimersKnown, timers' \subseteq timers, UNCHANGED <<count, quiet>>,
         \A u \in User : pending'[u] \in {pending[u], NoBatch}
  PROVE  TimersKnown'
<1>1. NoBatch.items = <<>> BY NothingPending
<1>2. timers' \subseteq [user : User, first : Number, generation : 1..Limit - 1, fired : BOOLEAN]
      /\ quiet' \in [User -> BOOLEAN]
  BY DEF TimersKnown
<1>3. ASSUME NEW t \in timers'
      PROVE  /\ t.first <= count'[t.user]
             /\ pending'[t.user].items # <<>> /\ pending'[t.user].items[1].n = t.first
                  => t.generation <= pending'[t.user].generation
             /\ t.fired /\ Current(t)' => quiet'[t.user]
  <2>1. t \in timers /\ t.user \in User BY DEF TimersKnown
  <2>2. /\ t.first <= count[t.user]
        /\ pending[t.user].items # <<>> /\ pending[t.user].items[1].n = t.first
             => t.generation <= pending[t.user].generation
        /\ t.fired /\ Current(t) => quiet[t.user]
    BY <2>1 DEF TimersKnown
  <2>3. CASE pending'[t.user] = NoBatch
    BY <1>1, <2>2, <2>3 DEF Current
  <2>4. CASE pending'[t.user] = pending[t.user]
    <3>1. Current(t)' <=> Current(t) BY <2>4 DEF Current
    <3> QED BY <2>2, <2>4, <3>1
  <2> QED BY <2>1, <2>3, <2>4
<1> QED BY <1>2, <1>3 DEF TimersKnown

(* Submit.                                                                 *)
LEMMA SubmitKeeps ==
  ASSUME BufferInv, NEW u \in User, NEW kind \in Kind, Submit(u, kind)
  PROVE  BufferInv'
<1>1. UsersGood /\ TimersKnown /\ SinksCounted BY DEF BufferInv
<1> DEFINE p == pending'[u]
<1>2. /\ UsersGood'
      /\ \A v \in User \ {u} : pending'[v] = pending[v] /\ count'[v] = count[v]
      /\ count[u] \in Nat /\ count'[u] = count[u] + 1
  BY <1>1, SubmitUsers
<1>3. \/ p = NoBatch
      \/ /\ pending[u].items # <<>> /\ p.items[1].n = pending[u].items[1].n
         /\ p.generation = pending[u].generation + 1
      \/ p.items[1].n = count[u] + 1
  BY <1>1, SubmitUsers
<1>4. \/ p = NoBatch /\ timers' = Unstopped(u)
      \/ /\ p.items # <<>> /\ p.generation \in 1..Limit - 1
         /\ p.items[1].n \in Number /\ p.items[1].n <= count[u] + 1
         /\ timers' = Unstopped(u) \cup Arm(u, p)
  BY <1>1, SubmitUsers
<1>5. /\ quiet' = [quiet EXCEPT ![u] = FALSE] /\ ~closed /\ UNCHANGED <<closed, drain>>
  BY DEF Submit, Accepts
<1> HIDE DEF p
<1>6. TimersKnown'
  <2>1. \A t \in Unstopped(u) : t \in timers /\ (t.user = u => t.fired) BY DEF Unstopped
  <2>2. quiet' \in [User -> BOOLEAN] BY <1>1, <1>5 DEF TimersKnown
  <2> DEFINE Timer == [user : User, first : Number, generation : 1..Limit - 1, fired : BOOLEAN]
             Known(t) ==
               /\ t.first <= count'[t.user]
               /\ pending'[t.user].items # <<>> /\ pending'[t.user].items[1].n = t.first
                    => t.generation <= pending'[t.user].generation
               /\ t.fired /\ Current(t)' => quiet'[t.user]
  <2>3. ASSUME NEW t \in Unstopped(u) PROVE t \in Timer /\ Known(t)
    <3>1. /\ t \in Timer /\ t.user \in User /\ t.first \in Nat /\ t.generation \in Nat
          /\ t.first <= count[t.user]
          /\ pending[t.user].items # <<>> /\ pending[t.user].items[1].n = t.first
               => t.generation <= pending[t.user].generation
          /\ t.fired /\ Current(t) => quiet[t.user]
      BY <1>1, <2>1 DEF TimersKnown, Number
    <3>2. CASE t.user # u
      <4>1. /\ pending'[t.user] = pending[t.user] /\ count'[t.user] = count[t.user]
            /\ quiet'[t.user] = quiet[t.user]
        BY <1>1, <1>2, <1>5, <3>1, <3>2 DEF TimersKnown
      <4>2. Current(t)' <=> Current(t) BY <4>1 DEF Current
      <4> QED BY <3>1, <4>1, <4>2
    <3>3. CASE t.user = u
      <4>1. t.first <= count'[t.user] BY <1>2, <3>1, <3>3
      <4>2. CASE p = NoBatch
        BY <3>1, <3>3, <4>1, <4>2, NothingPending DEF Current, p
      <4>3. CASE /\ pending[u].items # <<>> /\ p.items[1].n = pending[u].items[1].n
                 /\ p.generation = pending[u].generation + 1
        <5>1. pending[u].generation \in Nat BY <1>1 DEF UsersGood
        <5>2. p.items[1].n = t.first => t.generation < p.generation
          BY <3>1, <3>3, <4>3, <5>1
        <5>3. ~Current(t)' BY <3>1, <3>3, <4>3, <5>1, <5>2 DEF Current, p
        <5>4. p.items[1].n = t.first => t.generation <= p.generation
          BY <3>1, <4>3, <5>1, <5>2
        <5> QED BY <3>1, <3>3, <4>1, <5>3, <5>4 DEF p
      <4>4. CASE p.items[1].n = count[u] + 1
        <5>1. p.items[1].n # t.first BY <1>2, <3>1, <3>3, <4>4
        <5>2. ~Current(t)' BY <3>3, <5>1 DEF Current, p
        <5> QED BY <3>1, <3>3, <4>1, <5>1, <5>2 DEF p
      <4> QED BY <1>3, <4>2, <4>3, <4>4
    <3> QED BY <3>2, <3>3
  <2>4. CASE timers' = Unstopped(u)
    BY <2>2, <2>3, <2>4 DEF TimersKnown
  <2>5. CASE /\ p.items # <<>> /\ p.generation \in 1..Limit - 1
             /\ p.items[1].n \in Number /\ p.items[1].n <= count[u] + 1
             /\ timers' = Unstopped(u) \cup Arm(u, p)
    <3>1. ASSUME NEW t \in Arm(u, p) PROVE t \in Timer /\ Known(t)
      <4>1. t = [user |-> u, first |-> p.items[1].n, generation |-> p.generation,
                 fired |-> FALSE]
        BY DEF Arm
      <4>2. t \in Timer BY <2>5, <4>1
      <4>3. t.first <= count'[t.user] BY <1>2, <2>5, <4>1
      <4>4. t.generation <= pending'[t.user].generation BY <2>5, <4>1 DEF p
      <4>5. ~t.fired BY <4>1
      <4> QED BY <4>2, <4>3, <4>4, <4>5
    <3>2. \A t \in timers' : t \in Timer /\ Known(t) BY <2>3, <2>5, <3>1
    <3> HIDE DEF Known
    <3>3. timers' \subseteq Timer /\ \A t \in timers' : Known(t) BY <3>2
    <3> QED BY <2>2, <3>3 DEF TimersKnown, Known
  <2> QED BY <1>4, <2>4, <2>5
<1>7. SinksCounted'
  <2>1. PICK new : (\A v \in User : new[v] \in Seq(Batch)) /\ Dispatch(new)
    BY <1>1, SubmitUsers
  <2>2. /\ running' \in SUBSET (User \X Number) /\ IsFiniteSet(running')
        /\ wg' = Cardinality(running')
        /\ \A g \in running' : g[2] <= Len(sent'[g[1]])
    BY <1>1, <1>2, <2>1, SinksGrow
  <2> QED BY <1>1, <1>5, <2>2 DEF SinksCounted
<1> QED BY <1>2, <1>6, <1>7 DEF BufferInv

(* The timer of a batch goes off.                                          *)
LEMMA ElapseKeeps ==
  ASSUME BufferInv, NEW t \in timers, Elapse(t)
  PROVE  BufferInv'
<1>1. UsersGood /\ TimersKnown /\ SinksCounted BY DEF BufferInv
<1> DEFINE fired == [t EXCEPT !.fired = TRUE]
           Timer == [user : User, first : Number, generation : 1..Limit - 1, fired : BOOLEAN]
<1>2. /\ timers' = (timers \ {t}) \cup {fired} /\ quiet' = [quiet EXCEPT ![t.user] = TRUE]
      /\ UNCHANGED <<pending, closed, wg, running, drain, count, sent, discarded>>
  BY DEF Elapse
<1>3. UsersGood' BY <1>1, <1>2 DEF UsersGood
<1>4. SinksCounted' BY <1>1, <1>2 DEF SinksCounted
<1>5. t \in Timer /\ quiet \in [User -> BOOLEAN] BY <1>1 DEF TimersKnown
<1>6. /\ fired \in Timer /\ fired.user = t.user /\ fired.first = t.first
      /\ fired.generation = t.generation
  BY <1>5
<1> HIDE DEF fired
<1>7. quiet' \in [User -> BOOLEAN] /\ quiet'[t.user] = TRUE
      /\ \A v \in User : quiet[v] => quiet'[v]
  BY <1>2, <1>5
<1>8. timers' \subseteq Timer BY <1>1, <1>2, <1>6 DEF TimersKnown
<1>9. ASSUME NEW r \in timers'
      PROVE  /\ r.first <= count'[r.user]
             /\ pending'[r.user].items # <<>> /\ pending'[r.user].items[1].n = r.first
                  => r.generation <= pending'[r.user].generation
             /\ r.fired /\ Current(r)' => quiet'[r.user]
  <2>1. CASE r \in timers
    <3>1. /\ r.first <= count[r.user]
          /\ pending[r.user].items # <<>> /\ pending[r.user].items[1].n = r.first
               => r.generation <= pending[r.user].generation
          /\ r.fired /\ Current(r) => quiet[r.user]
      BY <1>1, <2>1 DEF TimersKnown
    <3>2. Current(r)' <=> Current(r) BY <1>2 DEF Current
    <3>3. r.user \in User BY <1>1, <2>1 DEF TimersKnown
    <3> QED BY <1>2, <1>7, <3>1, <3>2, <3>3
  <2>2. CASE r = fired
    <3>1. /\ t.first <= count[t.user]
          /\ pending[t.user].items # <<>> /\ pending[t.user].items[1].n = t.first
               => t.generation <= pending[t.user].generation
      BY <1>1 DEF TimersKnown
    <3> QED BY <1>2, <1>6, <1>7, <2>2, <3>1
  <2> QED BY <1>2, <2>1, <2>2
<1>10. TimersKnown' BY <1>7, <1>8, <1>9 DEF TimersKnown
<1> QED BY <1>3, <1>4, <1>10 DEF BufferInv

(* A callback gets the lock.                                               *)
LEMMA CallbackKeeps ==
  ASSUME BufferInv, NEW t \in timers, Callback(t)
  PROVE  BufferInv'
<1>1. UsersGood /\ TimersKnown /\ SinksCounted BY DEF BufferInv
<1>2. /\ timers' \subseteq timers /\ UNCHANGED <<closed, drain, count, discarded, quiet>>
      /\ t.user \in User
  BY <1>1 DEF Callback, TimersKnown
<1>3. CASE Current(t)
  <2>1. Flush(t.user) BY <1>3 DEF Callback
  <2>2. /\ UsersGood' /\ pending' = [pending EXCEPT ![t.user] = NoBatch]
        /\ \A v \in User : Only(t.user, Out(pending[t.user].items))[v] \in Seq(Batch)
    BY <1>1, <1>2, <2>1, FlushUsers
  <2>3. \A v \in User : pending'[v] \in {pending[v], NoBatch} BY <1>1, <2>2 DEF UsersGood
  <2>4. TimersKnown' BY <1>1, <1>2, <2>3, TimersEmptied
  <2>5. Dispatch(Only(t.user, Out(pending[t.user].items))) BY <2>1 DEF Flush
  <2>6. /\ running' \in SUBSET (User \X Number) /\ IsFiniteSet(running')
        /\ wg' = Cardinality(running')
        /\ \A g \in running' : g[2] <= Len(sent'[g[1]])
    BY <1>1, <2>2, <2>5, SinksGrow
  <2>7. ~closed
    <3>1. pending[t.user].items # <<>> BY <1>3 DEF Current
    <3> QED BY <1>1, <1>2, <3>1, NothingPending DEF SinksCounted
  <2>8. SinksCounted' BY <1>1, <1>2, <2>6, <2>7 DEF SinksCounted
  <2> QED BY <2>2, <2>4, <2>8 DEF BufferInv
<1>4. CASE ~Current(t)
  <2>1. UNCHANGED <<sent, running, wg, pending>> BY <1>4 DEF Callback, NoDispatch
  <2>2. UsersGood' BY <1>1, <1>2, <2>1 DEF UsersGood
  <2>3. SinksCounted' BY <1>1, <1>2, <2>1 DEF SinksCounted
  <2>4. TimersKnown' BY <1>1, <1>2, <2>1, TimersEmptied
  <2> QED BY <2>2, <2>3, <2>4 DEF BufferInv
<1> QED BY <1>3, <1>4

(* /start.                                                                 *)
LEMMA DiscardKeeps ==
  ASSUME BufferInv, NEW u \in User, Discard(u)
  PROVE  BufferInv'
<1>1. UsersGood /\ TimersKnown /\ SinksCounted BY DEF BufferInv
<1>2. /\ pending' = [pending EXCEPT ![u] = NoBatch] /\ timers' \subseteq timers
      /\ discarded' = [discarded EXCEPT ![u] = discarded[u] \cup Ids(pending[u].items)]
      /\ UNCHANGED <<sent, running, wg, closed, drain, count, quiet>>
  BY DEF Discard, NoDispatch, Unstopped
<1>3. Good(<<>>, sent[u], count[u], discarded[u] \cup Ids(pending[u].items))
  BY <1>1, GoodDrops DEF UsersGood
<1>4. sent' = [sent EXCEPT ![u] = sent[u]] BY <1>1, <1>2 DEF UsersGood
<1>5. UsersGood' BY <1>1, <1>2, <1>3, <1>4, OneUserEmptied
<1>6. \A v \in User : pending'[v] \in {pending[v], NoBatch} BY <1>1, <1>2 DEF UsersGood
<1>7. TimersKnown' BY <1>1, <1>2, <1>6, TimersEmptied
<1>8. SinksCounted'
  <2>1. closed' => \A v \in User : pending'[v] = NoBatch
    BY <1>1, <1>2, <1>6 DEF SinksCounted
  <2> QED BY <1>1, <1>2, <2>1 DEF SinksCounted
<1> QED BY <1>5, <1>7, <1>8 DEF BufferInv

(* A Sink returns.                                                         *)
LEMMA FinishKeeps ==
  ASSUME BufferInv, NEW g \in running, Finish(g)
  PROVE  BufferInv'
<1>1. UsersGood /\ TimersKnown /\ SinksCounted BY DEF BufferInv
<1>2. /\ running' = running \ {g} /\ wg' = wg - 1
      /\ UNCHANGED <<pending, timers, closed, drain, count, sent, discarded, quiet>>
  BY DEF Finish
<1>3. UsersGood' BY <1>1, <1>2 DEF UsersGood
<1>4. TimersKnown' BY <1>1, <1>2, TimersEmptied
<1>5. IsFiniteSet(running') /\ wg' = Cardinality(running')
  BY <1>1, <1>2, FS_RemoveElement DEF SinksCounted
<1>6. SinksCounted' BY <1>1, <1>2, <1>5 DEF SinksCounted
<1> QED BY <1>3, <1>4, <1>6 DEF BufferInv

(* Drain hands over everybody's messages.                                  *)
LEMMA StartDrainKeeps ==
  ASSUME BufferInv, StartDrain
  PROVE  BufferInv'
<1>1. UsersGood /\ TimersKnown /\ SinksCounted BY DEF BufferInv
<1> DEFINE new == [u \in User |-> Out(pending[u].items)]
<1>2. /\ drain' = "draining" /\ closed' = TRUE /\ pending' = [u \in User |-> NoBatch]
      /\ timers' \subseteq timers /\ Dispatch(new) /\ UNCHANGED <<count, discarded, quiet>>
  BY DEF StartDrain
<1>3. ASSUME NEW u \in User
      PROVE  new[u] \in Seq(Batch) /\ sent'[u] \in Seq(Batch)
             /\ Good(<<>>, sent'[u], count[u], discarded[u])
  <2>1. /\ pending[u].items \in Seq(Message) /\ sent[u] \in Seq(Batch)
        /\ Good(pending[u].items, sent[u], count[u], discarded[u])
        /\ OneAttachment(pending[u].items)
    BY <1>1 DEF UsersGood, Good
  <2> DEFINE out == Out(pending[u].items)
  <2>2. /\ out \in Seq(Batch)
        /\ sent[u] \o out = IF pending[u].items = <<>> THEN sent[u]
                            ELSE Append(sent[u], MakeBatch(pending[u].items))
    BY <2>1, OutAppends
  <2>3. new[u] = out OBVIOUS
  <2>4. sent'[u] = sent[u] \o new[u] BY <1>2 DEF Dispatch
  <2> HIDE DEF out, new
  <2>5. sent'[u] = sent[u] \o out BY <2>3, <2>4
  <2>6. CASE pending[u].items = <<>> BY <2>1, <2>2, <2>3, <2>5, <2>6
  <2>7. CASE pending[u].items # <<>>
    <3>1. Good(<<>>, Append(sent[u], MakeBatch(pending[u].items)), count[u], discarded[u])
      BY <2>1, GoodSends
    <3>2. sent'[u] = Append(sent[u], MakeBatch(pending[u].items)) BY <2>2, <2>5, <2>7
    <3>3. sent'[u] \in Seq(Batch) BY <3>1, <3>2 DEF Good
    <3> QED BY <2>2, <2>3, <3>1, <3>2, <3>3
  <2> QED BY <2>6, <2>7
<1>4. sent' = [u \in User |-> sent[u] \o new[u]] BY <1>2 DEF Dispatch
<1>5. \A u \in User : new[u] \in Seq(Batch) BY <1>3
<1> HIDE DEF new
<1>6. UsersGood'
  <2>1. sent' \in [User -> Seq(Batch)] BY <1>3, <1>4
  <2>2. pending' \in [User -> [items : Seq(Message), generation : Nat]]
        /\ \A u \in User : pending'[u] = NoBatch
    BY <1>2, NothingPending
  <2>3. \A u \in User : /\ Good(pending'[u].items, sent'[u], count'[u], discarded'[u])
                        /\ pending'[u].generation = Len(pending'[u].items)
                        /\ Len(pending'[u].items) < Limit
    BY <1>2, <1>3, <2>2, NothingPending
  <2>4. count' \in [User -> 0..MaxMessages] /\ discarded' \in [User -> SUBSET Number]
    BY <1>1, <1>2 DEF UsersGood
  <2> QED BY <2>1, <2>2, <2>3, <2>4 DEF UsersGood
<1>7. TimersKnown' BY <1>1, <1>2, TimersEmptied
<1>8. /\ running' \in SUBSET (User \X Number) /\ IsFiniteSet(running')
      /\ wg' = Cardinality(running')
      /\ \A g \in running' : g[2] <= Len(sent'[g[1]])
  BY <1>1, <1>2, <1>5, <1>6, SinksGrow
<1>9. SinksCounted' BY <1>2, <1>8 DEF SinksCounted
<1> QED BY <1>6, <1>7, <1>9 DEF BufferInv

(* Drain returns, with nothing running or after its time; Shutdown.        *)
LEMMA EndKeeps ==
  ASSUME BufferInv, DrainDone \/ DrainTimeout \/ Shutdown
  PROVE  BufferInv'
<1>1. UsersGood /\ TimersKnown /\ SinksCounted BY DEF BufferInv
<1>2. /\ timers' \subseteq timers /\ drain' \in {"drained", "timedOut", "down"}
      /\ drain \in {"draining", "drained", "timedOut"}
      /\ drain' = "drained" => wg = 0
      /\ UNCHANGED <<count, quiet, sent, discarded, running, wg>>
      /\ (closed' = closed /\ pending' = pending)
           \/ (closed' = TRUE /\ pending' = [u \in User |-> NoBatch])
  BY DEF DrainDone, DrainTimeout, Shutdown, NoDispatch
<1>3. closed /\ \A u \in User : pending[u] = NoBatch BY <1>1, <1>2 DEF SinksCounted
<1>4. closed' = TRUE /\ pending' = pending
  <2>1. pending = [u \in User |-> NoBatch] BY <1>1, <1>3 DEF UsersGood
  <2>2. closed = TRUE BY <1>1, <1>3 DEF SinksCounted
  <2> QED BY <1>2, <2>1, <2>2
<1>5. UsersGood' BY <1>1, <1>2, <1>4 DEF UsersGood
<1>6. TimersKnown' BY <1>1, <1>2, <1>4, TimersEmptied
<1>7. drain' = "drained" => running' = {}
  BY <1>1, <1>2, FS_EmptySet DEF SinksCounted
<1>8. SinksCounted' BY <1>1, <1>2, <1>3, <1>4, <1>7 DEF SinksCounted
<1> QED BY <1>5, <1>6, <1>8 DEF BufferInv

(* A buffer that has just been made.                                       *)
LEMMA BufferStarts == Init => BufferInv
<1> SUFFICES ASSUME Init PROVE BufferInv OBVIOUS
<1>1. \A u \in User : pending[u] = NoBatch /\ sent[u] = <<>> /\ count[u] = 0
                      /\ discarded[u] = {}
  BY DEF Init
<1>2. Good(<<>>, <<>>, 0, {})
  <2>1. \A k : Piece(<<>>, <<>>, k) = <<>> BY DEF Piece
  <2>2. <<>> \in Seq(Message) /\ Len(<<>>) = 0 /\ DOMAIN <<>> = {} BY EmptySeq
  <2>3. Complete(<<>>, <<>>, 0, {}) BY <2>1, <2>2 DEF Complete, Ids
  <2>4. InOrder(<<>>, <<>>) BY <2>1, <2>2 DEF InOrder
  <2> QED BY <2>2, <2>3, <2>4, NoBatches DEF Good, OneAttachment
<1>3. UsersGood
  <2>1. /\ pending \in [User -> [items : Seq(Message), generation : Nat]]
        /\ sent \in [User -> Seq(Batch)] /\ count \in [User -> 0..MaxMessages]
        /\ discarded \in [User -> SUBSET Number]
    BY NothingPending, NoBatches DEF Init
  <2>2. ASSUME NEW u \in User
        PROVE  /\ Good(pending[u].items, sent[u], count[u], discarded[u])
               /\ pending[u].generation = Len(pending[u].items) /\ Len(pending[u].items) < Limit
    <3>1. pending[u].items = <<>> /\ pending[u].generation = 0 BY <1>1, NothingPending
    <3>2. Len(pending[u].items) = 0 BY <1>1, NothingPending
    <3>3. Good(pending[u].items, sent[u], count[u], discarded[u]) BY <1>1, <1>2, <3>1
    <3>4. pending[u].generation = Len(pending[u].items) /\ Len(pending[u].items) < Limit
      BY <3>1, <3>2
    <3> QED BY <3>3, <3>4
  <2> QED BY <2>1, <2>2 DEF UsersGood
<1>4. TimersKnown BY DEF Init, TimersKnown
<1>5. SinksCounted BY <1>1, FS_EmptySet DEF Init, SinksCounted
<1> QED BY <1>3, <1>4, <1>5 DEF BufferInv

----------------------------------------------------------------------------
(* Telegram and poll.                                                      *)

(* What poll has asked for, or Telegram was told about.                    *)
Settled == Max({confirmed, offset - 1})

Numbers ==
  /\ written \in Nat /\ confirmed \in 0..written /\ offset \in 0..written + 1
  /\ received \in 0..written
  /\ polling \in BOOLEAN /\ cut \in BOOLEAN

(* What poll will not ask for again is in hand; and what was received but  *)
(* not settled was in the last answer to a process that ended, or, if only *)
(* Telegram has not been told yet, to this one.                            *)
UpdatesKnown ==
  /\ ~cut => 1..Settled \subseteq handling \cup done
  /\ ~cut /\ drain # "serving" => ~polling /\ handling = {}
  /\ Settled + 1..received \subseteq unsure
  /\ confirmed + 1..received \subseteq unsure \cup latest
  /\ repeated \subseteq unsure

IInv == BufferInv /\ Numbers /\ UpdatesKnown

(* The greatest of two.                                                    *)
LEMMA MaxOfTwo ==
  ASSUME NEW a \in Int, NEW b \in Int
  PROVE  Max({a, b}) = IF a >= b THEN a ELSE b
<1> DEFINE c == IF a >= b THEN a ELSE b
<1>1. c \in {a, b} /\ \A y \in {a, b} : c >= y OBVIOUS
<1>2. \A x \in {a, b} : (\A y \in {a, b} : x >= y) => x = c OBVIOUS
<1> QED BY <1>1, <1>2 DEF Max

(* The greatest of a range, also with one that is not beyond it.           *)
LEMMA MaxOfRange ==
  ASSUME NEW a \in Int, NEW b \in Int, a <= b, NEW c \in Int, c <= b
  PROVE  Max(a..b) = b /\ Max((a..b) \cup {c}) = b
<1>1. b \in a..b /\ \A y \in (a..b) \cup {c} : b >= y OBVIOUS
<1>2. \A x \in (a..b) \cup {c} : x >= b => x = b OBVIOUS
<1>3. Max(a..b) = b BY <1>1, <1>2 DEF Max
<1>4. Max((a..b) \cup {c}) = b BY <1>1, <1>2 DEF Max
<1> QED BY <1>3, <1>4

(* The greatest of nothing and one.                                        *)
LEMMA MaxOfOne == ASSUME NEW a \in Int PROVE Max({} \cup {a}) = a
BY DEF Max

(* What poll settles is one of the two numbers it is made of.              *)
SettledBetween ==
  /\ Settled \in Nat /\ confirmed <= Settled /\ offset - 1 <= Settled
  /\ Settled = confirmed \/ Settled = offset - 1
  /\ Settled <= written

(* Telegram has been told, or will be, of updates that are there.          *)
LEMMA SettledIs == Numbers => SettledBetween
<1> SUFFICES ASSUME Numbers PROVE SettledBetween OBVIOUS
<1>1. confirmed \in Int /\ offset - 1 \in Int /\ written \in Nat BY DEF Numbers
<1>2. Settled = IF confirmed >= offset - 1 THEN confirmed ELSE offset - 1
  BY <1>1, MaxOfTwo DEF Settled
<1> QED BY <1>2 DEF Numbers, SettledBetween

(* The same after a step.                                                  *)
LEMMA SettledNext == Numbers' => SettledBetween'
BY SettledIs, PTL

(* A step in which Telegram or poll does nothing to the numbers.           *)
LEMMA SettledStays == ASSUME UNCHANGED <<confirmed, offset>> PROVE Settled' = Settled
BY DEF Settled

(* getUpdates.                                                             *)
LEMMA PollKeeps ==
  ASSUME IInv, Poll
  PROVE  Numbers' /\ UpdatesKnown'
<1>1. BufferInv /\ Numbers /\ UpdatesKnown BY DEF IInv
<1> DEFINE c == Settled
           new == c + 1..written
<1>2. /\ c \in Nat /\ confirmed <= c /\ offset - 1 <= c /\ c <= written
      /\ (c = confirmed \/ c = offset - 1)
  BY <1>1, SettledIs DEF SettledBetween
<1>3. /\ confirmed \in Nat /\ offset \in Nat /\ written \in Nat /\ received \in 0..written
      /\ confirmed <= written /\ offset <= written + 1
  BY <1>1 DEF Numbers
<1>4. confirmed' = c BY DEF Poll, Confirmed, Settled
<1>5. {n \in confirmed' + 1..written : n >= offset} = new
  BY <1>2, <1>3, <1>4
<1>6. /\ offset' = NextOffset(new) /\ handling' = handling \cup new
      /\ received' = Max(new \cup {received})
      /\ repeated' = repeated \cup (new \cap 1..received) /\ latest' = new
      /\ UNCHANGED <<vars, written, polling, stopping, left, done, unsure, cut>>
      /\ polling
  BY <1>5 DEF Poll
<1>7. CASE c = written
  <2>1. new = {} BY <1>2, <1>3, <1>7
  <2>2. offset' = offset BY <1>6, <2>1 DEF NextOffset
  <2>3. received' = received
    <3>1. new \cup {received} = {} \cup {received} BY <2>1
    <3> HIDE DEF new
    <3> QED BY <1>3, <1>6, <3>1, MaxOfOne
  <2>4. Numbers' BY <1>1, <1>2, <1>3, <1>4, <1>6, <2>2, <2>3 DEF Numbers
  <2>5. Settled' = c
    <3>1. /\ Settled' = confirmed' \/ Settled' = offset' - 1
          /\ confirmed' <= Settled' /\ offset' - 1 <= Settled' /\ Settled' \in Nat
      BY <2>4, SettledNext DEF SettledBetween
    <3> QED BY <1>2, <1>3, <1>4, <2>2, <3>1
  <2>6. /\ handling' = handling /\ repeated' = repeated /\ latest' = {} BY <1>6, <2>1
  <2>7. c + 1..received = {} BY <1>2, <1>3, <1>7
  <2> HIDE DEF c, new
  <2>8. UNCHANGED <<drain, done, unsure, cut, polling>> BY <1>6 DEF vars
  <2> QED BY <1>1, <1>4, <2>3, <2>4, <2>5, <2>6, <2>7, <2>8 DEF UpdatesKnown, c
<1>8. CASE c # written
  <2>1. c + 1 <= written /\ new # {} BY <1>2, <1>3, <1>8
  <2>2. Max(new) = written /\ Max(new \cup {received}) = written
    BY <1>2, <1>3, <2>1, MaxOfRange
  <2>3. offset' = written + 1 BY <1>6, <2>1, <2>2 DEF NextOffset
  <2>4. received' = written BY <1>6, <2>2
  <2>5. Numbers' BY <1>1, <1>2, <1>3, <1>4, <1>6, <2>3, <2>4 DEF Numbers
  <2>6. Settled' = written
    <3>1. /\ Settled' = confirmed' \/ Settled' = offset' - 1
          /\ confirmed' <= Settled' /\ offset' - 1 <= Settled' /\ Settled' \in Nat
      BY <2>5, SettledNext DEF SettledBetween
    <3> QED BY <1>2, <1>3, <1>4, <2>3, <3>1
  <2>7. 1..written = 1..c \cup new BY <1>2, <1>3
  <2>8. new \cap 1..received \subseteq c + 1..received BY <1>2, <1>3
  <2>9. written + 1..received' = {} /\ c + 1..received' = new BY <1>3, <2>4
  <2> HIDE DEF c, new
  <2>10. UNCHANGED <<drain, done, unsure, cut, polling>> BY <1>6 DEF vars
  <2>11. ~cut' => 1..Settled' \subseteq handling' \cup done'
    BY <1>1, <1>6, <2>6, <2>7, <2>10 DEF UpdatesKnown, c
  <2>12. ~cut' /\ drain' # "serving" => ~polling' /\ handling' = {}
    BY <1>1, <1>6, <2>10 DEF UpdatesKnown
  <2>13. repeated' \subseteq unsure'
    BY <1>1, <1>6, <2>8, <2>10 DEF UpdatesKnown, c
  <2>14. /\ Settled' + 1..received' \subseteq unsure'
         /\ confirmed' + 1..received' \subseteq unsure' \cup latest'
    <3>1. Settled' + 1..received' = {} BY <2>6, <2>9
    <3>2. confirmed' + 1..received' = new BY <1>4, <2>9
    <3> QED BY <1>6, <3>1, <3>2
  <2> QED BY <2>5, <2>11, <2>12, <2>13, <2>14 DEF UpdatesKnown
<1> QED BY <1>7, <1>8

(* Fewer numbers are above a greater one.                                  *)
LEMMA LaterRange == \A a, b, c \in Nat : a <= b => b + 1..c \subseteq a + 1..c
OBVIOUS

(* A request whose answer does not come back, and the one that ends poll.  *)
LEMMA ConfirmationKeeps ==
  ASSUME IInv, confirmed' \in {confirmed, Confirmed}, polling' \in {FALSE, polling},
         UNCHANGED <<drain, written, offset, handling, seen>>
  PROVE  Numbers' /\ UpdatesKnown'
<1>1. Numbers /\ UpdatesKnown BY DEF IInv
<1>2. confirmed' \in {confirmed, Settled} BY DEF Confirmed, Settled
<1>3. /\ Settled \in Nat /\ confirmed <= Settled /\ offset - 1 <= Settled
      /\ (Settled = confirmed \/ Settled = offset - 1) /\ Settled <= written
  BY <1>1, SettledIs DEF SettledBetween
<1>4. /\ confirmed \in Nat /\ offset \in Nat /\ written \in Nat /\ received \in Nat
  BY <1>1 DEF Numbers
<1>5. UNCHANGED <<done, received, latest, unsure, repeated, cut>> BY DEF seen, receipts
<1>6. confirmed' \in 0..written BY <1>1, <1>2, <1>3 DEF Numbers
<1>7. Numbers' BY <1>1, <1>5, <1>6 DEF Numbers
<1>8. Settled' = Settled
  <2>1. /\ Settled' = confirmed' \/ Settled' = offset' - 1
        /\ confirmed' <= Settled' /\ offset' - 1 <= Settled' /\ Settled' \in Nat
    BY <1>7, SettledNext DEF SettledBetween
  <2> QED BY <1>2, <1>3, <1>4, <2>1
<1>9. confirmed' + 1..received \subseteq confirmed + 1..received
  <2>1. confirmed' \in Nat /\ confirmed <= confirmed' BY <1>2, <1>3, <1>4
  <2> QED BY <1>4, <2>1, LaterRange
<1>10. ~cut' /\ drain' # "serving" => ~polling' /\ handling' = {}
  <2>1. ~cut /\ drain # "serving" => ~polling /\ handling = {} BY <1>1 DEF UpdatesKnown
  <2>2. CASE polling' = FALSE BY <1>5, <2>1, <2>2
  <2>3. CASE polling' = polling BY <1>5, <2>1, <2>3
  <2> QED BY <2>2, <2>3
<1>11. /\ ~cut' => 1..Settled' \subseteq handling' \cup done'
       /\ Settled' + 1..received' \subseteq unsure'
       /\ confirmed' + 1..received' \subseteq unsure' \cup latest'
       /\ repeated' \subseteq unsure'
  BY <1>1, <1>5, <1>8, <1>9 DEF UpdatesKnown
<1> QED BY <1>7, <1>10, <1>11 DEF UpdatesKnown

(* Handle returns, with a result or too late for one.                      *)
LEMMA HandleKeeps ==
  ASSUME IInv, NEW n, Handle(n)
  PROVE  IInv'
<1>1. BufferInv /\ Numbers /\ UpdatesKnown BY DEF IInv
<1>2. PICK u \in User, kind \in left.kinds :
         \/ HandOver(n, u, kind) \/ Refused(n, kind)
         \/ kind \in Kind /\ TooLate(n)
         \/ kind = "/start" /\ StartCommand(n, u)
  BY DEF Handle
<1>3. n \in handling BY DEF Handle
<1>4. ASSUME Handled(n), UNCHANGED drain PROVE Numbers' /\ UpdatesKnown'
  <2>1. /\ handling' = handling \ {n} /\ done' = done \cup {n}
        /\ UNCHANGED <<written, confirmed, offset, polling, cut>>
        /\ UNCHANGED <<received, latest, unsure, repeated>>
    BY <1>4 DEF Handled, telegram, receipts
  <2>2. Numbers' BY <1>1, <2>1 DEF Numbers
  <2>3. Settled' = Settled BY <2>1, SettledStays
  <2>4. handling' \cup done' = handling \cup done BY <1>3, <2>1
  <2>5. UpdatesKnown' BY <1>1, <1>3, <1>4, <2>1, <2>3, <2>4 DEF UpdatesKnown
  <2> QED BY <2>2, <2>5
<1>5. CASE HandOver(n, u, kind)
  <2>1. kind \in Kind /\ Submit(u, kind) /\ Handled(n) BY <1>5 DEF HandOver
  <2>2. BufferInv' BY <1>1, <2>1, SubmitKeeps
  <2>3. UNCHANGED drain BY <2>1 DEF Submit
  <2> QED BY <1>4, <2>1, <2>2, <2>3 DEF IInv
<1>6. ASSUME UNCHANGED vars PROVE BufferInv' /\ UNCHANGED drain
  <2>1. UNCHANGED <<pending, timers, closed, wg, running, drain, count, sent, discarded, quiet>>
    BY <1>6 DEF vars
  <2>2. UsersGood' BY <1>1, <2>1 DEF BufferInv, UsersGood
  <2>3. TimersKnown' BY <1>1, <2>1, TimersEmptied DEF BufferInv
  <2>4. SinksCounted' BY <1>1, <2>1 DEF BufferInv, SinksCounted
  <2> QED BY <2>1, <2>2, <2>3, <2>4 DEF BufferInv
<1>7. CASE Refused(n, kind) BY <1>4, <1>6, <1>7 DEF Refused, IInv
<1>8. CASE StartCommand(n, u)
  <2>1. Handled(n) /\ (Discard(u) \/ UNCHANGED vars) BY <1>8 DEF StartCommand
  <2>2. BufferInv' /\ UNCHANGED drain
    <3>1. CASE Discard(u) BY <1>1, <3>1, DiscardKeeps DEF Discard
    <3> QED BY <1>6, <2>1, <3>1
  <2> QED BY <1>4, <2>1, <2>2 DEF IInv
<1>9. CASE TooLate(n)
  <2>1. /\ closed /\ handling' = handling \ {n} /\ UNCHANGED vars
        /\ UNCHANGED <<written, confirmed, offset, polling, done, cut>>
        /\ UNCHANGED <<received, latest, unsure, repeated>>
    BY <1>9 DEF TooLate, telegram, seen, receipts
  <2>2. BufferInv' /\ UNCHANGED drain BY <1>6, <2>1
  <2>3. drain # "serving" BY <1>1, <2>1 DEF BufferInv, SinksCounted
  <2>4. cut BY <1>1, <1>3, <2>3 DEF UpdatesKnown, Numbers
  <2>5. Numbers' BY <1>1, <2>1 DEF Numbers
  <2>6. Settled' = Settled BY <2>1, SettledStays
  <2>7. UpdatesKnown' BY <1>1, <2>1, <2>4, <2>6 DEF UpdatesKnown
  <2> QED BY <2>2, <2>5, <2>7 DEF IInv
<1> QED BY <1>2, <1>5, <1>7, <1>8, <1>9

(* A process begins.                                                       *)
LEMMA RestartKeeps ==
  ASSUME IInv, Restart
  PROVE  IInv'
<1>1. BufferInv /\ Numbers /\ UpdatesKnown BY DEF IInv
<1>2. Init' BY DEF Restart, Init
<1>3. BufferInv' BY <1>2, BufferStarts, PTL
<1>4. /\ cut' = (cut \/ drain # "down") /\ drain' = "serving" /\ offset' = 0 /\ polling' = TRUE
      /\ handling' = {} /\ latest' = {} /\ unsure' = unsure \cup latest
      /\ UNCHANGED <<written, confirmed, done, received, repeated>>
  BY DEF Restart, Alive, telegram
<1>5. Numbers' BY <1>1, <1>4 DEF Numbers
<1>6. Settled' = confirmed
  <2>1. /\ Settled' = confirmed' \/ Settled' = offset' - 1
        /\ confirmed' <= Settled' /\ offset' - 1 <= Settled' /\ Settled' \in Nat
    BY <1>5, SettledNext DEF SettledBetween
  <2> QED BY <1>1, <1>4, <2>1 DEF Numbers
<1>7. ~cut' => 1..confirmed \subseteq done
  <2> SUFFICES ASSUME ~cut' PROVE 1..confirmed \subseteq done OBVIOUS
  <2>1. ~cut /\ drain = "down" BY <1>1, <1>4 DEF Numbers
  <2>2. handling = {} BY <1>1, <2>1 DEF UpdatesKnown
  <2>3. 1..confirmed \subseteq 1..Settled BY <1>1, SettledIs DEF SettledBetween, Numbers
  <2> QED BY <1>1, <2>1, <2>2, <2>3 DEF UpdatesKnown
<1>8. UpdatesKnown' BY <1>1, <1>4, <1>6, <1>7 DEF UpdatesKnown
<1> QED BY <1>3, <1>5, <1>8 DEF IInv

(* run stops waiting for poll, and closes the buffer.                      *)
LEMMA IntakeEndsKeeps ==
  ASSUME IInv, IntakeEnds
  PROVE  IInv'
<1>1. BufferInv /\ Numbers /\ UpdatesKnown BY DEF IInv
<1>2. /\ StartDrain /\ cut' = (cut \/ ~PollDone)
      /\ UNCHANGED <<written, confirmed, offset, polling, handling, done>>
      /\ UNCHANGED <<received, latest, unsure, repeated>>
  BY DEF IntakeEnds, telegram, intake, receipts
<1>3. BufferInv' BY <1>1, <1>2, StartDrainKeeps
<1>4. cut' \in BOOLEAN /\ (~cut' => ~cut /\ ~polling /\ handling = {})
  BY <1>1, <1>2 DEF PollDone, Numbers
<1>5. Numbers' BY <1>1, <1>2, <1>4 DEF Numbers
<1>6. Settled' = Settled BY <1>2, SettledStays
<1>7. UpdatesKnown' BY <1>1, <1>2, <1>4, <1>6 DEF UpdatesKnown
<1> QED BY <1>3, <1>5, <1>7 DEF IInv

(* Steps that leave the buffer alone.                                      *)
LEMMA BufferRests == ASSUME BufferInv, UNCHANGED vars PROVE BufferInv' /\ UNCHANGED drain
<1>1. UsersGood /\ TimersKnown /\ SinksCounted BY DEF BufferInv
<1>2. UNCHANGED <<pending, timers, closed, wg, running, drain, count, sent, discarded, quiet>>
  BY DEF vars
<1>3. UsersGood' BY <1>1, <1>2 DEF UsersGood
<1>4. TimersKnown' BY <1>1, <1>2, TimersEmptied
<1>5. SinksCounted' BY <1>1, <1>2 DEF SinksCounted
<1> QED BY <1>2, <1>3, <1>4, <1>5 DEF BufferInv

(* More numbers are below a greater one.                                   *)
LEMMA RangeGrows == \A a, b \in Nat : a <= b => 0..a \subseteq 0..b /\ 0..a + 1 \subseteq 0..b + 1
OBVIOUS

(* Steps that leave Telegram and poll alone.                               *)
LEMMA UpdatesRest ==
  ASSUME Numbers, UpdatesKnown, drain # "serving" \/ UNCHANGED drain,
         UNCHANGED <<confirmed, offset, polling, handling, seen>>,
         written' \in {written, written + 1}
  PROVE  Numbers' /\ UpdatesKnown'
<1>1. UNCHANGED <<done, received, latest, unsure, repeated, cut>> BY DEF seen, receipts
<1>2. Numbers'
  <2>1. /\ written \in Nat /\ confirmed \in 0..written /\ offset \in 0..written + 1
        /\ received \in 0..written /\ polling \in BOOLEAN /\ cut \in BOOLEAN
    BY DEF Numbers
  <2>2. written' \in Nat /\ written <= written' BY <2>1
  <2>3. 0..written \subseteq 0..written' /\ 0..written + 1 \subseteq 0..written' + 1
    BY <2>1, <2>2, RangeGrows
  <2>4. /\ confirmed' \in 0..written' /\ offset' \in 0..written' + 1
        /\ received' \in 0..written'
    BY <1>1, <2>1, <2>3
  <2>5. polling' \in BOOLEAN /\ cut' \in BOOLEAN BY <1>1, <2>1
  <2> QED BY <2>2, <2>4, <2>5 DEF Numbers
<1>3. Settled' = Settled BY SettledStays
<1>4. UpdatesKnown' BY <1>1, <1>3 DEF UpdatesKnown
<1> QED BY <1>2, <1>4

(* The first process, with nothing received.                               *)
LEMMA InvariantStarts == IntakeInit => IInv
<1> SUFFICES ASSUME IntakeInit PROVE IInv OBVIOUS
<1>1. BufferInv BY BufferStarts DEF IntakeInit
<1>2. /\ left \in Scenarios /\ written = left.waiting /\ confirmed = 0 /\ offset = 0
      /\ polling = TRUE /\ cut = FALSE /\ received = 0 /\ repeated = {} /\ handling = {}
  BY DEF IntakeInit, Starting
<1>3. written \in Nat BY <1>2, ScenarioAssumption
<1>4. Numbers
  <2>1. confirmed \in 0..written /\ offset \in 0..written + 1 /\ received \in 0..written
    BY <1>2, <1>3
  <2>2. polling \in BOOLEAN /\ cut \in BOOLEAN BY <1>2
  <2> QED BY <1>3, <2>1, <2>2 DEF Numbers
<1>5. Settled = 0
  <2>1. SettledBetween BY <1>4, SettledIs
  <2> QED BY <1>2, <2>1 DEF SettledBetween
<1>6. 1..0 = {} OBVIOUS
<1>7. drain = "serving" BY DEF IntakeInit, Init
<1>8. UpdatesKnown BY <1>2, <1>5, <1>6, <1>7 DEF UpdatesKnown
<1> QED BY <1>1, <1>4, <1>8 DEF IInv

(* Every step of the process and of what is around it.                     *)
LEMMA InvariantKept ==
  ASSUME IInv, [IntakeNext]_allVars
  PROVE  IInv'
<1>1. BufferInv /\ Numbers /\ UpdatesKnown BY DEF IInv
<1>2. CASE Writes
  <2>1. /\ written' = written + 1 /\ UNCHANGED vars
        /\ UNCHANGED <<confirmed, offset, polling, handling, seen>>
    BY <1>2 DEF Writes, intake
  <2> QED BY <1>1, <2>1, BufferRests, UpdatesRest DEF IInv
<1>3. CASE Poll
  <2>1. UNCHANGED vars BY <1>3 DEF Poll
  <2> QED BY <1>1, <1>3, <2>1, BufferRests, PollKeeps DEF IInv
<1>4. CASE PollFails \/ PollEnds
  <2>1. /\ UNCHANGED vars /\ confirmed' \in {confirmed, Confirmed}
        /\ UNCHANGED <<written, offset, handling, seen>>
        /\ polling' \in {FALSE, polling}
    BY <1>4 DEF PollFails, PollEnds, intake
  <2>2. BufferInv' /\ UNCHANGED drain BY <1>1, <2>1, BufferRests
  <2> QED BY <2>1, <2>2, ConfirmationKeeps DEF IInv
<1>5. CASE \E n \in 1..MaxUpdates : Handle(n) BY <1>5, HandleKeeps
<1>6. CASE Stop
  <2>1. UNCHANGED vars /\ UNCHANGED <<written, confirmed, offset, polling, handling, seen>>
    BY <1>6 DEF Stop, telegram
  <2> QED BY <1>1, <2>1, BufferRests, UpdatesRest DEF IInv
<1>7. CASE IntakeEnds BY <1>7, IntakeEndsKeeps
<1>8. CASE EndOfRun
  <2>1. DrainDone \/ DrainTimeout \/ Shutdown BY <1>8 DEF EndOfRun
  <2>2. UNCHANGED <<written, confirmed, offset, polling, handling, seen>>
    BY <1>8 DEF EndOfRun, telegram, intake
  <2>3. BufferInv' BY <1>1, <2>1, EndKeeps
  <2>4. drain # "serving" /\ drain' # "serving"
    BY <2>1 DEF DrainDone, DrainTimeout, Shutdown
  <2> QED BY <1>1, <2>2, <2>3, <2>4, UpdatesRest DEF IInv
<1>9. CASE Restart BY <1>9, RestartKeeps
<1>10. CASE Buffered
  <2>1. UNCHANGED <<written, confirmed, offset, polling, handling, seen>>
    BY <1>10 DEF Buffered, telegram, intake
  <2>2. BufferInv' /\ UNCHANGED drain
    <3>1. CASE \E t \in timers : Elapse(t)
      BY <1>1, <3>1, ElapseKeeps DEF Elapse
    <3>2. CASE \E t \in timers : Callback(t)
      BY <1>1, <3>2, CallbackKeeps DEF Callback
    <3>3. CASE \E g \in running : Finish(g)
      BY <1>1, <3>3, FinishKeeps DEF Finish
    <3> QED BY <1>10, <3>1, <3>2, <3>3 DEF Buffered
  <2> QED BY <1>1, <2>1, <2>2, UpdatesRest DEF IInv
<1>11. CASE UNCHANGED allVars
  <2>1. UNCHANGED vars /\ UNCHANGED <<written, confirmed, offset, polling, handling, seen>>
    BY <1>11 DEF allVars, telegram, intake
  <2> QED BY <1>1, <2>1, BufferRests, UpdatesRest DEF IInv
<1> QED BY <1>2, <1>3, <1>4, <1>5, <1>6, <1>7, <1>8, <1>9, <1>10, <1>11 DEF IntakeNext

----------------------------------------------------------------------------
(* What follows.                                                           *)

(* The invariant of every behaviour of the process.                        *)
THEOREM Invariant == IntakeSpec => []IInv
<1>1. IntakeInit => IInv BY InvariantStarts
<1>2. IInv /\ [IntakeNext]_allVars => IInv' BY InvariantKept
<1> QED BY <1>1, <1>2, PTL DEF IntakeSpec

(* The values of the buffer's variables: the state of bot.Buffer and of    *)
(* what it is measured by, and a pending batch is never full.              *)
THEOREM TypeCorrect == IntakeSpec => []TypeOK
<1>1. IInv => TypeOK
  <2> SUFFICES ASSUME IInv PROVE TypeOK OBVIOUS
  <2>1. UsersGood /\ TimersKnown /\ SinksCounted BY DEF IInv, BufferInv
  <2>2. pending \in [User -> [items : Seq(Message), generation : 0..Limit - 1]]
    <3>1. ASSUME NEW u \in User
          PROVE  pending[u] \in [items : Seq(Message), generation : 0..Limit - 1]
      <4>1. /\ pending[u] \in [items : Seq(Message), generation : Nat]
            /\ pending[u].generation = Len(pending[u].items)
            /\ Len(pending[u].items) < Limit
        BY <2>1 DEF UsersGood
      <4>2. pending[u].generation \in 0..Limit - 1 BY <4>1
      <4> QED BY <4>1, <4>2
    <3> QED BY <2>1, <3>1 DEF UsersGood
  <2>3. \A t \in timers : /\ t.user \in User /\ t.first \in Number
                          /\ t.generation \in 1..Limit - 1 /\ t.fired \in BOOLEAN
    BY <2>1 DEF TimersKnown
  <2>4. wg \in Nat BY <2>1, FS_CardinalityType DEF SinksCounted
  <2>5. /\ sent \in [User -> Seq(Batch)] /\ count \in [User -> 0..MaxMessages]
        /\ discarded \in [User -> SUBSET Number]
    BY <2>1 DEF UsersGood
  <2>6. /\ closed \in BOOLEAN /\ running \in SUBSET (User \X Number)
        /\ drain \in {"serving", "draining", "drained", "timedOut", "down"}
        /\ quiet \in [User -> BOOLEAN]
    BY <2>1 DEF SinksCounted, TimersKnown
  <2> QED BY <2>2, <2>3, <2>4, <2>5, <2>6 DEF TypeOK
<1> QED BY <1>1, Invariant, PTL

(* Whatever cuts a user's messages into batches, Submit, a timer, /start or*)
(* Drain (buffer.go), each is in one batch, in their order.                *)
THEOREM MessagesKept == IntakeSpec => []NothingLostOrRepeated
<1>1. IInv => NothingLostOrRepeated
  <2> SUFFICES ASSUME IInv, NEW u \in User
               PROVE  /\ UNION {Ids(Part(u, k)) : k \in Parts(u)} = (1..count[u]) \ discarded[u]
                      /\ \A k, l \in Parts(u) :
                           \A i \in DOMAIN Part(u, k), j \in DOMAIN Part(u, l) :
                             k < l \/ (k = l /\ i < j) => Part(u, k)[i].n < Part(u, l)[j].n
    BY DEF NothingLostOrRepeated
  <2>1. Good(pending[u].items, sent[u], count[u], discarded[u])
    BY DEF IInv, BufferInv, UsersGood
  <2>2. \A k : Part(u, k) = Piece(pending[u].items, sent[u], k) BY DEF Part, Piece
  <2>3. Parts(u) = 1..Len(sent[u]) + 1 BY DEF Parts
  <2>4. Complete(pending[u].items, sent[u], count[u], discarded[u])
        /\ InOrder(pending[u].items, sent[u])
    BY <2>1 DEF Good
  <2>5. ASSUME NEW x
        PROVE  x \in UNION {Ids(Part(u, k)) : k \in Parts(u)} <=> x \in (1..count[u]) \ discarded[u]
    BY <2>2, <2>3, <2>4 DEF Complete
  <2>6. UNION {Ids(Part(u, k)) : k \in Parts(u)} = (1..count[u]) \ discarded[u] BY <2>5
  <2>7. \A k, l \in Parts(u) :
          \A i \in DOMAIN Part(u, k), j \in DOMAIN Part(u, l) :
            k < l \/ (k = l /\ i < j) => Part(u, k)[i].n < Part(u, l)[j].n
    BY <2>2, <2>3, <2>4 DEF InOrder
  <2> QED BY <2>6, <2>7
<1> QED BY <1>1, Invariant, PTL

(* Every attachment of a batch is the one the pipeline shows the model     *)
(* (MakeBatch, pipeline.go).                                               *)
THEOREM AttachmentsKept == IntakeSpec => []NoAttachmentDropped
<1>1. IInv => NoAttachmentDropped
  BY DEF IInv, BufferInv, UsersGood, Good, AllShown, NoAttachmentDropped
<1> QED BY <1>1, Invariant, PTL

(* The wait group counts the Sinks, and when Drain saw it at zero nothing  *)
(* is pending or running, and stays so: not even a timer that had fired    *)
(* before b.closed was set brings a batch.                                 *)
THEOREM DrainComplete == IntakeSpec => []DrainedMeansIdle
<1>1. IInv => DrainedMeansIdle
  BY DEF IInv, BufferInv, SinksCounted, DrainedMeansIdle
<1> QED BY <1>1, Invariant, PTL

(* No update is lost between getUpdates and the handlers unless a process  *)
(* dies or stops waiting for them, and only what the last answer to a      *)
(* process that ended brought is handled twice (main.go, poll and run).    *)
THEOREM UpdatesSafe == IntakeSpec => []UpdatesAccounted
<1>1. IInv => UpdatesAccounted
  <2> SUFFICES ASSUME IInv PROVE UpdatesAccounted OBVIOUS
  <2>1. Numbers /\ UpdatesKnown BY DEF IInv
  <2>2. 1..confirmed \subseteq 1..Settled
    BY <2>1, SettledIs DEF Numbers, SettledBetween
  <2> QED BY <2>1, <2>2 DEF UpdatesAccounted, UpdatesKnown
<1> QED BY <1>1, Invariant, PTL

(* What the steps of the buffer send while it is open and nothing comes.   *)
LEMMA QuietSends ==
  ASSUME IInv, [IntakeNext]_allVars, NEW u \in User,
         Len(sent'[u]) > Len(sent[u]), count'[u] = count[u], ~closed'
  PROVE  quiet[u]
<1>1. UsersGood /\ TimersKnown BY DEF IInv, BufferInv
<1>2. Len(sent[u]) \in Nat BY <1>1, LenProperties DEF UsersGood
<1>3. sent'[u] # sent[u] BY <1>2
<1>4. ~UNCHANGED vars BY <1>3 DEF vars
<1>5. CASE \E n \in 1..MaxUpdates : Handle(n)
  <2>1. PICK v \in User, kind \in Kind : Submit(v, kind) \/ Discard(v)
    <3>1. PICK n \in 1..MaxUpdates : Handle(n) BY <1>5
    <3>2. PICK v \in User, kind \in left.kinds :
             \/ HandOver(n, v, kind) \/ Refused(n, kind)
             \/ kind \in Kind /\ TooLate(n)
             \/ kind = "/start" /\ StartCommand(n, v)
      BY <3>1 DEF Handle
    <3>3. ~Refused(n, kind) /\ ~TooLate(n) BY <1>4 DEF Refused, TooLate
    <3>4. ~StartCommand(n, v)
      BY <1>3, <1>4 DEF StartCommand, Discard, NoDispatch
    <3> QED BY <3>2, <3>3, <3>4 DEF HandOver
  <2>2. ~Discard(v) BY <1>3 DEF Discard, NoDispatch
  <2>3. v # u
    <3>1. Submit(v, kind) => count[v] \in Nat /\ count'[v] = count[v] + 1
      BY <1>1, SubmitUsers
    <3> QED BY <2>1, <2>2, <3>1
  <2>4. sent'[u] = sent[u] BY <1>1, <2>1, <2>2, <2>3, SubmitUsers
  <2> QED BY <1>3, <2>4
<1>6. CASE Buffered
  <2>1. PICK t \in timers : Callback(t)
    BY <1>3, <1>6 DEF Buffered, Elapse, Finish
  <2>2. Current(t) /\ t.fired /\ Flush(t.user) BY <1>3, <2>1 DEF Callback, NoDispatch
  <2>3. t.user \in User /\ quiet[t.user] BY <1>1, <2>2 DEF TimersKnown
  <2>4. UNCHANGED <<count, discarded>> BY <2>1 DEF Callback
  <2>5. \A v \in User \ {t.user} : sent'[v] = sent[v]
    BY <1>1, <2>2, <2>3, <2>4, FlushUsers
  <2>6. u = t.user BY <1>3, <2>5
  <2> QED BY <2>3, <2>6
<1>7. CASE IntakeEnds BY <1>7 DEF IntakeEnds, StartDrain
<1>8. CASE Restart
  <2>1. Len(sent'[u]) = 0 BY <1>8, EmptySeq DEF Restart
  <2> QED BY <1>2, <2>1
<1>9. CASE EndOfRun
  BY <1>3, <1>9 DEF EndOfRun, DrainDone, DrainTimeout, Shutdown, NoDispatch
<1>10. CASE Writes \/ Poll \/ PollFails \/ PollEnds \/ Stop \/ UNCHANGED allVars
  BY <1>4, <1>10 DEF Writes, Poll, PollFails, PollEnds, Stop, allVars
<1> QED BY <1>5, <1>6, <1>7, <1>8, <1>9, <1>10 DEF IntakeNext

(* While the buffer is open only a timer sends without a message of the    *)
(* user's, and only after his silence: a callback that waited for b.mu     *)
(* while he wrote finds another generation (buffer.go, in Submit).         *)
THEOREM BurstKept == IntakeSpec => QuietBeforeTimer
<1>1. IInv /\ [IntakeNext]_allVars =>
        [\A u \in User :
           Len(sent'[u]) > Len(sent[u]) /\ count'[u] = count[u] /\ ~closed' => quiet[u]]_vars
  BY QuietSends
<1> QED BY <1>1, Invariant, PTL DEF IntakeSpec, QuietBeforeTimer
=============================================================================
