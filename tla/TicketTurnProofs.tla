-------------------------- MODULE TicketTurnProofs --------------------------
(***************************************************************************)
(* The safety of a ticket's turns, for every kind of message, every bound  *)
(* and every window: types, the justification of the watermarks, the       *)
(* pending attachments, one answer to a message, and the operator's        *)
(* window.  The inductive invariant says what a turn may still rely on of  *)
(* what it read several calls ago, while everybody else went on.           *)
(***************************************************************************)
EXTENDS TicketTurn, FiniteSetTheorems, SequenceTheorems, TLAPS

USE SuppressionAssumption DEF Ages

(* The calls of a turn after it read the row.                              *)
Informed == {"resolve", "forward", "mark", "decide", "model", "post", "record"}

(* The row the turn read is still good: nobody else writes the watermarks  *)
(* of the bot, and the mirrored one only grows.                            *)
RowStillGood ==
  /\ row.mirrored <= Len(msgs)
  /\ p.mirrored <= row.mirrored
  /\ pc \in Informed => p.answered = row.answered /\ p.bot = row.bot

(* The loop over the attachments skips none.                               *)
MediaInOrder ==
  /\ pc \in {"forward", "mark"} =>
       /\ item \in Unmirrored
       /\ \A i \in Unmirrored : i < item => i \in delivered
  /\ pc = "mark" => item \in delivered

(* From the model call to the record the turn has a message to answer, and *)
(* when it records, the reply is there.                                    *)
AnswerUnderWay ==
  /\ pc \in {"model", "post", "record"} => Last # 0
  /\ pc = "record" =>
       /\ \E i \in 1..Len(msgs) : msgs[i].kind = "bot" /\ msgs[i].re = Last
       /\ posted # NoId => msgs[posted].kind = "bot"

(* The recorded time of a human reply is not older than any human message  *)
(* up to the recorded one.                                                 *)
TimeCovers(q) ==
  /\ q.human <= Len(msgs)
  /\ \A i \in 1..q.human : msgs[i].kind = "human" => msgs[i].age >= q.humanAge

(* A turn that decided to answer saw no operator within the window.        *)
WindowOver ==
  pc \in {"model", "post"} /\ p.bot # 0 =>
    \A i \in p.bot + 1 .. seen : msgs[i].kind = "human" => msgs[i].age = Suppression

IInv == /\ TypeOK /\ WatermarksJustified
        /\ RowStillGood /\ MediaInOrder /\ AnswerUnderWay
        /\ TimeCovers(row) /\ TimeCovers(p) /\ WindowOver

(* What the relay is about to record as the human watermark is a staff     *)
(* message, since the panel gave it the id.                                *)
RelayOfStaff == relay > 0 => ~IsUser(relay)

----------------------------------------------------------------------------
(* Greatest and least elements.                                            *)

(* A nonempty set of message ids has a least one: Min finds it.            *)
LEMMA MinOfIds ==
  ASSUME NEW n \in Nat, NEW S \in SUBSET (1..n), S # {}
  PROVE  Min(S) \in S /\ \A y \in S : Min(S) <= y
<1> DEFINE R == StrictSubsetOrdering(1..n)
           T == {1..x : x \in S}
<1>1. \E X \in T : \A Y \in T : ~(<<Y, X>> \in R)
  <2>1. IsFiniteSet(1..n) BY FS_Interval
  <2>2. IsWellFoundedOn(R, FiniteSubsetsOf(1..n))
    BY <2>1, FS_StrictSubsetOrderingWellFounded
  <2>3. T \subseteq FiniteSubsetsOf(1..n)
    BY <2>1, FS_FiniteSubsetsOfFinite
  <2>4. T # {} OBVIOUS
  <2> HIDE DEF R, T
  <2> QED BY <2>2, <2>3, <2>4, WFMin
<1>2. \E x \in S : \A y \in S : x <= y
  <2>1. PICK x \in S : \A y \in S : ~(<<1..y, 1..x>> \in R) BY <1>1
  <2>2. ASSUME NEW y \in S, y < x PROVE FALSE
    <3>1. /\ 1..y \in SUBSET (1..n) /\ 1..x \in SUBSET (1..n)
          /\ 1..y \subseteq 1..x
          /\ x \in 1..x /\ x \notin 1..y
      BY <2>2
    <3>2. <<1..y, 1..x>> \in R BY <3>1 DEF StrictSubsetOrdering
    <3> QED BY <2>1, <3>2
  <2> QED BY <2>2
<1> QED BY <1>2 DEF Min

(* And a greatest one: Max finds it.                                       *)
LEMMA MaxOfIds ==
  ASSUME NEW n \in Nat, NEW S \in SUBSET (1..n), S # {}
  PROVE  Max(S) \in S /\ \A y \in S : y <= Max(S)
<1> DEFINE T == {i \in 1..n : n + 1 - i \in S}
<1>1. T \in SUBSET (1..n) /\ T # {}
  <2>1. PICK x \in S : TRUE OBVIOUS
  <2>2. n + 1 - x \in 1..n /\ n + 1 - (n + 1 - x) = x OBVIOUS
  <2> QED BY <2>1, <2>2
<1>2. Min(T) \in T /\ \A y \in T : Min(T) <= y BY <1>1, MinOfIds
<1>3. \E x \in S : \A y \in S : x >= y
  <2>1. n + 1 - Min(T) \in S BY <1>2
  <2>2. ASSUME NEW y \in S PROVE n + 1 - Min(T) >= y
    <3>1. n + 1 - y \in 1..n /\ n + 1 - (n + 1 - y) = y OBVIOUS
    <3>2. n + 1 - y \in T BY <3>1
    <3> HIDE DEF T
    <3>3. Min(T) <= n + 1 - y /\ Min(T) \in 1..n BY <1>1, <1>2, <3>2
    <3> QED BY <3>3
  <2> QED BY <2>1, <2>2
<1>4. \A y \in S : y \in Nat OBVIOUS
<1> QED BY <1>3, <1>4 DEF Max

(* The larger of two watermarks.                                           *)
LEMMA MaxOfTwo ==
  ASSUME NEW a \in Nat, NEW b \in Nat
  PROVE  Max({a, b}) = IF a >= b THEN a ELSE b
BY DEF Max

(* MaxOr0 of message ids is 0 for none, else the greatest.                 *)
LEMMA MaxOr0OfIds ==
  ASSUME NEW n \in Nat, NEW S \in SUBSET (1..n)
  PROVE  /\ MaxOr0(S) \in 0..n
         /\ MaxOr0(S) # 0 => MaxOr0(S) \in S
         /\ \A y \in S : y <= MaxOr0(S)
<1>1. CASE S = {} BY <1>1 DEF MaxOr0
<1>2. CASE S # {}
  <2>1. Max(S) \in S /\ \A y \in S : y <= Max(S) BY <1>2, MaxOfIds
  <2>2. MaxOr0(S) = Max(S) BY <1>2 DEF MaxOr0
  <2>3. Max(S) \in 1..n BY <2>1
  <2> QED BY <2>1, <2>2, <2>3
<1> QED BY <1>1, <1>2

----------------------------------------------------------------------------
(* The panel's messages and the watermarks are what they look like.        *)
LEMMA Types ==
  ASSUME TypeOK
  PROVE  /\ Len(msgs) \in Nat
         /\ \A i \in 1..Len(msgs) : /\ msgs[i].kind \in UserKinds \cup {"bot", "human"}
                                    /\ msgs[i].re \in Nat
                                    /\ msgs[i].age \in 0..Suppression
         /\ seen \in 0..Len(msgs) /\ item \in 0..Len(msgs) /\ posted \in 0..Len(msgs)
         /\ row \in Progress /\ p \in Progress
         /\ row.answered \in Nat /\ row.bot \in Nat /\ row.human \in Nat
         /\ row.humanAge \in 0..Suppression
         /\ row.mirrored \in Nat /\ row.pending \in Nat
         /\ p.answered \in Nat /\ p.bot \in Nat /\ p.human \in Nat
         /\ p.humanAge \in 0..Suppression
         /\ p.mirrored \in Nat /\ p.pending \in Nat
<1>1. msgs \in Seq(Message) BY DEF TypeOK
<1>2. \A i \in 1..Len(msgs) : msgs[i] \in Message BY <1>1, ElementOfSeq
<1>3. \A i \in 1..Len(msgs) : /\ msgs[i].kind \in UserKinds \cup {"bot", "human"}
                              /\ msgs[i].re \in Nat
                              /\ msgs[i].age \in 0..Suppression
  BY <1>2 DEF Message
<1>4. Len(msgs) \in Nat BY <1>1, LenProperties
<1> QED BY <1>3, <1>4 DEF TypeOK, Progress

(* The watermarks of the row, and of what the turn read of it.             *)
LEMMA RowTypes ==
  ASSUME TypeOK
  PROVE  /\ row.mirrored \in Nat /\ row.bot \in Nat /\ row.human \in Nat
         /\ row.humanAge \in Nat /\ row.pending \in Nat
         /\ p.human \in Nat /\ p.humanAge \in Nat /\ p.bot \in Nat
BY Types

(* The turn has read a part of the messages, and is at one of them.        *)
LEMMA PointerTypes ==
  ASSUME TypeOK
  PROVE  /\ Len(msgs) \in Nat /\ seen \in Nat /\ seen <= Len(msgs) /\ item \in Nat
         /\ \A i \in 1..Len(msgs) : msgs[i].age \in 0..Suppression
BY Types

(* The same after a step.                                                  *)
LEMMA TypesNext ==
  ASSUME TypeOK'
  PROVE  /\ Len(msgs') \in Nat
         /\ \A i \in 1..Len(msgs') : /\ msgs'[i].re \in Nat
                                     /\ msgs'[i].age \in 0..Suppression
         /\ row'.answered \in Nat /\ row'.bot \in Nat /\ row'.human \in Nat
         /\ row'.humanAge \in 0..Suppression
         /\ row'.mirrored \in Nat /\ row'.pending \in Nat
<1>1. msgs' \in Seq(Message) BY DEF TypeOK
<1>2. \A i \in 1..Len(msgs') : msgs'[i] \in Message BY <1>1, ElementOfSeq
<1>3. \A i \in 1..Len(msgs') : /\ msgs'[i].re \in Nat
                               /\ msgs'[i].age \in 0..Suppression
  BY <1>2 DEF Message
<1>4. Len(msgs') \in Nat BY <1>1, LenProperties
<1> QED BY <1>3, <1>4 DEF TypeOK, Progress

(* What a turn computes from the messages it read.                         *)

(* Ids that the operators of a turn return are ids of messages it read.    *)
LEMMA TurnOperators ==
  ASSUME TypeOK
  PROVE  /\ Last \in 0..seen
         /\ Last # 0 => p.answered < Last
         /\ LatestHuman \in 0..seen
         /\ LatestHuman # 0 => ~IsUser(LatestHuman)
         /\ Unmirrored \in SUBSET (1..seen)
<1>1. seen \in Nat /\ Len(msgs) \in Nat /\ p.answered \in Nat
  BY DEF TypeOK, Progress
<1>2. LastUser(seen) \in 0..seen
  BY <1>1, MaxOr0OfIds DEF LastUser
<1>3. Last \in 0..seen /\ (Last # 0 => p.answered < Last)
  <2> HIDE DEF Awaits, LastUser
  <2> QED BY <1>1, <1>2 DEF Last, Unanswered
<1>4. LatestHuman \in 0..seen /\ (LatestHuman # 0 => ~IsUser(LatestHuman))
  <2> DEFINE S == {i \in 1..seen : ~IsUser(i) /\ i > p.bot}
  <2>1. S \in SUBSET (1..seen) /\ \A i \in S : ~IsUser(i) OBVIOUS
  <2> HIDE DEF S
  <2>2. MaxOr0(S) \in 0..seen /\ (MaxOr0(S) # 0 => MaxOr0(S) \in S)
    BY <1>1, <2>1, MaxOr0OfIds
  <2>3. LatestHuman = 0 \/ LatestHuman = MaxOr0(S) BY DEF LatestHuman, S
  <2> HIDE DEF LatestHuman, IsUser, MaxOr0
  <2> QED BY <1>1, <2>1, <2>2, <2>3
<1> QED BY <1>3, <1>4 DEF Unmirrored

(* The newest staff message after the bot's last reply is not older than   *)
(* any human's.                                                            *)
LEMMA LatestHumanIsLatest ==
  ASSUME TypeOK, p.bot # 0, NEW i \in p.bot + 1 .. seen, msgs[i].kind = "human"
  PROVE  i <= LatestHuman
<1>1. seen \in Nat /\ p.bot \in Nat BY DEF TypeOK, Progress
<1>2. ~IsUser(i) BY DEF IsUser, UserKinds
<1> DEFINE S == {j \in 1..seen : ~IsUser(j) /\ j > p.bot}
<1>3. S \in SUBSET (1..seen) /\ i \in S BY <1>1, <1>2
<1> HIDE DEF S
<1>4. i <= MaxOr0(S) BY <1>1, <1>3, MaxOr0OfIds
<1> QED BY <1>4 DEF LatestHuman, S
----------------------------------------------------------------------------
(* What everybody does to the messages: they are never removed or          *)
(* changed, and do not get younger.                                        *)
MessagesKept ==
  /\ Len(msgs) <= Len(msgs')
  /\ \A i \in 1..Len(msgs) : /\ msgs'[i].kind = msgs[i].kind
                             /\ msgs'[i].re = msgs[i].re
                             /\ msgs[i].age <= msgs'[i].age

(* The message to answer and the attachments to forward depend on what the *)
(* turn read, however the ticket goes on.                                  *)
LEMMA TurnOperatorsKept ==
  ASSUME TypeOK, TypeOK', MessagesKept, UNCHANGED <<seen, seenStatus>>,
         p'.answered = p.answered, p'.bot = p.bot, p'.mirrored = p.mirrored
  PROVE  Last' = Last /\ Unmirrored' = Unmirrored
<1>1. \A i \in 1..seen : (IsUser(i)' <=> IsUser(i)) /\ (HasMedia(i)' <=> HasMedia(i))
  <2>1. \A i \in 1..seen : msgs'[i].kind = msgs[i].kind
    BY Types DEF MessagesKept
  <2> QED BY <2>1 DEF IsUser, HasMedia
<1>2. Unmirrored' = Unmirrored BY <1>1 DEF Unmirrored
<1>3. Last' = Last
  <2>1. {i \in 1..seen' : IsUser(i)'} = {i \in 1..seen : IsUser(i)} BY <1>1
  <2>2. LastUser(seen)' = LastUser(seen) BY <2>1 DEF LastUser
  <2>3. Awaits(seen, seenStatus)' <=> Awaits(seen, seenStatus)
    BY <1>1, Types DEF Awaits
  <2> HIDE DEF LastUser, Awaits
  <2> QED BY <2>2, <2>3 DEF Last, Unanswered
<1> QED BY <1>2, <1>3

(* Ids and ages before and after, of the messages there were before.       *)
LEMMA MessageTypes ==
  ASSUME TypeOK, TypeOK', MessagesKept
  PROVE  /\ Len(msgs) \in Nat /\ Len(msgs') \in Nat /\ Len(msgs) <= Len(msgs')
         /\ \A i \in 1..Len(msgs) : /\ i \in Nat /\ i \in 1..Len(msgs')
                                    /\ msgs[i].age \in Nat /\ msgs'[i].age \in Nat
                                    /\ msgs[i].age <= msgs'[i].age
                                    /\ msgs'[i].age <= Suppression
<1>1. Len(msgs) \in Nat /\ \A i \in 1..Len(msgs) : msgs[i].age \in 0..Suppression
  BY Types
<1>2. Len(msgs') \in Nat /\ \A i \in 1..Len(msgs') : msgs'[i].age \in 0..Suppression
  BY TypesNext
<1>3. /\ Len(msgs) <= Len(msgs')
      /\ \A i \in 1..Len(msgs) : msgs[i].age <= msgs'[i].age
  BY DEF MessagesKept
<1>4. \A i \in 1..Len(msgs) : i \in Nat /\ i \in 1..Len(msgs') BY <1>1, <1>2, <1>3
<1> QED BY <1>1, <1>2, <1>3, <1>4

(* What holds of the row holds on as long as nobody writes it.             *)
LEMMA RowKept ==
  ASSUME IInv, TypeOK', MessagesKept, UNCHANGED row, delivered \subseteq delivered'
  PROVE  /\ WatermarksJustified' /\ TimeCovers(row)'
         /\ row'.mirrored <= Len(msgs')
<1>0. TypeOK BY DEF IInv
<1>1. /\ Len(msgs) \in Nat /\ Len(msgs') \in Nat /\ Len(msgs) <= Len(msgs')
      /\ row.mirrored \in Nat /\ row.bot \in Nat /\ row.human \in Nat
      /\ row.humanAge \in Nat
      /\ \A i \in 1..Len(msgs) : /\ i \in Nat /\ i \in 1..Len(msgs')
                                 /\ msgs[i].age \in Nat /\ msgs'[i].age \in Nat
                                 /\ msgs[i].age <= msgs'[i].age
  BY <1>0, MessageTypes, RowTypes
<1>2. WatermarksJustified'
  <2>1. row.bot # 0 => row.bot <= Len(msgs') /\ msgs'[row.bot].kind = "bot"
    BY <1>1 DEF IInv, WatermarksJustified, MessagesKept
  <2>2. ASSUME row.answered # 0
        PROVE  \E i \in 1..Len(msgs') : msgs'[i].kind = "bot" /\ msgs'[i].re = row.answered
    <3>1. PICK i \in 1..Len(msgs) : msgs[i].kind = "bot" /\ msgs[i].re = row.answered
      BY <2>2 DEF IInv, WatermarksJustified
    <3>2. i \in 1..Len(msgs') BY <1>1 DEF MessagesKept
    <3> QED BY <3>1, <3>2 DEF MessagesKept
  <2>3. ASSUME NEW i \in 1..Len(msgs'), HasMedia(i)', i <= row.mirrored
        PROVE  i \in delivered'
    <3>1. i \in 1..Len(msgs) BY <1>1, <2>3 DEF IInv, RowStillGood
    <3>2. HasMedia(i) BY <2>3, <3>1 DEF HasMedia, MessagesKept
    <3> QED BY <2>3, <3>1, <3>2 DEF IInv, WatermarksJustified
  <2>4. row.human # 0 => row.human <= Len(msgs') /\ ~IsUser(row.human)'
    BY <1>1 DEF IInv, WatermarksJustified, MessagesKept, IsUser
  <2> QED BY <2>1, <2>2, <2>3, <2>4 DEF WatermarksJustified
<1>3. row'.mirrored <= Len(msgs') BY <1>1 DEF IInv, RowStillGood
<1>4. TimeCovers(row)'
  <2>1. /\ row.human <= Len(msgs)
        /\ \A i \in 1..row.human : msgs[i].kind = "human" => msgs[i].age >= row.humanAge
    BY DEF IInv, TimeCovers
  <2>2. ASSUME NEW i \in 1..row.human, msgs'[i].kind = "human"
        PROVE  msgs'[i].age >= row.humanAge
    <3>1. i \in 1..Len(msgs) BY <1>1, <2>1
    <3>2. msgs[i].kind = "human" BY <2>2, <3>1 DEF MessagesKept
    <3>3. msgs[i].age >= row.humanAge BY <2>1, <3>2
    <3> QED BY <1>1, <3>1, <3>3
  <2>3. row.human <= Len(msgs') BY <1>1, <2>1
  <2> QED BY <2>2, <2>3 DEF TimeCovers
<1> QED BY <1>2, <1>3, <1>4

(* What a turn relies on holds on while the others write: messages, the    *)
(* time and the human watermark of the row, the marks of attachments.      *)
LEMMA TurnKept ==
  ASSUME IInv, TypeOK', MessagesKept,
         UNCHANGED <<pc, seen, seenStatus, item, posted>>,
         p' = [p EXCEPT !.humanAge = p'.humanAge],
         row'.answered = row.answered, row'.bot = row.bot,
         row.mirrored <= row'.mirrored, delivered \subseteq delivered'
  PROVE  /\ p'.mirrored <= row'.mirrored
         /\ pc' \in Informed => p'.answered = row'.answered /\ p'.bot = row'.bot
         /\ MediaInOrder' /\ AnswerUnderWay' /\ WindowOver'
<1>0. p'.answered = p.answered /\ p'.bot = p.bot /\ p'.mirrored = p.mirrored
  BY DEF IInv, TypeOK, Progress
<1>1. /\ p.mirrored \in Nat /\ row.mirrored \in Nat /\ row'.mirrored \in Nat
      /\ p.bot \in Nat /\ Len(msgs) \in Nat /\ seen \in 0..Len(msgs)
      /\ posted \in 0..Len(msgs)
  BY Types, TypesNext DEF IInv
<1>2. Last' = Last /\ Unmirrored' = Unmirrored
  BY <1>0, TurnOperatorsKept DEF IInv
<1>3. /\ p'.mirrored <= row'.mirrored
      /\ pc' \in Informed => p'.answered = row'.answered /\ p'.bot = row'.bot
  BY <1>0, <1>1 DEF IInv, RowStillGood
<1>4. MediaInOrder' BY <1>2 DEF IInv, MediaInOrder
<1>5. AnswerUnderWay' BY <1>1, <1>2 DEF IInv, AnswerUnderWay, MessagesKept, NoId
<1>6. WindowOver'
  <2> SUFFICES ASSUME pc \in {"model", "post"}, p.bot # 0,
                      NEW i \in p.bot + 1 .. seen, msgs'[i].kind = "human"
               PROVE  msgs'[i].age = Suppression
    BY <1>0 DEF WindowOver
  <2>0. TypeOK BY DEF IInv
  <2>1. i \in 1..Len(msgs) BY <1>1
  <2>2. msgs[i].age = Suppression
    BY <2>1 DEF IInv, WindowOver, MessagesKept
  <2>3. msgs'[i].age \in Nat /\ msgs[i].age <= msgs'[i].age /\ msgs'[i].age <= Suppression
    BY <2>0, <2>1, MessageTypes
  <2> QED BY <2>2, <2>3
<1> QED BY <1>3, <1>4, <1>5, <1>6

(* A turn that ended relies on nothing.                                    *)
LEMMA TurnEnds ==
  ASSUME IInv, TypeOK', MessagesKept, UNCHANGED row, UNCHANGED delivered,
         NEW again \in BOOLEAN, EndTurn(again)
  PROVE  IInv'
<1>1. WatermarksJustified' /\ TimeCovers(row)' /\ row'.mirrored <= Len(msgs')
  BY RowKept
<1>2. pc' \in {"read", "idle"} /\ p' = NoProgress BY DEF EndTurn
<1>3. RowStillGood'
  BY <1>1, <1>2, TypesNext DEF RowStillGood, NoProgress, Informed
<1>4. MediaInOrder' /\ AnswerUnderWay' /\ WindowOver'
  BY <1>2 DEF MediaInOrder, AnswerUnderWay, WindowOver
<1>5. TimeCovers(p)' BY <1>2 DEF TimeCovers, NoProgress, TypeOK
<1> QED BY <1>1, <1>3, <1>4, <1>5 DEF IInv

(* Nothing happened to the messages.                                       *)
LEMMA SameMessages ==
  ASSUME TypeOK, UNCHANGED msgs
  PROVE  MessagesKept
<1>1. Len(msgs) \in Nat /\ \A i \in 1..Len(msgs) : msgs[i].age \in 0..Suppression
  BY PointerTypes
<1>2. Len(msgs) <= Len(msgs) /\ \A i \in 1..Len(msgs) : msgs[i].age <= msgs[i].age
  BY <1>1
<1> QED BY <1>2 DEF MessagesKept
----------------------------------------------------------------------------
(* Where nothing was recorded.                                             *)
LEMMA NothingRecorded ==
  /\ NoProgress \in Progress
  /\ NoBackoff \in [failures : 0..MaxFailures, left : 0..MaxFailures]
  /\ Suppression \in Ages
<1>1. Suppression \in Ages OBVIOUS
<1>2. NoProgress \in Progress BY <1>1 DEF NoProgress, Progress
<1> QED BY <1>1, <1>2, MaxFailuresAssumption DEF NoBackoff

(* The first state: a new ticket, and nothing answered.                    *)
LEMMA InitIInv == Init => IInv
<1> SUFFICES ASSUME Init PROVE IInv OBVIOUS
<1> USE DEF Init, InitWith
<1>1. Len(msgs) = 0 /\ msgs \in Seq(Message) BY EmptySeq
<1>2. TypeOK
  <2>1. /\ status \in {"open", "answered", "closed"} /\ pc \in PC
        /\ row \in Progress /\ p \in Progress
        /\ backoff \in [failures : 0..MaxFailures, left : 0..MaxFailures]
        /\ operatorAge \in Ages
    BY NothingRecorded DEF PC
  <2>2. /\ seen \in 0..0 /\ item \in 0..0 /\ posted \in 0..0 /\ relay \in -1..0
        /\ delivered \in SUBSET (1..0) /\ elsewhere \in 0..MaxInputs
    BY BoundsAssumption DEF NoRelay, NoId
  <2>3. rerun \in BOOLEAN /\ hot \in BOOLEAN /\ outages \in BOOLEAN /\ topic \in BOOLEAN
        /\ seenStatus \in {"open", "answered", "closed"}
    OBVIOUS
  <2> HIDE DEF Init, InitWith
  <2> QED BY <1>1, <2>1, <2>2, <2>3 DEF TypeOK, NoRelay
<1> USE DEF NoProgress, NoId
<1>3. WatermarksJustified BY <1>1 DEF WatermarksJustified
<1>4. RowStillGood /\ MediaInOrder /\ AnswerUnderWay /\ WindowOver
  BY <1>1 DEF RowStillGood, MediaInOrder, AnswerUnderWay, WindowOver, Informed
<1>5. TimeCovers(row) /\ TimeCovers(p) BY <1>1 DEF TimeCovers
<1> QED BY <1>2, <1>3, <1>4, <1>5 DEF IInv

(* A turn that ends, or dies, and leaves the ticket and the row as they    *)
(* are.                                                                    *)
LEMMA TurnEndsQuietly ==
  ASSUME IInv, NEW again \in BOOLEAN, EndTurn(again),
         UNCHANGED <<panel, row, delivered, elsewhere, outages, topic>>,
         relay' \in {relay, NoRelay},
         backoff' \in [failures : 0..MaxFailures, left : 0..MaxFailures],
         operatorAge' \in Ages, hot' \in BOOLEAN
  PROVE  IInv'
<1>1. TypeOK'
  <2>1. relay \in -1..Len(msgs) /\ -1 \in -1..Len(msgs) /\ 0 \in 0..Len(msgs)
    BY Types DEF IInv, TypeOK, NoRelay
  <2>2. UNCHANGED <<msgs, status, row, delivered, elsewhere, outages, topic>> BY DEF panel
  <2> QED BY <2>1, <2>2, NothingRecorded DEF IInv, TypeOK, EndTurn, PC, NoId, NoRelay
<1>2. MessagesKept BY SameMessages DEF IInv, panel
<1> QED BY <1>1, <1>2, TurnEnds DEF panel

(* What the answerer keeps in memory stays within its bounds.              *)
LEMMA MemoryTyped ==
  ASSUME TypeOK
  PROVE  Clear \/ ReplyFailed \/ UNCHANGED memory =>
           /\ backoff' \in [failures : 0..MaxFailures, left : 0..MaxFailures]
           /\ operatorAge' \in Ages /\ hot' \in BOOLEAN
<1>2. ASSUME ReplyFailed
      PROVE  backoff' \in [failures : 0..MaxFailures, left : 0..MaxFailures]
  <2>1. backoff.failures \in 0..MaxFailures BY DEF TypeOK
  <2>2. (IF backoff.failures < MaxFailures THEN backoff.failures + 1
                                           ELSE MaxFailures) \in 0..MaxFailures
    BY <2>1, MaxFailuresAssumption
  <2> QED BY <1>2, <2>2 DEF ReplyFailed
<1>3. Clear \/ ReplyFailed \/ UNCHANGED memory => operatorAge' \in Ages /\ hot' \in BOOLEAN
  BY DEF TypeOK, Clear, ReplyFailed, memory
<1> QED BY <1>2, <1>3, NothingRecorded DEF TypeOK, Clear, memory

(* The endings of a turn.                                                  *)
LEMMA EndingsPreserve ==
  ASSUME IInv,
         \/ ReadFails \/ GiveUp \/ NothingToDo \/ NotYet \/ OnlyMedia \/ StillBackingOff
         \/ HumanStays \/ RateLimited \/ StatusMoved \/ StaffWrote \/ CustomerWrote
         \/ PostRefused \/ Reconcile \/ ReconcileFails \/ Crash
  PROVE  IInv'
<1> USE DEF IInv
<1>0. rerun \in BOOLEAN /\ Len(msgs) \in Nat BY Types DEF TypeOK
<1>1. ASSUME NEW again \in BOOLEAN, EndTurn(again), TurnOnly, UNCHANGED <<row, delivered>>,
             Clear \/ ReplyFailed \/ UNCHANGED memory
      PROVE  IInv'
  BY <1>1, MemoryTyped, TurnEndsQuietly DEF TurnOnly
<1>2. CASE \/ ReadFails \/ GiveUp \/ NothingToDo \/ NotYet \/ OnlyMedia \/ StillBackingOff
           \/ HumanStays \/ RateLimited \/ StatusMoved \/ PostRefused \/ ReconcileFails
  BY <1>0, <1>1, <1>2
  DEF ReadFails, GiveUp, NothingToDo, NotYet, OnlyMedia, StillBackingOff, HumanStays,
      RateLimited, StatusMoved, PostRefused, ReconcileFails, Leave
<1>3. CASE CustomerWrote BY <1>1, <1>3 DEF CustomerWrote
<1>4. CASE Reconcile
  <2>1. (rerun \/ LastUser(Len(msgs)) > Last) \in BOOLEAN OBVIOUS
  <2> QED BY <1>1, <1>4, <2>1 DEF Reconcile
<1>5. CASE StaffWrote
  BY <1>0, <1>5, NothingRecorded, TurnEndsQuietly DEF StaffWrote, Leave, TurnOnly, TypeOK
<1>6. CASE Crash
  BY <1>6, NothingRecorded, TurnEndsQuietly DEF Crash
<1> QED BY <1>2, <1>3, <1>4, <1>5, <1>6

----------------------------------------------------------------------------
(* The steps of a turn that write nothing but its own variables, and the   *)
(* requests for one.                                                       *)

(* A turn is scheduled.                                                    *)
LEMMA SchedulePreserves == ASSUME IInv, Schedule PROVE IInv'
<1>1. TypeOK' BY DEF IInv, Schedule, Goto, TypeOK, PC, panel, memory
<1>2. MessagesKept /\ UNCHANGED <<msgs, row, delivered>>
  BY SameMessages DEF IInv, Schedule, panel
<1>3. WatermarksJustified' /\ TimeCovers(row)' /\ row'.mirrored <= Len(msgs')
  BY <1>1, <1>2, RowKept
<1>4. UNCHANGED <<seen, seenStatus, p, item, posted>> BY DEF Schedule
<1>5. TimeCovers(p)' BY <1>2, <1>4 DEF IInv, TimeCovers
<1>6. CASE pc' = "read"
  <2>1. RowStillGood' BY <1>3, <1>4, <1>2, <1>6 DEF IInv, RowStillGood, Informed
  <2>2. MediaInOrder' /\ AnswerUnderWay' /\ WindowOver'
    BY <1>6 DEF MediaInOrder, AnswerUnderWay, WindowOver
  <2> QED BY <1>1, <1>3, <1>5, <2>1, <2>2 DEF IInv
<1>7. CASE pc' = pc
  <2>1. p' = [p EXCEPT !.humanAge = p'.humanAge] BY <1>4, Types DEF IInv, Progress
  <2>2. row.mirrored <= row'.mirrored BY <1>2, Types DEF IInv
  <2> QED BY <1>1, <1>2, <1>3, <1>4, <1>5, <1>7, <2>1, <2>2, TurnKept DEF IInv, RowStillGood
<1> QED BY <1>6, <1>7 DEF Schedule, Goto

(* A step of the turn that moves on without writing what others read.      *)
LEMMA MovePreserves ==
  ASSUME IInv, TypeOK', UNCHANGED <<msgs, row, delivered, seen, seenStatus, p>>,
         pc' \in Informed => pc \in Informed,
         MediaInOrder', AnswerUnderWay', WindowOver'
  PROVE  IInv'
<1>1. MessagesKept BY SameMessages DEF IInv
<1>2. WatermarksJustified' /\ TimeCovers(row)' /\ row'.mirrored <= Len(msgs')
  BY <1>1, RowKept
<1>3. TimeCovers(p)' BY DEF IInv, TimeCovers
<1>4. RowStillGood' BY <1>2 DEF IInv, RowStillGood
<1> QED BY <1>2, <1>3, <1>4 DEF IInv

(* The turn reads the ticket.                                              *)
LEMMA ReadTicketPreserves == ASSUME IInv, ReadTicket PROVE IInv'
<1>1. UNCHANGED <<msgs, row, delivered, p>> BY DEF ReadTicket, TurnOnly, panel
<1>2. TypeOK'
  BY Types DEF IInv, ReadTicket, TurnOnly, Goto, TypeOK, PC, panel, memory
<1>3. MessagesKept BY <1>1, SameMessages DEF IInv
<1>4. WatermarksJustified' /\ TimeCovers(row)' /\ row'.mirrored <= Len(msgs')
  BY <1>1, <1>2, <1>3, RowKept
<1>5. pc' = "progress" BY DEF ReadTicket, Goto
<1>6. RowStillGood' BY <1>1, <1>4, <1>5 DEF IInv, RowStillGood, Informed
<1>7. MediaInOrder' /\ AnswerUnderWay' /\ WindowOver'
  BY <1>5 DEF MediaInOrder, AnswerUnderWay, WindowOver
<1>8. TimeCovers(p)' BY <1>1 DEF IInv, TimeCovers
<1> QED BY <1>2, <1>4, <1>6, <1>7, <1>8 DEF IInv

(* The turn reads the row of its ticket.                                   *)
LEMMA ReadProgressPreserves == ASSUME IInv, ReadProgress PROVE IInv'
<1>1. UNCHANGED <<msgs, row, delivered>> /\ p' = row /\ pc' = "resolve"
  BY DEF ReadProgress, TurnOnly, Goto, panel
<1>2. TypeOK' BY DEF IInv, ReadProgress, TurnOnly, Goto, TypeOK, PC, panel, memory
<1>3. MessagesKept BY <1>1, SameMessages DEF IInv
<1>4. WatermarksJustified' /\ TimeCovers(row)' /\ row'.mirrored <= Len(msgs')
  BY <1>1, <1>2, <1>3, RowKept
<1>5. RowStillGood' BY <1>1, <1>4, Types DEF IInv, RowStillGood
<1>6. MediaInOrder' /\ AnswerUnderWay' /\ WindowOver'
  BY <1>1 DEF MediaInOrder, AnswerUnderWay, WindowOver
<1>7. TimeCovers(p)' BY <1>1 DEF IInv, TimeCovers
<1> QED BY <1>2, <1>4, <1>5, <1>6, <1>7 DEF IInv

(* Nothing left to forward, or the upload failed.                          *)
LEMMA ToDecidePreserves == ASSUME IInv, NoMedia \/ ForwardFails PROVE IInv'
<1>1. /\ UNCHANGED <<msgs, row, delivered, seen, seenStatus, p>>
      /\ pc \in Informed /\ pc' = "decide"
  BY DEF NoMedia, ForwardFails, TurnOnly, Goto, panel, Informed
<1>2. TypeOK'
  BY DEF IInv, NoMedia, ForwardFails, TurnOnly, Goto, TypeOK, PC, panel, memory
<1>3. MediaInOrder' /\ AnswerUnderWay' /\ WindowOver'
  BY <1>1 DEF MediaInOrder, AnswerUnderWay, WindowOver
<1> QED BY <1>1, <1>2, <1>3, MovePreserves

(* The decision to answer: no operator within the window.                  *)
LEMMA StartAnswerPreserves == ASSUME IInv, StartAnswer PROVE IInv'
<1>1. /\ UNCHANGED <<msgs, row, delivered, seen, seenStatus, p, item, posted>>
      /\ pc = "decide" /\ pc' \in {"post", "model"} /\ Last # 0
  BY DEF StartAnswer, MayAnswer, TurnOnly, Goto, panel
<1>2. TypeOK'
  BY <1>1 DEF IInv, StartAnswer, TurnOnly, Goto, TypeOK, PC, panel, memory
<1>3. Last' = Last
  BY <1>1, <1>2, SameMessages, TurnOperatorsKept DEF IInv
<1>4. MediaInOrder' /\ AnswerUnderWay'
  BY <1>1, <1>3 DEF MediaInOrder, AnswerUnderWay
<1>5. WindowOver'
  <2> SUFFICES ASSUME p.bot # 0, NEW i \in p.bot + 1 .. seen, msgs[i].kind = "human"
               PROVE  msgs[i].age = Suppression
    BY <1>1 DEF WindowOver
  <2> TypeOK BY DEF IInv
  <2>0. /\ i \in Nat \ {0} /\ i \in 1..seen
        /\ p.human \in Nat /\ p.humanAge \in Nat
    BY RowTypes, PointerTypes
  <2>1. i <= LatestHuman /\ LatestHuman \in Nat
    BY <2>0, LatestHumanIsLatest, TurnOperators
  <2>2. i \in 1..p.human
    <3>1. ~HumanNews BY DEF StartAnswer
    <3> QED BY <2>0, <2>1, <3>1 DEF HumanNews
  <2>3. p.humanAge = Suppression
    <3>1. LatestHuman # 0 BY <2>0, <2>1
    <3>2. ~HumanRecentlyActive(p) BY <3>1 DEF StartAnswer, HumanOwns, OperatorActive
    <3>3. p.humanAge \in 0..Suppression BY Types
    <3> QED BY <3>2, <3>3 DEF HumanRecentlyActive
  <2>4. msgs[i].age >= p.humanAge BY <2>2 DEF IInv, TimeCovers
  <2>5. msgs[i].age \in 0..Suppression
    <3>1. p.human <= Len(msgs) BY DEF IInv, TimeCovers
    <3>2. i \in 1..Len(msgs) BY <2>0, <2>2, <3>1, PointerTypes
    <3> QED BY <3>2, PointerTypes
  <2> QED BY <2>3, <2>4, <2>5
<1>6. pc \in Informed BY <1>1 DEF Informed
<1> QED BY <1>1, <1>2, <1>4, <1>5, <1>6, MovePreserves

(* The ticket is read again before the answer is sent.                     *)
LEMMA StillCurrentPreserves == ASSUME IInv, StillCurrent PROVE IInv'
<1>1. /\ UNCHANGED <<msgs, row, delivered, seen, seenStatus, p, item, posted>>
      /\ pc = "model" /\ pc' = "post"
  BY DEF StillCurrent, TurnOnly, Goto, panel   \* seen' = Len(msgs) = seen
<1>2. TypeOK' BY <1>1 DEF IInv, StillCurrent, TurnOnly, Goto, TypeOK, PC, panel, memory
<1>3. Last' = Last
  BY <1>1, <1>2, SameMessages, TurnOperatorsKept DEF IInv
<1>4. MediaInOrder' /\ AnswerUnderWay'
  BY <1>1, <1>3 DEF IInv, MediaInOrder, AnswerUnderWay
<1>5. WindowOver' BY <1>1 DEF IInv, WindowOver
<1>6. pc \in Informed BY <1>1 DEF Informed
<1> QED BY <1>1, <1>2, <1>4, <1>5, <1>6, MovePreserves

----------------------------------------------------------------------------
(* The steps that write the row.                                           *)

(* The attachments of a turn: pending before the first upload, and an      *)
(* upload marks one attachment after all the earlier ones.                 *)
LEMMA MarkPendingPreserves == ASSUME IInv, MarkPending PROVE IInv'
<1>1. /\ UNCHANGED <<msgs, delivered, seen, seenStatus, p, posted>>
      /\ pc = "resolve" /\ pc' = "forward" /\ Unmirrored # {}
      /\ item' = Min(Unmirrored)
  BY DEF MarkPending, TurnOnly, Goto, panel
<1>2. /\ Unmirrored \in SUBSET (1..seen) /\ seen \in Nat
      /\ Max(Unmirrored) \in Nat
      /\ item' \in Unmirrored /\ \A i \in Unmirrored : item' <= i
  <2>1. Unmirrored \in SUBSET (1..seen) /\ seen \in Nat
    BY TurnOperators, Types DEF IInv
  <2>2. Max(Unmirrored) \in Unmirrored BY <1>1, <2>1, MaxOfIds
  <2>3. item' \in Unmirrored /\ \A i \in Unmirrored : item' <= i
    BY <1>1, <2>1, MinOfIds
  <2>4. Max(Unmirrored) \in 1..seen BY <2>1, <2>2, Zenon
  <2>5. Max(Unmirrored) \in Nat BY <2>1, <2>4
  <2> QED BY <2>1, <2>3, <2>5
<1>3. /\ row' \in Progress /\ row' = [row EXCEPT !.pending = row'.pending]
  <2>1. row \in Progress /\ row.pending \in Nat BY Types, RowTypes DEF IInv
  <2>2. Max({row.pending, Max(Unmirrored)}) \in Nat BY <1>2, <2>1, MaxOfTwo
  <2>3. row' = [row EXCEPT !.pending = Max({row.pending, Max(Unmirrored)})]
    BY DEF MarkPending, RecordPendingMedia
  <2> QED BY <2>1, <2>2, <2>3 DEF Progress
<1>4. /\ row'.answered = row.answered /\ row'.bot = row.bot /\ row'.human = row.human
      /\ row'.humanAge = row.humanAge /\ row'.mirrored = row.mirrored
  BY <1>3, Types DEF IInv, Progress
<1>5. TypeOK'
  <2>1. item' \in 0..Len(msgs) BY <1>2, Types DEF IInv
  <2> QED BY <1>1, <1>3, <2>1
  DEF IInv, MarkPending, TurnOnly, Goto, TypeOK, PC, panel, memory
<1>6. Unmirrored' = Unmirrored
  BY <1>1, <1>5, SameMessages, TurnOperatorsKept DEF IInv
<1>7. MediaInOrder'
  <2>1. \A i \in Unmirrored : ~(i < item') BY <1>2
  <2> QED BY <1>1, <1>2, <1>6, <2>1 DEF MediaInOrder
<1>8. WatermarksJustified' /\ TimeCovers(row)' /\ TimeCovers(p)'
  BY <1>1, <1>4 DEF IInv, WatermarksJustified, TimeCovers, HasMedia, IsUser
<1>9. RowStillGood' /\ AnswerUnderWay' /\ WindowOver'
  BY <1>1, <1>4 DEF IInv, RowStillGood, AnswerUnderWay, WindowOver, Informed
<1> QED BY <1>5, <1>7, <1>8, <1>9 DEF IInv

(* An attachment is forwarded to the topic.                                *)
LEMMA ForwardMediaPreserves == ASSUME IInv, ForwardMedia PROVE IInv'
<1>1. /\ UNCHANGED <<msgs, row, seen, seenStatus, p, item, posted>>
      /\ pc = "forward" /\ pc' = "mark" /\ delivered' = delivered \cup {item}
  BY DEF ForwardMedia, TurnOnly, Goto, panel
<1>2. item \in Unmirrored BY <1>1 DEF IInv, MediaInOrder
<1>3. TypeOK'
  <2>1. TypeOK BY DEF IInv
  <2>2. Unmirrored \subseteq 1..seen BY <2>1, TurnOperators
  <2>3. item \in 1..Len(msgs) BY <1>2, <2>1, <2>2, PointerTypes
  <2> QED BY <1>1, <2>1, <2>3
    DEF ForwardMedia, TurnOnly, Goto, TypeOK, PC, panel, memory
<1>4. MessagesKept BY <1>1, SameMessages DEF IInv
<1>5. WatermarksJustified' /\ TimeCovers(row)' /\ row'.mirrored <= Len(msgs')
  BY <1>1, <1>3, <1>4, RowKept
<1>6. Unmirrored' = Unmirrored
  BY <1>1, <1>3, <1>4, TurnOperatorsKept DEF IInv
<1>7. MediaInOrder' BY <1>1, <1>2, <1>6 DEF IInv, MediaInOrder
<1>8. RowStillGood' /\ AnswerUnderWay' /\ WindowOver' /\ TimeCovers(p)'
  BY <1>1 DEF IInv, RowStillGood, AnswerUnderWay, WindowOver, Informed, TimeCovers
<1> QED BY <1>3, <1>5, <1>7, <1>8 DEF IInv

(* Every attachment up to the marked one is in the topic.                  *)
LEMMA DeliveredUpToItem ==
  ASSUME IInv, pc = "mark", NEW i \in 1..Len(msgs), HasMedia(i), i <= item
  PROVE  i \in delivered
<1>1. item \in Unmirrored /\ item \in delivered /\ item \in 1..seen
  BY TurnOperators DEF IInv, MediaInOrder
<1>2. CASE i <= p.mirrored
  BY <1>2, Types DEF IInv, RowStillGood, WatermarksJustified
<1>3. CASE i > p.mirrored
  <2>1. i \in Unmirrored BY <1>1, <1>3, Types DEF IInv, Unmirrored
  <2>2. i = item \/ i < item BY <1>1
  <2> QED BY <1>1, <2>1, <2>2 DEF IInv, MediaInOrder
<1> QED BY <1>2, <1>3, Types DEF IInv

(* The row notes what was mirrored.                                        *)
LEMMA MarkMirroredPreserves == ASSUME IInv, MarkMirrored PROVE IInv'
<1> DEFINE rest == {i \in Unmirrored : i > item}
           m == IF row.mirrored >= item THEN row.mirrored ELSE item
<1>1. /\ UNCHANGED <<msgs, delivered, seen, seenStatus, p, posted>>
      /\ pc = "mark" /\ pc' = IF rest = {} THEN "decide" ELSE "forward"
      /\ item' = IF rest = {} THEN item ELSE Min(rest)
  BY DEF MarkMirrored, TurnOnly, Goto, panel
<1>2. item \in Unmirrored /\ item \in 1..seen /\ seen \in Nat /\ item \in delivered
  BY <1>1, TurnOperators, Types DEF IInv, MediaInOrder
<1>3. m \in Nat /\ m <= Len(msgs) /\ m >= row.mirrored
  BY <1>2, Types DEF IInv, RowStillGood
<1>4. Max({row.mirrored, item}) = m
  <2>1. row.mirrored \in Nat /\ item \in Nat BY Types DEF IInv
  <2> QED BY <2>1, MaxOfTwo
<1> HIDE DEF m
<1>5. /\ row' \in Progress /\ row'.mirrored = m
      /\ row'.answered = row.answered /\ row'.bot = row.bot /\ row'.human = row.human
      /\ row'.humanAge = row.humanAge
  BY <1>3, <1>4, Types DEF IInv, MarkMirrored, RecordMirroredMedia, Progress
<1>6. rest # {} => item' \in rest /\ \A i \in rest : item' <= i
  <2>1. rest \in SUBSET (1..seen) BY TurnOperators DEF IInv
  <2> HIDE DEF rest
  <2> QED BY <1>1, <1>2, <2>1, MinOfIds
<1>7. item' \in 0..Len(msgs)
  <2>1. rest \in SUBSET (1..seen) BY TurnOperators DEF IInv
  <2> HIDE DEF rest
  <2>2. item' \in 1..seen BY <1>1, <1>2, <1>6, <2>1
  <2> QED BY <2>2, Types DEF IInv
<1>8. TypeOK'
  BY <1>1, <1>5, <1>7 DEF IInv, MarkMirrored, TurnOnly, Goto, TypeOK, PC, panel, memory
<1>9. Unmirrored' = Unmirrored
  BY <1>1, <1>8, SameMessages, TurnOperatorsKept DEF IInv
<1>10. MediaInOrder'
  <2> SUFFICES ASSUME rest # {}
               PROVE  /\ item' \in Unmirrored
                      /\ \A i \in Unmirrored : i < item' => i \in delivered
    BY <1>1, <1>9 DEF MediaInOrder
  <2>1. ASSUME NEW i \in Unmirrored, i < item' PROVE i \in delivered
    <3>1. i <= item
      <4>1. i \in Nat /\ item \in Nat /\ item' \in Nat
        BY <1>7, TurnOperators, Types DEF IInv
      <4>2. i > item => item' <= i BY <1>6
      <4> QED BY <2>1, <4>1, <4>2
    <3>2. i \in 1..Len(msgs) /\ HasMedia(i) BY Types DEF IInv, Unmirrored
    <3> QED BY <1>1, <3>1, <3>2, DeliveredUpToItem
  <2> QED BY <1>6, <2>1
<1>11. WatermarksJustified'
  <2>1. ASSUME NEW i \in 1..Len(msgs), HasMedia(i), i <= m PROVE i \in delivered
    BY <1>1, <2>1, DeliveredUpToItem DEF IInv, WatermarksJustified, m
  <2> QED BY <1>1, <1>5, <2>1 DEF IInv, WatermarksJustified, HasMedia, IsUser
<1>12. RowStillGood' /\ AnswerUnderWay' /\ WindowOver'
  BY <1>1, <1>3, <1>5, Types
  DEF IInv, RowStillGood, AnswerUnderWay, WindowOver, Informed
<1>13. TimeCovers(row)' /\ TimeCovers(p)' BY <1>1, <1>5 DEF IInv, TimeCovers
<1> QED BY <1>8, <1>10, <1>11, <1>12, <1>13 DEF IInv

(* A human reply is recorded, by the turn or by the relay.                 *)
LEMMA HumanRecorded ==
  ASSUME IInv, NEW m \in 1..Len(msgs), ~IsUser(m), row' = RecordHumanReply(row, m),
         UNCHANGED <<msgs, delivered>>
  PROVE  /\ row' \in Progress
         /\ row'.answered = row.answered /\ row'.bot = row.bot
         /\ row'.mirrored = row.mirrored /\ row'.human \in Nat
         /\ WatermarksJustified' /\ TimeCovers(row)'
<1> DEFINE h == Max({row.human, m})
<1>1. h \in Nat /\ h <= Len(msgs) /\ h \in {row.human, m}
  <2>1. row.human \in Nat /\ m \in Nat /\ row.human <= Len(msgs) /\ m <= Len(msgs)
    BY Types DEF IInv, TimeCovers
  <2> QED BY <2>1, MaxOfTwo
<1>2. /\ row' \in Progress
      /\ row'.answered = row.answered /\ row'.bot = row.bot
      /\ row'.mirrored = row.mirrored
      /\ row'.human = h /\ row'.humanAge = 0
  <2>1. row' = [row EXCEPT !.human = h, !.humanAge = 0] BY DEF RecordHumanReply
  <2>2. row \in Progress /\ 0 \in Ages BY Types DEF IInv
  <2> HIDE DEF h
  <2> QED BY <1>1, <2>1, <2>2 DEF Progress
<1> HIDE DEF h
<1>3. WatermarksJustified'
  <2>1. h # 0 => h <= Len(msgs) /\ ~IsUser(h)
    BY <1>1 DEF IInv, WatermarksJustified
  <2> QED BY <1>2, <2>1 DEF IInv, WatermarksJustified, HasMedia, IsUser
<1>4. TimeCovers(row)'
  <2> TypeOK BY DEF IInv
  <2>1. \A i \in 1..h : i \in 1..Len(msgs) BY <1>1, PointerTypes
  <2>2. \A i \in 1..h : msgs[i].age >= 0 BY <2>1, PointerTypes
  <2> QED BY <1>1, <1>2, <2>2 DEF TimeCovers
<1> QED BY <1>1, <1>2, <1>3, <1>4

(* An operator writes in the ticket.                                       *)
LEMMA HumanAppearsPreserves == ASSUME IInv, HumanAppears PROVE IInv'
<1>1. LatestHuman \in 1..Len(msgs) /\ ~IsUser(LatestHuman)
  <2>1. TypeOK /\ LatestHuman > p.human BY DEF IInv, HumanAppears, HumanNews
  <2>2. LatestHuman \in 0..seen /\ (LatestHuman # 0 => ~IsUser(LatestHuman))
    BY <2>1, TurnOperators
  <2>3. seen \in Nat /\ seen <= Len(msgs) /\ Len(msgs) \in Nat /\ p.human \in Nat
    BY <2>1, RowTypes, PointerTypes
  <2> QED BY <2>1, <2>2, <2>3
<1>2. UNCHANGED <<msgs, delivered>> BY DEF HumanAppears, TurnOnly, panel
<1>3. /\ row' \in Progress
      /\ row'.mirrored = row.mirrored
      /\ WatermarksJustified' /\ TimeCovers(row)'
  BY <1>1, <1>2, HumanRecorded DEF HumanAppears
<1>4. pc' \in {"idle", "read"} /\ p' = NoProgress
  BY DEF HumanAppears, Leave, EndTurn
<1>5. TypeOK'
  <2>1. 0 \in Ages /\ 0 \in 0..Len(msgs) BY Types DEF IInv
  <2> QED BY <1>3, <1>4, <2>1, NothingRecorded
  DEF IInv, HumanAppears, TurnOnly, Leave, EndTurn, TypeOK, PC, panel, NoId
<1>6. RowStillGood'
  BY <1>2, <1>3, <1>4, Types DEF IInv, RowStillGood, NoProgress, Informed
<1>7. MediaInOrder' /\ AnswerUnderWay' /\ WindowOver'
  BY <1>4 DEF MediaInOrder, AnswerUnderWay, WindowOver
<1>8. TimeCovers(p)' BY <1>2, <1>4, Types DEF IInv, TimeCovers, NoProgress
<1> QED BY <1>3, <1>5, <1>6, <1>7, <1>8 DEF IInv

(* The answer is recorded: the reply is there.                             *)
LEMMA RecordPreserves == ASSUME IInv, Record PROVE IInv'
<1>1. /\ UNCHANGED <<msgs, delivered, seen, seenStatus, p, item, posted>>
      /\ pc = "record" /\ pc' = "reconcile"
      /\ row' = [row EXCEPT !.bot = IF posted = NoId THEN row.bot ELSE posted,
                            !.answered = Last]
  BY DEF Record, TurnOnly, Goto, panel, RecordTicketReply
<1>2. Last \in Nat BY TurnOperators, Types DEF IInv
<1>3. /\ row' \in Progress /\ row'.mirrored = row.mirrored
      /\ row'.human = row.human /\ row'.humanAge = row.humanAge
      /\ row'.bot = (IF posted = NoId THEN row.bot ELSE posted)
      /\ row'.answered = Last
  <2>1. row \in Progress /\ posted \in Nat BY Types DEF IInv
  <2> QED BY <1>1, <1>2, <2>1 DEF Progress
<1>4. TypeOK'
  <2>1. /\ backoff' \in [failures : 0..MaxFailures, left : 0..MaxFailures]
        /\ operatorAge' \in Ages /\ hot' \in BOOLEAN
    BY MemoryTyped DEF IInv, Record
  <2> QED BY <1>1, <1>3, <2>1 DEF IInv, Record, Goto, TurnOnly, panel, TypeOK, PC
<1>5. WatermarksJustified'
  BY <1>1, <1>3, Types
  DEF IInv, WatermarksJustified, AnswerUnderWay, NoId, HasMedia, IsUser
<1>6. RowStillGood' BY <1>1, <1>3 DEF IInv, RowStillGood, Informed
<1>7. MediaInOrder' /\ AnswerUnderWay' /\ WindowOver'
  BY <1>1 DEF MediaInOrder, AnswerUnderWay, WindowOver
<1>8. TimeCovers(row)' /\ TimeCovers(p)' BY <1>1, <1>3 DEF IInv, TimeCovers
<1> QED BY <1>4, <1>5, <1>6, <1>7, <1>8 DEF IInv

----------------------------------------------------------------------------
(* The steps that append a message, and the clock.                         *)

(* The ticket grows by one message.                                        *)
LEMMA AppendGrows ==
  ASSUME TypeOK, NEW kind \in UserKinds \cup {"bot", "human"}, NEW re \in Nat,
         msgs' = Append1(kind, re)
  PROVE  /\ msgs' \in Seq(Message) /\ Len(msgs') = Len(msgs) + 1
         /\ msgs'[Len(msgs) + 1] = [kind |-> kind, re |-> re, age |-> 0]
         /\ MessagesKept
<1> DEFINE m == [kind |-> kind, re |-> re, age |-> 0]
<1>1. m \in Message BY DEF Message
<1>2. msgs \in Seq(Message) BY DEF TypeOK
<1> HIDE DEF m
<1>3. msgs' = Append(msgs, m) BY DEF Append1, m
<1>4. /\ msgs' \in Seq(Message) /\ Len(msgs') = Len(msgs) + 1
      /\ msgs'[Len(msgs) + 1] = m
      /\ \A i \in 1..Len(msgs) : msgs'[i] = msgs[i]
  BY <1>1, <1>2, <1>3
<1>5. MessagesKept
  <2>1. Len(msgs) <= Len(msgs') BY <1>4, PointerTypes
  <2>2. \A i \in 1..Len(msgs) : msgs[i].age <= msgs'[i].age BY <1>4, PointerTypes
  <2> QED BY <1>4, <2>1, <2>2 DEF MessagesKept
<1> QED BY <1>4, <1>5 DEF m

(* Somebody else did something to the ticket, the clock or the memory.     *)
LEMMA OthersPreserve ==
  ASSUME IInv, TypeOK', MessagesKept,
         UNCHANGED <<pc, seen, seenStatus, item, posted, delivered>>,
         p' = [p EXCEPT !.humanAge = p'.humanAge], row'.mirrored = row.mirrored,
         row'.answered = row.answered, row'.bot = row.bot,
         WatermarksJustified', TimeCovers(row)', TimeCovers(p)'
  PROVE  IInv'
<1>1. row.mirrored <= row'.mirrored BY Types DEF IInv
<1>2. /\ p'.mirrored <= row'.mirrored
      /\ pc' \in Informed => p'.answered = row'.answered /\ p'.bot = row'.bot
      /\ MediaInOrder' /\ AnswerUnderWay' /\ WindowOver'
  BY <1>1, TurnKept
<1>3. row'.mirrored <= Len(msgs')
  BY Types, TypesNext DEF IInv, RowStillGood, MessagesKept
<1> QED BY <1>2, <1>3 DEF IInv, RowStillGood

(* Those that write neither the row nor the turn's variables.              *)
LEMMA BystandersPreserve ==
  ASSUME IInv, TypeOK', MessagesKept, UNCHANGED <<row, turn, delivered>>
  PROVE  IInv'
<1>1. UNCHANGED <<pc, seen, seenStatus, p, item, posted>> BY DEF turn
<1>2. WatermarksJustified' /\ TimeCovers(row)' BY RowKept
<1>3. TimeCovers(p)'
  <2> TypeOK BY DEF IInv
  <2>0. p.human <= Len(msgs) BY DEF IInv, TimeCovers
  <2>1. /\ p.human \in Nat /\ p.humanAge \in Nat
        /\ p.human <= Len(msgs) /\ p.human <= Len(msgs')
    BY <2>0, RowTypes, MessageTypes
  <2>2. ASSUME NEW i \in 1..p.human, msgs'[i].kind = "human"
        PROVE  msgs'[i].age >= p.humanAge
    <3>1. i \in 1..Len(msgs) BY <2>1, MessageTypes
    <3>2. msgs[i].kind = "human" BY <2>2, <3>1 DEF MessagesKept
    <3>3. msgs[i].age >= p.humanAge BY <3>2 DEF IInv, TimeCovers
    <3> QED BY <2>1, <3>1, <3>3, MessageTypes
  <2> QED BY <1>1, <2>1, <2>2 DEF TimeCovers
<1>4. p' = [p EXCEPT !.humanAge = p'.humanAge] BY <1>1, Types DEF IInv, Progress
<1> QED BY <1>1, <1>2, <1>3, <1>4, OthersPreserve

(* What pointed into the ticket still does, and the new message too.       *)
LEMMA PointersGrow ==
  ASSUME TypeOK, Len(msgs') = Len(msgs) + 1
  PROVE  /\ seen \in 0..Len(msgs') /\ item \in 0..Len(msgs') /\ posted \in 0..Len(msgs')
         /\ 0 \in 0..Len(msgs') /\ Len(msgs) + 1 \in 1..Len(msgs')
         /\ {relay, NoId, Len(msgs) + 1} \subseteq NoRelay..Len(msgs')
         /\ delivered \in SUBSET (1..Len(msgs'))
<1>1. Len(msgs) \in Nat BY Types
<1>2. \A x \in 0..Len(msgs) : x \in 0..Len(msgs') BY <1>1
<1>3. \A x \in 1..Len(msgs) : x \in 1..Len(msgs') BY <1>1
<1>4. delivered \in SUBSET (1..Len(msgs)) /\ relay \in -1..Len(msgs)
  BY DEF TypeOK, NoRelay
<1>5. relay \in -1..Len(msgs') /\ 0 \in -1..Len(msgs') /\ Len(msgs) + 1 \in -1..Len(msgs')
  BY <1>1, <1>4
<1>6. 0 \in 0..Len(msgs') /\ Len(msgs) + 1 \in 1..Len(msgs') BY <1>1
<1>7. delivered \in SUBSET (1..Len(msgs')) BY <1>3, <1>4, Zenon
<1>8. {relay, NoId, Len(msgs) + 1} \subseteq NoRelay..Len(msgs')
  BY <1>5 DEF NoRelay, NoId
<1> QED BY <1>2, <1>6, <1>7, <1>8, Types

(* The bot's reply: accepted, and known to the turn or not.                *)
LEMMA PostPreserves == ASSUME IInv, PostAccepted \/ PostLost PROVE IInv'
<1>1. /\ pc = "post" /\ msgs' = Append1("bot", Last) /\ status' = "answered"
      /\ UNCHANGED <<row, relay, delivered, elsewhere, outages, topic>>
  BY DEF PostAccepted, PostLost, Posts
<1>2. Last \in Nat BY TurnOperators, Types DEF IInv
<1>3. /\ msgs' \in Seq(Message) /\ Len(msgs') = Len(msgs) + 1
      /\ msgs'[Len(msgs) + 1] = [kind |-> "bot", re |-> Last, age |-> 0]
      /\ MessagesKept
  BY <1>1, <1>2, AppendGrows DEF IInv
<1>4. /\ seen \in 0..Len(msgs') /\ item \in 0..Len(msgs') /\ 0 \in 0..Len(msgs')
      /\ Len(msgs) + 1 \in 1..Len(msgs')
      /\ relay \in NoRelay..Len(msgs') /\ delivered \in SUBSET (1..Len(msgs'))
  BY <1>3, PointersGrow DEF IInv
<1>5. CASE PostLost
  <2>1. /\ EndTurn(rerun) /\ rerun \in BOOLEAN /\ ReplyFailed
    BY <1>5 DEF IInv, TypeOK, PostLost, Leave
  <2>2. TypeOK'
    BY <1>1, <1>3, <1>4, <2>1, MemoryTyped, NothingRecorded
    DEF IInv, TypeOK, EndTurn, PC, NoId
  <2> QED BY <1>1, <1>3, <2>1, <2>2, TurnEnds
<1>6. CASE PostAccepted
  <2>1. /\ UNCHANGED <<seen, seenStatus, p, item, memory, rerun>>
        /\ pc' = "record" /\ posted' \in {0, Len(msgs) + 1}
    BY <1>6 DEF PostAccepted, Goto, NoId
  <2>2. posted' \in 0..Len(msgs') BY <1>4, <2>1
  <2>3. TypeOK' BY <1>1, <1>3, <1>4, <2>1, <2>2 DEF IInv, TypeOK, PC, memory
  <2>4. WatermarksJustified' /\ TimeCovers(row)' /\ row'.mirrored <= Len(msgs')
    BY <1>1, <1>3, <2>3, RowKept
  <2>5. RowStillGood' BY <1>1, <2>1, <2>4 DEF IInv, RowStillGood, Informed
  <2>6. Last' = Last BY <1>3, <2>1, <2>3, TurnOperatorsKept DEF IInv
  <2>7. AnswerUnderWay'
    BY <1>1, <1>3, <1>4, <2>1, <2>6 DEF IInv, AnswerUnderWay, NoId
  <2>8. MediaInOrder' /\ WindowOver' BY <2>1 DEF MediaInOrder, WindowOver
  <2>9. TimeCovers(p)'
    <3>1. /\ p.human \in Nat /\ p.humanAge \in Nat /\ Len(msgs) \in Nat
          /\ p.human <= Len(msgs) /\ p.human <= Len(msgs')
      BY <1>3, Types DEF IInv, TimeCovers
    <3>2. \A i \in 1..p.human : i \in 1..Len(msgs) BY <3>1
    <3>3. \A i \in 1..p.human : msgs'[i] = msgs[i]
      BY <1>1, <3>2, Types DEF IInv, TypeOK, Append1
    <3> QED BY <2>1, <3>1, <3>3 DEF IInv, TimeCovers
  <2> QED BY <2>3, <2>4, <2>5, <2>7, <2>8, <2>9 DEF IInv
<1> QED BY <1>5, <1>6

(* Messages of the customer and of human operators.                        *)
LEMMA OthersWritePreserves ==
  ASSUME IInv, \/ RelayPosts \/ StaffWrites
               \/ \E kind \in Kinds : CustomerWrites(kind)
  PROVE  IInv'
<1>1. PICK kind \in UserKinds \cup {"human"} :
        msgs' = Append1(kind, 0) /\ status' \in {"open", "answered"}
  BY KindsAssumption DEF RelayPosts, StaffWrites, StaffAppends, CustomerWrites
<1>2. UNCHANGED <<row, rerun, memory, turn, delivered, elsewhere, outages, topic>>
  BY DEF RelayPosts, StaffWrites, CustomerWrites, Outside
<1>3. /\ msgs' \in Seq(Message) /\ Len(msgs') = Len(msgs) + 1 /\ MessagesKept
  BY <1>1, AppendGrows DEF IInv
<1>4. relay' \in NoRelay..Len(msgs')
  <2>1. relay' \in {relay, NoId, Len(msgs) + 1}
    BY DEF RelayPosts, StaffWrites, CustomerWrites
  <2> QED BY <1>3, <2>1, PointersGrow DEF IInv
<1>5. /\ seen \in 0..Len(msgs') /\ item \in 0..Len(msgs') /\ posted \in 0..Len(msgs')
      /\ delivered \in SUBSET (1..Len(msgs'))
  BY <1>3, PointersGrow DEF IInv
<1>6. TypeOK' BY <1>1, <1>2, <1>3, <1>4, <1>5 DEF IInv, TypeOK, memory, turn
<1> QED BY <1>2, <1>3, <1>6, BystandersPreserve

(* The memory and the clock of the rate limiter; the ticket is closed.     *)
LEMMA MemoryPreserves ==
  ASSUME IInv, \/ StaffCloses \/ TelegramOperator \/ TopicDeleted
               \/ TelegramStart \/ TelegramTurn \/ Cool
  PROVE  IInv'
<1>1. UNCHANGED <<msgs, row, turn, delivered, rerun, relay, backoff, outages>>
  BY DEF StaffCloses, TelegramOperator, TopicDeleted, TelegramStart, TelegramTurn, Cool,
         Elsewhere, Outside, panel, memory
<1>2. /\ elsewhere' \in 0..MaxInputs
  <2>1. CASE Elsewhere
    <3> DEFINE S == {i \in 1..Len(msgs) : msgs[i].kind # "bot"}
    <3>1. IsFiniteSet(S)
      <4>1. IsFiniteSet(1..Len(msgs)) BY Types, FS_Interval DEF IInv
      <4> QED BY <4>1, FS_Subset
    <3>2. Cardinality(S) \in Nat BY <3>1, FS_CardinalityType
    <3> HIDE DEF S
    <3>3. elsewhere + Cardinality(S) < MaxInputs BY <2>1 DEF Elsewhere, Inputs, S
    <3>4. elsewhere' = elsewhere + 1 /\ elsewhere \in 0..MaxInputs
      BY <2>1 DEF Elsewhere, IInv, TypeOK
    <3> QED BY <3>2, <3>3, <3>4, BoundsAssumption
  <2>2. CASE UNCHANGED elsewhere BY <2>2 DEF IInv, TypeOK
  <2> QED BY <2>1, <2>2
      DEF StaffCloses, TelegramOperator, TopicDeleted, TelegramStart, TelegramTurn, Cool,
          Outside
<1>3. /\ status' \in {"open", "answered", "closed"} /\ operatorAge' \in Ages
      /\ hot' \in BOOLEAN /\ topic' \in BOOLEAN
  <2>1. 0 \in Ages BY Types DEF IInv
  <2>2. CASE StaffCloses BY <2>2 DEF IInv, TypeOK, StaffCloses, Outside, memory
  <2>3. CASE Cool BY <2>3 DEF IInv, TypeOK, Cool, panel
  <2>4. CASE TelegramOperator \/ TopicDeleted \/ TelegramStart \/ TelegramTurn
    BY <2>1, <2>4, NothingRecorded
    DEF IInv, TypeOK, TelegramOperator, TopicDeleted, TelegramStart, TelegramTurn,
        Elsewhere, panel
  <2> QED BY <2>2, <2>3, <2>4
<1>4. TypeOK' BY <1>1, <1>2, <1>3 DEF IInv, TypeOK, turn
<1>5. MessagesKept BY <1>1, SameMessages DEF IInv
<1> QED BY <1>1, <1>4, <1>5, BystandersPreserve

(* The relay records the operator's reply.                                 *)
LEMMA RelayRecordsPreserves == ASSUME IInv, RelayOfStaff, RelayRecords PROVE IInv'
<1>1. /\ UNCHANGED <<msgs, status, rerun, backoff, hot, turn, delivered, elsewhere,
                  outages, topic>>
      /\ operatorAge' = 0 /\ relay' = NoRelay
  BY DEF RelayRecords, panel
<1>2. /\ row' \in Progress /\ row'.mirrored = row.mirrored
      /\ row'.answered = row.answered /\ row'.bot = row.bot
      /\ WatermarksJustified' /\ TimeCovers(row)'
  <2>1. CASE row' = row
    BY <1>1, <2>1, Types DEF IInv, WatermarksJustified, TimeCovers, HasMedia, IsUser
  <2>2. CASE relay # NoId /\ row' = RecordHumanReply(row, relay)
    <3>1. relay \in 1..Len(msgs) /\ ~IsUser(relay)
      BY <2>2, Types DEF IInv, TypeOK, RelayRecords, RelayOfStaff, NoRelay, NoId
    <3> QED BY <1>1, <2>2, <3>1, HumanRecorded
  <2> QED BY <2>1, <2>2 DEF RelayRecords
<1>3. TypeOK'
  <2>1. 0 \in Ages /\ NoRelay \in NoRelay..Len(msgs) BY Types DEF IInv, NoRelay
  <2> QED BY <1>1, <1>2, <2>1 DEF IInv, TypeOK, turn
<1>4. UNCHANGED <<pc, seen, seenStatus, p, item, posted>> BY <1>1 DEF turn
<1>5. TimeCovers(p)' BY <1>1, <1>4 DEF IInv, TimeCovers
<1>6. p' = [p EXCEPT !.humanAge = p'.humanAge] BY <1>4, Types DEF IInv, Progress
<1>7. MessagesKept BY <1>1, SameMessages DEF IInv
<1> QED BY <1>1, <1>2, <1>3, <1>4, <1>5, <1>6, <1>7, OthersPreserve

(* Ages grow to the window and stay there, and keep their order.           *)
LEMMA OlderProperties ==
  ASSUME NEW a \in Ages
  PROVE  /\ Older(a) \in Ages /\ a <= Older(a)
         /\ Older(Suppression) = Suppression
         /\ \A b \in Ages : a >= b => Older(a) >= Older(b)
BY DEF Older

(* Human messages get older, and nothing else happens to messages.         *)
LEMMA TickKeepsMessages ==
  ASSUME TypeOK, Tick
  PROVE  /\ msgs' \in Seq(Message) /\ Len(msgs') = Len(msgs)
         /\ \A i \in 1..Len(msgs) :
              /\ msgs'[i].kind = msgs[i].kind /\ msgs'[i].re = msgs[i].re
              /\ msgs'[i].age = IF msgs[i].kind = "human" THEN Older(msgs[i].age)
                                                          ELSE msgs[i].age
         /\ MessagesKept
<1>1. /\ msgs' \in Seq(Message) /\ Len(msgs') = Len(msgs)
      /\ \A i \in 1..Len(msgs) :
           /\ msgs'[i].kind = msgs[i].kind /\ msgs'[i].re = msgs[i].re
           /\ msgs'[i].age = IF msgs[i].kind = "human" THEN Older(msgs[i].age)
                                                       ELSE msgs[i].age
  <2> DEFINE older(i) == IF msgs[i].kind = "human" THEN [msgs[i] EXCEPT !.age = Older(@)]
                                                   ELSE msgs[i]
  <2>1. msgs \in Seq(Message) /\ Len(msgs) \in Nat /\ DOMAIN msgs = 1..Len(msgs)
    BY LenProperties DEF TypeOK
  <2>2. msgs' = [i \in 1..Len(msgs) |-> older(i)] BY <2>1 DEF Tick
  <2>3. ASSUME NEW i \in 1..Len(msgs)
        PROVE  /\ older(i) \in Message
               /\ older(i).kind = msgs[i].kind /\ older(i).re = msgs[i].re
               /\ older(i).age = IF msgs[i].kind = "human" THEN Older(msgs[i].age)
                                                           ELSE msgs[i].age
    <3>1. msgs[i] \in Message BY <2>1, ElementOfSeq
    <3>2. msgs[i].age \in Ages BY <3>1 DEF Message
    <3>3. Older(msgs[i].age) \in Ages BY <3>2, OlderProperties
    <3> QED BY <3>1, <3>3 DEF Message
  <2> HIDE DEF older
  <2>4. msgs' \in [1..Len(msgs) -> Message] BY <2>2, <2>3
  <2>5. msgs' \in Seq(Message) BY <2>1, <2>4, SeqDef
  <2>6. DOMAIN msgs' = 1..Len(msgs) BY <2>2
  <2>7. Len(msgs') = Len(msgs) BY <2>1, <2>5, <2>6, LenProperties
  <2> QED BY <2>2, <2>3, <2>5, <2>7
<1>2. MessagesKept
  <2>1. \A i \in 1..Len(msgs) : msgs[i].age <= msgs'[i].age
    <3>1. \A i \in 1..Len(msgs) : msgs[i].age \in Ages BY Types
    <3>2. \A a \in Ages : a <= Older(a) /\ a <= a BY OlderProperties
    <3> QED BY <1>1, <3>1, <3>2
  <2> QED BY <1>1, <2>1, Types DEF MessagesKept
<1> QED BY <1>1, <1>2

(* Time goes by.                                                           *)
LEMMA TickPreserves == ASSUME IInv, Tick PROVE IInv'
<1>1. UNCHANGED <<status, rerun, pc, seen, seenStatus, item, posted, relay, delivered,
                  elsewhere, outages, topic>>
  BY DEF Tick
<1>2. /\ row' \in Progress /\ row' = [row EXCEPT !.humanAge = Older(row.humanAge)]
      /\ p' \in Progress /\ p' = [p EXCEPT !.humanAge = Older(p.humanAge)]
  <2>1. Older(row.humanAge) \in Ages /\ Older(p.humanAge) \in Ages
    BY OlderProperties, Types DEF IInv
  <2>2. row \in Progress /\ p \in Progress BY Types DEF IInv
  <2>3. /\ row' = [row EXCEPT !.humanAge = Older(row.humanAge)]
        /\ p' = [p EXCEPT !.humanAge = Older(p.humanAge)]
    BY DEF Tick
  <2> QED BY <2>1, <2>2, <2>3 DEF Progress
<1>3. /\ row'.answered = row.answered /\ row'.bot = row.bot /\ row'.human = row.human
      /\ row'.mirrored = row.mirrored /\ row'.humanAge = Older(row.humanAge)
      /\ p'.human = p.human /\ p'.humanAge = Older(p.humanAge)
      /\ p' = [p EXCEPT !.humanAge = p'.humanAge]
  BY <1>2, Types DEF IInv, Progress
<1>4. /\ msgs' \in Seq(Message) /\ Len(msgs') = Len(msgs)
      /\ \A i \in 1..Len(msgs) :
           /\ msgs'[i].kind = msgs[i].kind /\ msgs'[i].re = msgs[i].re
           /\ msgs'[i].age = IF msgs[i].kind = "human" THEN Older(msgs[i].age)
                                                       ELSE msgs[i].age
      /\ MessagesKept
  BY TickKeepsMessages DEF IInv
<1>5. MessagesKept BY <1>4
<1>6. TypeOK'
  <2>1. backoff' \in [failures : 0..MaxFailures, left : 0..MaxFailures]
    <3>1. backoff.left \in 0..MaxFailures BY DEF IInv, TypeOK
    <3>2. (IF backoff.left = 0 THEN 0 ELSE backoff.left - 1) \in 0..MaxFailures
      BY <3>1, MaxFailuresAssumption
    <3> QED BY <3>2 DEF IInv, TypeOK, Tick
  <2>2. operatorAge' \in Ages /\ hot' \in BOOLEAN
    BY OlderProperties DEF IInv, TypeOK, Tick
  <2> QED BY <1>1, <1>2, <1>4, <2>1, <2>2 DEF IInv, TypeOK
<1>7. WatermarksJustified'
  <2>1. row.bot # 0 => row.bot <= Len(msgs') /\ msgs'[row.bot].kind = "bot"
    BY <1>4, Types DEF IInv, WatermarksJustified
  <2>2. row.answered # 0 =>
          \E i \in 1..Len(msgs') : msgs'[i].kind = "bot" /\ msgs'[i].re = row.answered
    BY <1>4 DEF IInv, WatermarksJustified
  <2>3. \A i \in 1..Len(msgs) : HasMedia(i)' <=> HasMedia(i) BY <1>4 DEF HasMedia
  <2>4. row.human # 0 => row.human <= Len(msgs') /\ ~IsUser(row.human)'
    <3> SUFFICES ASSUME row.human # 0
                 PROVE  row.human <= Len(msgs') /\ ~IsUser(row.human)'
      OBVIOUS
    <3>1. row.human \in 1..Len(msgs) /\ ~IsUser(row.human)
      BY Types DEF IInv, WatermarksJustified
    <3>2. msgs'[row.human].kind = msgs[row.human].kind BY <1>4, <3>1
    <3>3. row'.human = row.human /\ row.human <= Len(msgs')
      BY <1>3, <1>4, <3>1, Types DEF IInv
    <3> QED BY <3>1, <3>2, <3>3 DEF IsUser
  <2> QED BY <1>1, <1>3, <1>4, <2>1, <2>2, <2>3, <2>4 DEF IInv, WatermarksJustified
<1>8. ASSUME NEW q \in {row, p}, TimeCovers(q), NEW i \in 1..q.human,
             msgs'[i].kind = "human"
      PROVE  msgs'[i].age >= Older(q.humanAge)
  <2>1. i \in 1..Len(msgs) BY <1>8, Types DEF IInv, TimeCovers
  <2>2. msgs[i].age >= q.humanAge /\ msgs'[i].age = Older(msgs[i].age)
    BY <1>4, <1>8, <2>1 DEF TimeCovers
  <2>3. msgs[i].age \in Ages /\ q.humanAge \in Ages BY <2>1, Types DEF IInv
  <2> QED BY <2>2, <2>3, OlderProperties
<1>9. TimeCovers(row)' /\ TimeCovers(p)'
  <2>1. /\ \A i \in 1..row.human : msgs'[i].kind = "human" => msgs'[i].age >= Older(row.humanAge)
        /\ \A i \in 1..p.human : msgs'[i].kind = "human" => msgs'[i].age >= Older(p.humanAge)
    BY <1>8 DEF IInv
  <2> QED BY <1>3, <1>4, <2>1 DEF IInv, TimeCovers
<1> QED BY <1>1, <1>3, <1>5, <1>6, <1>7, <1>9, OthersPreserve

----------------------------------------------------------------------------
(* Every step keeps the inductive invariant.                               *)
LEMMA NextIInv == IInv /\ RelayOfStaff /\ [Next]_vars => IInv'
<1> SUFFICES ASSUME IInv, RelayOfStaff, [Next]_vars PROVE IInv' OBVIOUS
<1>1. CASE Webhook \/ Sweep BY <1>1, SchedulePreserves DEF Webhook, Sweep
<1>2. CASE Turn
  BY <1>2, EndingsPreserve, ReadTicketPreserves, ReadProgressPreserves, ToDecidePreserves,
     MarkPendingPreserves, ForwardMediaPreserves, MarkMirroredPreserves,
     HumanAppearsPreserves, StartAnswerPreserves, StillCurrentPreserves, PostPreserves,
     RecordPreserves DEF Turn
<1>3. CASE Environment
  BY <1>3, OthersWritePreserves, MemoryPreserves, RelayRecordsPreserves, TickPreserves,
     EndingsPreserve DEF Environment
<1>4. CASE UNCHANGED vars
  <2>1. TypeOK' BY <1>4 DEF IInv, TypeOK, vars, panel, memory, turn
  <2>2. UNCHANGED <<msgs, row, turn, delivered>> BY <1>4 DEF vars, panel
  <2> QED BY <2>1, <2>2, SameMessages, BystandersPreserve DEF IInv
<1> QED BY <1>1, <1>2, <1>3, <1>4 DEF Next

(* Who writes to the ticket: the bot one reply, others one message, and    *)
(* the clock makes messages older.                                         *)
LEMMA MessageSteps ==
  ASSUME [Next]_vars
  PROVE  \/ UNCHANGED msgs \/ Tick \/ PostAccepted \/ PostLost
         \/ \E kind \in UserKinds \cup {"human"} : msgs' = Append1(kind, 0)
<1>1. CASE Webhook \/ Sweep BY <1>1 DEF Webhook, Sweep, Schedule, panel
<1>2. CASE Turn
  BY <1>2
  DEF Turn, ReadFails, ReadTicket, GiveUp, ReadProgress, NothingToDo, NotYet, NoMedia,
      MarkPending, ForwardMedia, ForwardFails, MarkMirrored, OnlyMedia, StillBackingOff,
      HumanAppears, HumanStays, RateLimited, StartAnswer, StatusMoved, StaffWrote,
      CustomerWrote, StillCurrent, PostRefused, Record, Reconcile, ReconcileFails,
      TurnOnly, panel
<1>3. CASE Environment
  BY <1>3, KindsAssumption
  DEF Environment, RelayPosts, RelayRecords, CustomerWrites, StaffWrites, StaffAppends,
      StaffCloses, TelegramOperator, TopicDeleted, TelegramStart, TelegramTurn,
      Elsewhere, Cool, Crash, panel
<1>4. CASE UNCHANGED vars BY <1>4 DEF vars, panel
<1> QED BY <1>1, <1>2, <1>3, <1>4 DEF Next

(* Every step keeps the messages there are.                                *)
LEMMA NextKeepsMessages == ASSUME IInv, [Next]_vars PROVE MessagesKept
<1>1. TypeOK /\ Last \in Nat BY TurnOperators, Types DEF IInv
<1>2. CASE PostAccepted \/ PostLost
  BY <1>1, <1>2, AppendGrows DEF PostAccepted, PostLost, Posts
<1>3. CASE \E kind \in UserKinds \cup {"human"} : msgs' = Append1(kind, 0)
  BY <1>1, <1>3, AppendGrows
<1> QED BY <1>1, <1>2, <1>3, MessageSteps, SameMessages, TickKeepsMessages

(* The relay goes on to record a staff message.                            *)
LEMMA NextRelayOfStaff ==
  ASSUME IInv, RelayOfStaff, [Next]_vars
  PROVE  RelayOfStaff'
<1>1. MessagesKept BY NextKeepsMessages
<1>2. CASE relay' \in {relay, NoRelay}
  <2> SUFFICES ASSUME relay' > 0 PROVE ~IsUser(relay)' BY DEF RelayOfStaff
  <2>1. relay \in -1..Len(msgs) /\ Len(msgs) \in Nat
    BY PointerTypes DEF IInv, TypeOK, NoRelay
  <2>2. relay' = relay /\ relay \in 1..Len(msgs) BY <1>2, <2>1 DEF NoRelay
  <2>3. msgs'[relay].kind = msgs[relay].kind BY <1>1, <2>2 DEF MessagesKept
  <2>4. ~IsUser(relay) BY <2>2 DEF RelayOfStaff
  <2> QED BY <2>2, <2>3, <2>4 DEF IsUser
<1>3. CASE RelayPosts
  <2>1. relay' \in {NoId, Len(msgs) + 1} /\ msgs' = Append1("human", 0)
    BY <1>3 DEF RelayPosts, StaffAppends
  <2>2. msgs'[Len(msgs) + 1] = [kind |-> "human", re |-> 0, age |-> 0]
    BY <2>1, AppendGrows DEF IInv
  <2> QED BY <2>1, <2>2 DEF RelayOfStaff, IsUser, UserKinds, NoId
<1>4. relay' \in {relay, NoRelay} \/ RelayPosts
  <2>1. CASE Webhook \/ Sweep BY <2>1 DEF Webhook, Sweep, Schedule
  <2>2. CASE Turn
    BY <2>2
    DEF Turn, ReadFails, ReadTicket, GiveUp, ReadProgress, NothingToDo, NotYet, NoMedia,
        MarkPending, ForwardMedia, ForwardFails, MarkMirrored, OnlyMedia, StillBackingOff,
        HumanAppears, HumanStays, RateLimited, StartAnswer, StatusMoved, StaffWrote,
        CustomerWrote, StillCurrent, PostAccepted, PostLost, Posts, PostRefused, Record,
        Reconcile, ReconcileFails, TurnOnly
  <2>3. CASE Environment
    BY <2>3
    DEF Environment, RelayRecords, CustomerWrites, StaffWrites, StaffCloses,
        TelegramOperator, TopicDeleted, TelegramStart, TelegramTurn, Elsewhere, Cool,
        Tick, Crash
  <2>4. CASE UNCHANGED vars BY <2>4 DEF vars
  <2> QED BY <2>1, <2>2, <2>3, <2>4 DEF Next
<1> QED BY <1>2, <1>3, <1>4

(* The inductive invariant holds in every behaviour.                       *)
THEOREM Invariant == Spec => [](IInv /\ RelayOfStaff)
<1>1. Init => IInv /\ RelayOfStaff
  BY InitIInv DEF Init, InitWith, RelayOfStaff, NoRelay
<1>2. IInv /\ RelayOfStaff /\ [Next]_vars => IInv' /\ RelayOfStaff'
  BY NextIInv, NextRelayOfStaff
<1> QED BY <1>1, <1>2, PTL DEF Spec

(* Ids, ages and backoffs stay within their ranges.                        *)
THEOREM TypeCorrect == Spec => []TypeOK
<1>1. IInv => TypeOK BY DEF IInv
<1> QED BY <1>1, Invariant, PTL

(* Every stored watermark is about a message that justifies it: a reply of *)
(* the bot, a message it replied to, a message of the staff (which the     *)
(* bot's own reply is too), attachments that reached the topic.            *)
THEOREM WatermarksSafe == Spec => []WatermarksJustified
<1>1. IInv => WatermarksJustified BY DEF IInv
<1> QED BY <1>1, Invariant, PTL

----------------------------------------------------------------------------
(* Who posts for the bot: a turn with a message to answer.                 *)
LEMMA BotPostsAnswer ==
  ASSUME IInv, [Next]_vars, BotPosts
  PROVE  /\ pc = "post" /\ Last # 0
         /\ msgs'[Len(msgs')].re = Last
<1>1. Len(msgs) \in Nat /\ Last \in Nat BY TurnOperators, Types DEF IInv
<1>2. CASE UNCHANGED msgs BY <1>1, <1>2 DEF BotPosts
<1>3. CASE Tick
  <2>1. DOMAIN msgs = 1..Len(msgs) /\ msgs \in Seq(Message)
    BY LenProperties DEF IInv, TypeOK
  <2>2. DOMAIN msgs' = 1..Len(msgs) BY <1>3, <2>1 DEF Tick
  <2>3. IInv' BY <1>3, TickPreserves
  <2>4. DOMAIN msgs' = 1..Len(msgs') /\ Len(msgs') \in Nat
    BY <2>3, LenProperties DEF IInv, TypeOK
  <2> QED BY <1>1, <2>2, <2>4 DEF BotPosts
<1>4. ASSUME NEW kind \in UserKinds \cup {"human"}, msgs' = Append1(kind, 0) PROVE FALSE
  <2>1. /\ Len(msgs') = Len(msgs) + 1
        /\ msgs'[Len(msgs) + 1] = [kind |-> kind, re |-> 0, age |-> 0]
    BY <1>4, AppendGrows DEF IInv
  <2> QED BY <2>1 DEF BotPosts, UserKinds
<1>5. CASE PostAccepted \/ PostLost
  <2>1. pc = "post" /\ msgs' = Append1("bot", Last)
    BY <1>5 DEF PostAccepted, PostLost, Posts
  <2>2. /\ Len(msgs') = Len(msgs) + 1
        /\ msgs'[Len(msgs) + 1] = [kind |-> "bot", re |-> Last, age |-> 0]
    BY <1>1, <2>1, AppendGrows DEF IInv
  <2> QED BY <2>1, <2>2 DEF IInv, AnswerUnderWay
<1>6. \/ UNCHANGED msgs \/ Tick \/ PostAccepted \/ PostLost
      \/ \E kind \in UserKinds \cup {"human"} : msgs' = Append1(kind, 0)
  BY MessageSteps
<1> QED BY <1>2, <1>3, <1>4, <1>5, <1>6

(* A message whose answer was recorded is not answered again.              *)
THEOREM AnsweredOnce == Spec => NoSecondAnswer
<1>1. ASSUME IInv, [Next]_vars, BotPosts PROVE row.answered < msgs'[Len(msgs')].re
  <2>1. pc = "post" /\ Last # 0 /\ msgs'[Len(msgs')].re = Last BY <1>1, BotPostsAnswer
  <2>2. p.answered < Last BY <1>1, <2>1, TurnOperators DEF IInv
  <2>3. p.answered = row.answered BY <1>1, <2>1 DEF IInv, RowStillGood, Informed
  <2> QED BY <2>1, <2>2, <2>3
<1>2. IInv /\ [Next]_vars => [BotPosts => row.answered < msgs'[Len(msgs')].re]_vars
  BY <1>1
<1> QED BY <1>2, Invariant, PTL DEF Spec, NoSecondAnswer

(* The bot posts over no operator that the turn saw within the window.     *)
THEOREM WindowKept == Spec => OperatorWindowRespected
<1>1. ASSUME IInv, [Next]_vars, BotPosts, p.bot # 0,
             NEW i \in p.bot + 1 .. seen, msgs[i].kind = "human"
      PROVE  msgs[i].age = Suppression
  BY <1>1, BotPostsAnswer DEF IInv, WindowOver
<1>2. IInv /\ [Next]_vars =>
        [BotPosts /\ p.bot # 0 =>
           \A i \in p.bot + 1 .. seen :
             msgs[i].kind = "human" => msgs[i].age = Suppression]_vars
  BY <1>1
<1> QED BY <1>2, Invariant, PTL DEF Spec, OperatorWindowRespected

(* An attachment that was taken notice of stays marked until it reached    *)
(* the topic.                                                              *)
THEOREM PendingKept == Spec => PendingUntilDelivered
<1>1. ASSUME IInv, [Next]_vars, NEW i \in 1..Len(msgs), HasMedia(i),
             i <= row.pending, i \notin delivered
      PROVE  i <= row'.pending
  <2>0. /\ i \in Nat /\ row \in Progress /\ row.pending \in Nat /\ row.mirrored \in Nat
        /\ item \in Nat /\ Len(msgs) \in Nat
    BY <1>1, Types DEF IInv
  <2>1. CASE row'.pending = row.pending BY <1>1, <2>1
  <2>2. CASE MarkPending
    <3>0. TypeOK /\ Unmirrored # {} BY <1>1, <2>2 DEF IInv, MarkPending
    <3>1. Unmirrored \in SUBSET (1..seen) /\ seen \in Nat /\ Unmirrored # {}
      BY <3>0, TurnOperators, PointerTypes
    <3>2. Max(Unmirrored) \in 1..seen BY <3>1, MaxOfIds, Zenon
    <3>3. Max(Unmirrored) \in Nat BY <3>1, <3>2
    <3>4. row'.pending = IF row.pending >= Max(Unmirrored) THEN row.pending
                                                           ELSE Max(Unmirrored)
      BY <2>0, <2>2, <3>3, MaxOfTwo DEF MarkPending, RecordPendingMedia, Progress
    <3> QED BY <1>1, <2>0, <3>3, <3>4
  <2>3. CASE MarkMirrored
    <3> DEFINE m == Max({row.mirrored, item})
    <3>1. m = IF row.mirrored >= item THEN row.mirrored ELSE item
      BY <2>0, MaxOfTwo
    <3> HIDE DEF m
    <3>2. row'.pending = IF row.pending <= m THEN 0 ELSE row.pending
      BY <2>0, <2>3 DEF MarkMirrored, RecordMirroredMedia, Progress, m
    <3>3. ~(i <= m)
      BY <1>1, <2>3, <3>1, DeliveredUpToItem DEF IInv, WatermarksJustified, MarkMirrored
    <3>4. m \in Nat BY <2>0, <3>1
    <3> QED BY <1>1, <2>0, <3>2, <3>3, <3>4
  <2>4. row'.pending = row.pending \/ MarkPending \/ MarkMirrored
    <3>1. CASE Webhook \/ Sweep BY <3>1 DEF Webhook, Sweep, Schedule
    <3>2. CASE Turn
      BY <2>0, <3>2
      DEF Turn, ReadFails, ReadTicket, GiveUp, ReadProgress, NothingToDo, NotYet, NoMedia,
          ForwardMedia, ForwardFails, OnlyMedia, StillBackingOff,
          HumanAppears, HumanStays, RateLimited, StartAnswer, StatusMoved, StaffWrote,
          CustomerWrote, StillCurrent, PostAccepted, PostLost, Posts, PostRefused, Record,
          Reconcile, ReconcileFails, RecordHumanReply, RecordTicketReply, Progress
    <3>3. CASE Environment
      BY <2>0, <3>3
      DEF Environment, RelayPosts, RelayRecords, CustomerWrites, StaffWrites, Outside,
          StaffCloses, TelegramOperator, TopicDeleted, TelegramStart, TelegramTurn,
          Elsewhere, Cool, Tick, Crash, RecordHumanReply, Progress
    <3>4. CASE UNCHANGED vars BY <3>4 DEF vars
    <3> QED BY <1>1, <3>1, <3>2, <3>3, <3>4 DEF Next
  <2> QED BY <2>1, <2>2, <2>3, <2>4
<1>2. IInv /\ [Next]_vars =>
        [\A i \in 1..Len(msgs) :
           HasMedia(i) /\ i <= row.pending /\ i \notin delivered => i <= row'.pending]_vars
  BY <1>1
<1> QED BY <1>2, Invariant, PTL DEF Spec, PendingUntilDelivered
=============================================================================
