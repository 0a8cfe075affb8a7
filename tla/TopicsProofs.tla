---------------------------- MODULE TopicsProofs ----------------------------
(***************************************************************************)
(* Topics, for any number of customers, tickets and goroutines inside the  *)
(* forwarder, and any bounds on calls, topics, deletions and faults.       *)
(*                                                                         *)
(* The argument is about whose a topic is.  Telegram gives every topic a   *)
(* number of its own, so whatever mentions it, a row, the group or a       *)
(* goroutine that carries it about without the lock, is of one customer;   *)
(* and a goroutine that replaces a topic has failed to copy into it.       *)
(***************************************************************************)
EXTENDS Topics, TLAPS

Inside == {"found", "create", "save"}                   \* under the topic lock
Carries == {"save", "copy", "send", "set", "upload"}    \* with the topic to use

Refers(w, t) ==
  \/ pc[w] = "found" /\ existing[w].topic = t
  \/ pc[w] \in Carries /\ topic[w] = t
  \/ pc[w] # "idle" /\ recreate[w] = t

Mentions(u, t) ==
  \/ row[u].topic = t \/ <<t, u>> \in live
  \/ \E w \in Worker : U(w) = u /\ Refers(w, t)

(* A topic is of one customer, and has been created.                       *)
TopicsOwned ==
  \A t \in Topic, u \in User : Mentions(u, t) =>
    t <= created /\ \A v \in User : Mentions(v, t) => v = u

OneInside == \A v, w \in Worker :
  pc[v] \in Inside /\ pc[w] \in Inside /\ U(v) = U(w) => v = w

(* The topic that a goroutine wants replaced is one a copy failed in: a    *)
(* deleted one, if every call works.                                       *)
Replaces(w) == pc[w] # "idle" /\ recreate[w] # NoTopic =>
  recreate[w] \in givenUp /\ recreate[w] <= created /\ (faults = 0 => ~Exists(recreate[w]))

Sound(w) ==
  /\ pc[w] # "idle" /\ job[w].kind \in {"forward", "error"} => U(w) \notin Cabinet
  /\ pc[w] = "found" => /\ existing[w] \in Row /\ existing[w].topic # recreate[w]
                        /\ row[U(w)].topic = existing[w].topic
  /\ pc[w] \in {"create", "save"} => row[U(w)] = NoRow
  /\ pc[w] \in Carries => topic[w] \in Topic
  /\ pc[w] \in {"save", "copy"} => topic[w] # recreate[w]
  /\ Replaces(w)
  /\ w \in overwrote => pc[w] \in {"send", "set"} /\ job[w].kind \in {"mirror", "media"}

WorkersSound == \A w \in Worker : Sound(w)

(* What TopicsAccounted is when no row names the topic.                    *)
LiveAccounted == \A x \in live :
  \/ row[x[2]].topic = x[1]
  \/ /\ \A u \in User : row[u].topic # x[1]
     /\ x[1] \in givenUp \/ \E w \in Worker : pc[w] = "save" /\ topic[w] = x[1]

(* Topics that are not there any more: as many as were deleted.            *)
Gone(t) == t \in Topic /\ t <= created /\ ~Exists(t)
FewGone ==
  /\ deletions = 0 => \A t \in Topic : ~Gone(t)
  /\ deletions <= 1 => \A s, t \in Topic : Gone(s) /\ Gone(t) => s = t

IInv == /\ TypeOK /\ TopicsOwned /\ OneInside /\ WorkersSound /\ LiveAccounted
        /\ RouteSettles /\ FewGone /\ DeletionLosesNoReport

USE UserAssumption, TicketAssumption, BoundAssumption DEF NoTopic, Topic

----------------------------------------------------------------------------
(* What most steps have in common.                                         *)

Same(v) == /\ pc'[v] = pc[v] /\ job'[v] = job[v] /\ existing'[v] = existing[v]
           /\ topic'[v] = topic[v] /\ recreate'[v] = recreate[v]

(* Rows, and which is none.                                                *)
LEMMA Rows ==
  ASSUME NEW r \in Row \cup {NoRow}
  PROVE  /\ r.topic \in Topic \cup {NoTopic} /\ r.ticket \in Ticket \cup {NoTicket}
         /\ r = NoRow <=> r.topic = NoTopic
         /\ r # NoRow => r \in Row
         /\ NoRow.ticket = NoTicket
BY DEF Row, NoRow

(* What is known of a goroutine in a good state.                           *)
LEMMA WorkerTyped ==
  ASSUME TypeOK, NEW w \in Worker
  PROVE  /\ pc[w] \in PC /\ job[w] \in Job /\ U(w) \in User
         /\ job[w].kind \in Kind /\ job[w].ticket \in Ticket \cup {NoTicket}
         /\ existing[w] \in Row \cup {NoRow} /\ topic[w] \in Topic \cup {NoTopic}
         /\ recreate[w] \in Topic \cup {NoTopic}
         /\ row[U(w)] \in Row \cup {NoRow}
BY DEF TypeOK, Job, U

(* A goroutine that does nothing while others do.                          *)
LEMMA SoundKept ==
  ASSUME NEW v \in Worker, Sound(v), Same(v), recreate[v] \in Topic \cup {NoTopic},
         pc[v] \in Inside => row'[U(v)].topic = row[U(v)].topic
                             /\ (row[U(v)] = NoRow => row'[U(v)] = NoRow),
         givenUp \subseteq givenUp', created \in Nat, created' \in Nat, created <= created',
         faults' = 0 => faults = 0,
         \A t \in Topic : t <= created /\ Exists(t)' => Exists(t),
         v \in overwrote' => v \in overwrote
  PROVE  Sound(v)'
<1>1. U(v)' = U(v) BY DEF U, Same
<1>2. Replaces(v)' BY DEF Sound, Replaces, Same
<1> QED BY <1>1, <1>2 DEF Sound, Same, Inside

(* What is mentioned after a step of one goroutine was mentioned before.   *)
LEMMA MentionsKept ==
  ASSUME NEW w \in Worker, \A v \in Worker \ {w} : Same(v),
         \A u \in User : row'[u].topic \in Topic => Mentions(u, row'[u].topic),
         live' \subseteq live, U(w)' = U(w),
         \A t \in Topic : Refers(w, t)' => Mentions(U(w), t)
  PROVE  \A t \in Topic, u \in User : Mentions(u, t)' => Mentions(u, t)
<1> SUFFICES ASSUME NEW t \in Topic, NEW u \in User, Mentions(u, t)' PROVE Mentions(u, t)
  OBVIOUS
<1>1. CASE row'[u].topic = t BY <1>1 DEF Mentions
<1>2. CASE <<t, u>> \in live' BY <1>2 DEF Mentions
<1>3. CASE \E v \in Worker : U(v)' = u /\ Refers(v, t)'
  <2>1. PICK v \in Worker : U(v)' = u /\ Refers(v, t)' BY <1>3
  <2>2. CASE v = w BY <2>1, <2>2
  <2>3. CASE v # w
    <3>1. U(v)' = U(v) /\ (Refers(v, t)' <=> Refers(v, t)) BY <2>3 DEF Same, U, Refers
    <3> QED BY <2>1, <3>1 DEF Mentions
  <2> QED BY <2>2, <2>3
<1> QED BY <1>1, <1>2, <1>3 DEF Mentions

(* Then whose the topics are stays known.                                  *)
LEMMA OwnedKept ==
  ASSUME TopicsOwned, created \in Nat, created' \in Nat, created <= created',
         \A t \in Topic, u \in User : Mentions(u, t)' => Mentions(u, t)
  PROVE  TopicsOwned'
BY DEF TopicsOwned

(* The lock: who enters it found it free.                                  *)
LEMMA InsideKept ==
  ASSUME OneInside, NEW w \in Worker, \A v \in Worker \ {w} : Same(v),
         pc'[w] \in Inside => U(w)' = U(w) /\ (pc[w] \in Inside \/ ~Locked(U(w)))
  PROVE  OneInside'
<1> SUFFICES ASSUME NEW x \in Worker, NEW y \in Worker, pc'[x] \in Inside, pc'[y] \in Inside,
                    U(x)' = U(y)', x # y
             PROVE  FALSE
  BY DEF OneInside
<1>1. \A v \in Worker \ {w} : U(v)' = U(v) /\ pc'[v] = pc[v] BY DEF Same, U
<1>2. ASSUME NEW v \in Worker \ {w}, pc'[v] \in Inside, U(v)' = U(w)', pc'[w] \in Inside
      PROVE  FALSE
  <2>1. pc[v] \in Inside /\ U(v) = U(w) BY <1>1, <1>2
  <2>2. Locked(U(w)) BY <2>1 DEF Locked, Inside
  <2>3. pc[w] \in Inside BY <1>2, <2>2
  <2> QED BY <2>1, <2>3 DEF OneInside
<1>3. CASE x # w /\ y # w BY <1>1, <1>3 DEF OneInside
<1> QED BY <1>2, <1>3

(* No row names another topic, and no topic is left behind.                *)
LEMMA LiveKept ==
  ASSUME LiveAccounted, live' \subseteq live, live \subseteq Topic \X User,
         \A u \in User : row'[u].topic = row[u].topic, givenUp \subseteq givenUp',
         \A w \in Worker : pc[w] = "save" =>
            topic[w] \in givenUp' \/ (pc'[w] = "save" /\ topic'[w] = topic[w])
  PROVE  LiveAccounted'
<1> SUFFICES ASSUME NEW x \in live'
             PROVE  \/ row'[x[2]].topic = x[1]
                    \/ /\ \A u \in User : row'[u].topic # x[1]
                       /\ \/ x[1] \in givenUp'
                          \/ \E w \in Worker : pc'[w] = "save" /\ topic'[w] = x[1]
  BY DEF LiveAccounted
<1>1. x \in live /\ x[2] \in User OBVIOUS
<1>2. CASE row[x[2]].topic = x[1] BY <1>1, <1>2
<1>3. CASE /\ \A u \in User : row[u].topic # x[1]
           /\ x[1] \in givenUp \/ \E w \in Worker : pc[w] = "save" /\ topic[w] = x[1]
  BY <1>3
<1> QED BY <1>1, <1>2, <1>3 DEF LiveAccounted

(* The tickets of the topics and who is to set them stay.                  *)
LEMMA SettlesKept ==
  ASSUME RouteSettles, UNCHANGED <<row, lastSet>>,
         \A v \in overwrote : v \in Worker => v \in overwrote' /\ U(v)' = U(v) /\ pc'[v] \in {"send", "set"},
         overwrote \subseteq Worker
  PROVE  RouteSettles'
<1> SUFFICES ASSUME NEW u \in User, row'[u] # NoRow, row'[u].ticket # lastSet'[u]
             PROVE  \E v \in overwrote' : U(v)' = u /\ pc'[v] \in {"send", "set"}
  BY DEF RouteSettles
<1>1. PICK v \in overwrote : U(v) = u BY DEF RouteSettles
<1> QED BY <1>1

(* A step of one goroutine that neither makes nor unnames a topic.         *)
LEMMA WorkerStep ==
  ASSUME IInv, TypeOK', NEW w \in Worker, \A v \in Worker \ {w} : Same(v), Sound(w)',
         \A u \in User : row'[u].topic = row[u].topic,
         UNCHANGED <<live, created, deletions>>, givenUp \subseteq givenUp',
         faults <= faults', overwrote' \subseteq overwrote \cup {w},
         \/ U(w)' = U(w) /\ (\A t \in Topic : Refers(w, t)' => Mentions(U(w), t))
         \/ (pc[w] = "idle" /\ pc'[w] = "topic" /\ recreate'[w] = NoTopic),
         pc'[w] \in Inside => pc[w] \in Inside \/ ~Locked(U(w)),
         pc[w] = "save" => topic[w] \in givenUp',
         RouteSettles', DeletionLosesNoReport'
  PROVE  IInv'
<1>1. /\ TypeOK /\ TopicsOwned /\ OneInside /\ WorkersSound /\ LiveAccounted /\ FewGone
  BY DEF IInv
<1>2. created \in Nat /\ created' = created /\ faults \in Nat /\ faults' \in Nat
  BY <1>1 DEF TypeOK
<1>3. \A t \in Topic, u \in User : Mentions(u, t)' => Mentions(u, t)
  <2>1. CASE U(w)' = U(w) /\ \A t \in Topic : Refers(w, t)' => Mentions(U(w), t)
    BY <2>1, MentionsKept DEF Mentions
  <2>2. CASE pc[w] = "idle" /\ pc'[w] = "topic" /\ recreate'[w] = NoTopic
    <3>1. \A t \in Topic : ~Refers(w, t)' BY <2>2 DEF Refers, Carries
    <3>2. \A v \in Worker \ {w}, t \in Topic : U(v)' = U(v) /\ (Refers(v, t)' => Refers(v, t))
      BY DEF Same, U, Refers
    <3> QED BY <3>1, <3>2 DEF Mentions
  <2> QED BY <2>1, <2>2
<1>4. TopicsOwned' BY <1>1, <1>2, <1>3, OwnedKept
<1>5. OneInside'
  <2>1. pc'[w] \in Inside => U(w)' = U(w) BY DEF Inside
  <2> QED BY <1>1, <2>1, InsideKept
<1>6. \A u \in User : row[u] = NoRow => row'[u] = NoRow
  <2> SUFFICES ASSUME NEW u \in User, row[u] = NoRow PROVE row'[u] = NoRow OBVIOUS
  <2>1. row[u] \in Row \cup {NoRow} /\ row'[u] \in Row \cup {NoRow} BY <1>1 DEF TypeOK
  <2> QED BY <2>1, Rows
<1>7. WorkersSound'
  <2> SUFFICES ASSUME NEW v \in Worker \ {w} PROVE Sound(v)' BY DEF WorkersSound
  <2>1. Sound(v) /\ recreate[v] \in Topic \cup {NoTopic} /\ U(v) \in User
    BY <1>1, WorkerTyped DEF WorkersSound
  <2>2. \A t \in Topic : Exists(t)' => Exists(t) BY DEF Exists
  <2>3. v \in overwrote' => v \in overwrote OBVIOUS
  <2>4. faults' = 0 => faults = 0 BY <1>2
  <2> QED BY <1>2, <1>6, <2>1, <2>2, <2>3, <2>4, SoundKept
<1>8. LiveAccounted'
  <2>1. \A v \in Worker : pc[v] = "save" =>
            topic[v] \in givenUp' \/ (pc'[v] = "save" /\ topic'[v] = topic[v])
    BY DEF Same
  <2>2. live \subseteq Topic \X User BY <1>1 DEF TypeOK
  <2> QED BY <1>1, <2>1, <2>2, LiveKept
<1>9. FewGone'
  <2>1. \A t \in Topic : Gone(t)' <=> Gone(t) BY DEF Gone, Exists
  <2> QED BY <1>1, <2>1 DEF FewGone
<1> QED BY <1>4, <1>5, <1>7, <1>8, <1>9 DEF IInv

----------------------------------------------------------------------------
(* The steps of a goroutine.                                               *)

(* A call begins.                                                          *)
LEMMA StartKeeps ==
  ASSUME IInv, NEW w \in Worker, NEW u \in User, NEW kind \in Kind,
         NEW k \in Ticket \cup {NoTicket}, Start(w, u, kind, k)
  PROVE  IInv'
<1>1. TypeOK /\ Sound(w) /\ RouteSettles /\ DeletionLosesNoReport BY DEF IInv, WorkersSound
<1>2. /\ pc[w] = "idle" /\ pc' = [pc EXCEPT ![w] = "topic"] /\ calls' = calls + 1
      /\ calls < MaxCalls /\ recreate' = [recreate EXCEPT ![w] = NoTopic]
      /\ job' = [job EXCEPT ![w] = [user |-> u, kind |-> kind, ticket |-> k]]
      /\ kind \in {"forward", "error"} => u \notin Cabinet
      /\ UNCHANGED <<row, lastSet, overwrote, live, created, deletions, existing, topic,
                     faults, givenUp, dropped>>
  BY DEF Start, Call, GoTo, table, group
<1>3. TypeOK'
  <2>1. pc' \in [Worker -> PC] /\ recreate' \in [Worker -> Topic \cup {NoTopic}]
    BY <1>1, <1>2 DEF TypeOK, PC
  <2>2. job' \in [Worker -> Job] BY <1>1, <1>2 DEF TypeOK, Job
  <2>3. calls' \in 0..MaxCalls BY <1>1, <1>2 DEF TypeOK
  <2> QED BY <1>1, <1>2, <2>1, <2>2, <2>3 DEF TypeOK
<1>4. \A v \in Worker \ {w} : Same(v) BY <1>1, <1>2 DEF TypeOK, Same
<1>5. /\ pc'[w] = "topic" /\ recreate'[w] = NoTopic /\ U(w)' = u /\ job'[w].kind = kind
  BY <1>1, <1>2 DEF TypeOK, U
<1>6. w \notin overwrote BY <1>1, <1>2 DEF Sound
<1>7. Sound(w)' BY <1>2, <1>5, <1>6 DEF Sound, Replaces, Carries
<1>8. RouteSettles'
  <2>1. \A v \in overwrote : v \in Worker => v \in overwrote' /\ U(v)' = U(v) /\ pc'[v] \in {"send", "set"}
    BY <1>2, <1>4, <1>6 DEF Same, U, IInv, WorkersSound, Sound
  <2> QED BY <1>1, <1>2, <2>1, SettlesKept DEF TypeOK
<1>9. DeletionLosesNoReport' BY <1>1, <1>2 DEF DeletionLosesNoReport
<1>10. faults <= faults' BY <1>1, <1>2 DEF TypeOK
<1>11. /\ pc'[w] \notin Inside /\ pc[w] # "save" BY <1>2, <1>5 DEF Inside
<1> QED BY <1>2, <1>3, <1>4, <1>5, <1>7, <1>8, <1>9, <1>10, <1>11, WorkerStep

(* What a goroutine does after Topic that leaves the rows alone: it goes to*)
(* a place without the lock, with the topic it has or none.                *)
LEMMA GoesOn ==
  ASSUME IInv, NEW w \in Worker, NEW place, place \in PC \ (Inside \cup {"topic"}),
         pc' = [pc EXCEPT ![w] = place], pc[w] \in {"found", "copy", "send", "set", "upload"},
         UNCHANGED <<row, live, created, deletions, job, existing, recreate, calls, dropped>>,
         topic' \in [Worker -> Topic \cup {NoTopic}], \A v \in Worker \ {w} : topic'[v] = topic[v],
         place \in Carries => topic'[w] \in Topic /\ Mentions(U(w), topic'[w]),
         place = "copy" => topic'[w] # recreate[w],
         faults' \in 0..MaxFaults, faults <= faults', givenUp' = givenUp,
         lastSet' \in [User -> Ticket \cup {NoTicket}], overwrote' \subseteq overwrote,
         w \in overwrote' => place \in {"send", "set"} /\ job[w].kind \in {"mirror", "media"},
         RouteSettles'
  PROVE  IInv'
<1>1. TypeOK /\ Sound(w) /\ DeletionLosesNoReport BY DEF IInv, WorkersSound
<1>2. pc' \in [Worker -> PC] /\ overwrote' \subseteq Worker BY <1>1 DEF TypeOK
<1>3. TypeOK' BY <1>1, <1>2 DEF TypeOK
<1>4. \A v \in Worker \ {w} : Same(v) BY <1>1 DEF TypeOK, Same
<1>5. pc'[w] = place /\ U(w)' = U(w) /\ recreate'[w] = recreate[w] /\ job'[w] = job[w]
  BY <1>1 DEF TypeOK, U
<1>6. faults' = 0 => faults = 0 BY <1>1 DEF TypeOK
<1>7. Sound(w)'
  <2>1. Replaces(w)'
    <3>1. \A t : Exists(t)' <=> Exists(t) BY DEF Exists
    <3> QED BY <1>1, <1>5, <1>6, <3>1 DEF Sound, Replaces
  <2>2. pc'[w] # "idle" /\ job'[w].kind \in {"forward", "error"} => U(w)' \notin Cabinet
    BY <1>1, <1>5 DEF Sound
  <2>3. pc'[w] \notin Inside BY <1>5
  <2> QED BY <1>5, <2>1, <2>2, <2>3 DEF Sound, Inside
<1>8. \A t \in Topic : Refers(w, t)' => Mentions(U(w), t)
  <2>1. ASSUME NEW t \in Topic, Refers(w, t)' PROVE Mentions(U(w), t)
    <3>1. CASE pc'[w] \in Carries /\ topic'[w] = t BY <1>5, <3>1
    <3>2. CASE recreate'[w] = t BY <1>5, <3>2 DEF Mentions, Refers
    <3>3. pc'[w] # "found" BY <1>5 DEF Inside
    <3> QED BY <2>1, <3>1, <3>2, <3>3 DEF Refers
  <2> QED BY <2>1
<1>9. DeletionLosesNoReport' BY <1>1, <1>6 DEF DeletionLosesNoReport
<1>10. pc'[w] \notin Inside /\ pc[w] # "save" BY <1>5
<1> QED BY <1>3, <1>4, <1>5, <1>7, <1>8, <1>9, <1>10, WorkerStep

(* The tickets of the topics stay when the goroutine goes from one of the  *)
(* two places where it may still have to set its own to the other, or had  *)
(* nothing to set.                                                         *)
LEMMA SettlesOn ==
  ASSUME IInv, NEW w \in Worker, NEW place, pc' = [pc EXCEPT ![w] = place],
         UNCHANGED <<row, lastSet, overwrote, job>>,
         w \in overwrote => place \in {"send", "set"}
  PROVE  RouteSettles'
<1>1. TypeOK /\ RouteSettles /\ WorkersSound BY DEF IInv
<1>2. ASSUME NEW v \in overwrote, v \in Worker
      PROVE  v \in overwrote' /\ U(v)' = U(v) /\ pc'[v] \in {"send", "set"}
  <2>1. pc[v] \in {"send", "set"} BY <1>1, <1>2 DEF WorkersSound, Sound
  <2>2. pc'[v] = IF v = w THEN place ELSE pc[v] BY <1>1, <1>2 DEF TypeOK
  <2> QED BY <2>1, <2>2 DEF U
<1> QED BY <1>1, <1>2, SettlesKept DEF TypeOK

(* Where a goroutine goes with its topic.                                  *)
LEMMA ReturnPlace ==
  ASSUME TypeOK, NEW w \in Worker, NEW t, Return(w, t)
  PROVE  /\ topic' = [topic EXCEPT ![w] = t]
         /\ \E place \in {"copy", "send", "set"} :
              /\ pc' = [pc EXCEPT ![w] = place]
              /\ job[w].kind \in {"mirror", "media"} => place \in {"send", "set"}
BY WorkerTyped DEF Return, GoTo, Kind

(* Topic returns the topic of the row, without a change.                   *)
LEMMA UseFoundKeeps == ASSUME IInv, NEW w \in Worker, UseFound(w) PROVE IInv'
<1>1. TypeOK /\ Sound(w) /\ RouteSettles BY DEF IInv, WorkersSound
<1>2. /\ pc[w] = "found" /\ Return(w, existing[w].topic)
      /\ UNCHANGED <<row, lastSet, overwrote, live, created, deletions, job, existing,
                     recreate, calls, faults, givenUp, dropped>>
  BY DEF UseFound, table, group
<1> DEFINE t == existing[w].topic
<1>3. /\ t \in Topic /\ t # recreate[w] /\ row[U(w)].topic = t
  BY <1>1, <1>2 DEF Sound, Row
<1>4. w \notin overwrote BY <1>1, <1>2 DEF Sound
<1> HIDE DEF t
<1>5. PICK place \in {"copy", "send", "set"} : pc' = [pc EXCEPT ![w] = place]
  BY <1>1, <1>2, ReturnPlace
<1>6. topic' = [topic EXCEPT ![w] = t] BY <1>1, <1>2, ReturnPlace DEF t
<1>7. /\ topic' \in [Worker -> Topic \cup {NoTopic}] /\ topic'[w] = t
      /\ \A v \in Worker \ {w} : topic'[v] = topic[v]
  BY <1>1, <1>3, <1>6 DEF TypeOK
<1>8. Mentions(U(w), t) BY <1>3 DEF Mentions
<1>9. RouteSettles' BY <1>2, <1>4, <1>5, SettlesOn
<1>10. /\ faults \in 0..MaxFaults /\ faults <= faults /\ lastSet \in [User -> Ticket \cup {NoTicket}]
  BY <1>1 DEF TypeOK
<1>11. place \in PC \ (Inside \cup {"topic"}) BY <1>5 DEF PC, Inside
<1> QED BY <1>2, <1>3, <1>4, <1>5, <1>7, <1>8, <1>9, <1>10, <1>11, GoesOn

(* The first copy arrives.                                                 *)
LEMMA CopyFirstKeeps == ASSUME IInv, NEW w \in Worker, CopyFirst(w) PROVE IInv'
<1>1. TypeOK /\ Sound(w) BY DEF IInv, WorkersSound
<1>2. /\ pc[w] = "copy" /\ pc' = [pc EXCEPT ![w] = "send"]
      /\ UNCHANGED <<row, lastSet, overwrote, live, created, deletions, job, existing, topic,
                     recreate, calls, faults, givenUp, dropped>>
  BY DEF CopyFirst, GoTo, table, group
<1>3. w \notin overwrote BY <1>1, <1>2 DEF Sound
<1>4. topic[w] \in Topic /\ Mentions(U(w), topic[w])
  BY <1>1, <1>2 DEF Sound, Carries, Mentions, Refers
<1>5. RouteSettles' BY <1>2, <1>3, SettlesOn
<1>6. /\ faults \in 0..MaxFaults /\ faults <= faults /\ lastSet \in [User -> Ticket \cup {NoTicket}]
      /\ topic \in [Worker -> Topic \cup {NoTopic}]
  BY <1>1 DEF TypeOK
<1>7. "send" \in PC \ (Inside \cup {"topic"}) BY DEF PC, Inside
<1> QED BY <1>2, <1>3, <1>4, <1>5, <1>6, <1>7, GoesOn

(* The report is sent.                                                     *)
LEMMA SendReportKeeps == ASSUME IInv, NEW w \in Worker, SendReport(w) PROVE IInv'
<1>1. TypeOK /\ Sound(w) BY DEF IInv, WorkersSound
<1> DEFINE place == IF job[w].kind = "error" THEN "idle" ELSE "set"
<1>2. /\ pc[w] = "send" /\ pc' = [pc EXCEPT ![w] = place]
      /\ UNCHANGED <<row, lastSet, overwrote, live, created, deletions, job, existing, topic,
                     recreate, calls, faults, givenUp, dropped>>
  BY DEF SendReport, GoTo, table, group
<1>3. w \in overwrote => place = "set" /\ job[w].kind \in {"mirror", "media"}
  BY <1>1 DEF Sound
<1>4. topic[w] \in Topic /\ Mentions(U(w), topic[w])
  BY <1>1, <1>2 DEF Sound, Carries, Mentions, Refers
<1>5. place \in PC \ (Inside \cup {"topic"}) /\ place # "copy" BY DEF PC, Inside
<1> HIDE DEF place
<1>6. RouteSettles' BY <1>2, <1>3, SettlesOn
<1>7. /\ faults \in 0..MaxFaults /\ faults <= faults /\ lastSet \in [User -> Ticket \cup {NoTicket}]
      /\ topic \in [Worker -> Topic \cup {NoTopic}]
  BY <1>1 DEF TypeOK
<1> QED BY <1>2, <1>3, <1>4, <1>5, <1>6, <1>7, GoesOn

(* The attachment is sent.                                                 *)
LEMMA UploadKeeps == ASSUME IInv, NEW w \in Worker, Upload(w) PROVE IInv'
<1>1. TypeOK /\ Sound(w) BY DEF IInv, WorkersSound
<1>2. /\ pc[w] = "upload" /\ pc' = [pc EXCEPT ![w] = "idle"]
      /\ UNCHANGED <<row, lastSet, overwrote, live, created, deletions, job, existing, topic,
                     recreate, calls, faults, givenUp, dropped>>
  BY DEF Upload, GoTo, table, group
<1>3. w \notin overwrote BY <1>1, <1>2 DEF Sound
<1>4. RouteSettles' BY <1>2, <1>3, SettlesOn
<1>5. /\ faults \in 0..MaxFaults /\ faults <= faults /\ lastSet \in [User -> Ticket \cup {NoTicket}]
      /\ topic \in [Worker -> Topic \cup {NoTopic}]
  BY <1>1 DEF TypeOK
<1>6. "idle" \in PC \ (Inside \cup {"topic"}) /\ "idle" \notin Carries BY DEF PC, Inside, Carries
<1> QED BY <1>2, <1>3, <1>4, <1>5, <1>6, GoesOn

(* Where a goroutine goes when the ticket is set, or could not be.         *)
LEMMA AfterSetPlace ==
  ASSUME NEW w
  PROVE  AfterSet(w) \in {"upload", "send", "idle"}
         /\ AfterSet(w) \in PC \ (Inside \cup {"topic"}) /\ AfterSet(w) # "copy"
BY DEF AfterSet, PC, Inside

(* The ticket of the topic could not be set: it is what it was.            *)
LEMMA RecordFailsKeeps == ASSUME IInv, NEW w \in Worker, RecordFails(w) PROVE IInv'
<1>1. TypeOK /\ Sound(w) /\ RouteSettles BY DEF IInv, WorkersSound
<1> DEFINE place == AfterSet(w)
<1>2. /\ pc[w] = "set" /\ pc' = [pc EXCEPT ![w] = place] /\ faults < MaxFaults
      /\ faults' = faults + 1 /\ lastSet' = [lastSet EXCEPT ![U(w)] = row[U(w)].ticket]
      /\ overwrote' = overwrote \ {w}
      /\ UNCHANGED <<row, live, created, deletions, job, existing, topic,
                     recreate, calls, givenUp, dropped>>
  BY DEF RecordFails, GoTo, Fault, group
<1>3. topic[w] \in Topic /\ Mentions(U(w), topic[w])
  BY <1>1, <1>2 DEF Sound, Carries, Mentions, Refers
<1>4. place \in PC \ (Inside \cup {"topic"}) /\ place # "copy" BY AfterSetPlace
<1> HIDE DEF place
<1>5. lastSet' \in [User -> Ticket \cup {NoTicket}]
  <2>1. row[U(w)].ticket \in Ticket \cup {NoTicket} BY <1>1, WorkerTyped, Rows
  <2> QED BY <1>1, <1>2, <2>1 DEF TypeOK
<1>6. RouteSettles'
  <2> SUFFICES ASSUME NEW u \in User, row'[u] # NoRow, row'[u].ticket # lastSet'[u]
               PROVE  \E v \in overwrote' : U(v)' = u /\ pc'[v] \in {"send", "set"}
    BY DEF RouteSettles
  <2>1. u # U(w) BY <1>1, <1>2 DEF TypeOK
  <2>2. row[u] # NoRow /\ row[u].ticket # lastSet[u] BY <1>1, <1>2, <2>1 DEF TypeOK
  <2>3. PICK v \in overwrote : U(v) = u /\ pc[v] \in {"send", "set"}
    BY <1>1, <2>2 DEF RouteSettles
  <2>4. v # w /\ v \in Worker BY <1>1, <2>1, <2>3 DEF TypeOK
  <2>5. v \in overwrote' /\ U(v)' = U(v) /\ pc'[v] = pc[v]
    BY <1>1, <1>2, <2>4 DEF U, TypeOK
  <2> QED BY <2>3, <2>5
<1>7. faults' \in 0..MaxFaults /\ faults <= faults' /\ topic \in [Worker -> Topic \cup {NoTopic}]
  BY <1>1, <1>2 DEF TypeOK
<1> QED BY <1>2, <1>3, <1>4, <1>5, <1>6, <1>7, GoesOn

(* A cabinet user's topic was renamed: his row is what it was when read.   *)
LEMMA SaveRenamedKeeps == ASSUME IInv, NEW w \in Worker, SaveRenamed(w) PROVE IInv'
<1>1. TypeOK /\ Sound(w) /\ RouteSettles /\ DeletionLosesNoReport BY DEF IInv, WorkersSound
<1>2. /\ pc[w] = "found" /\ U(w) \in Cabinet /\ row' = [row EXCEPT ![U(w)] = existing[w]]
      /\ overwrote' = overwrote \cup {w} /\ Return(w, existing[w].topic)
      /\ UNCHANGED <<lastSet, live, created, deletions, job, existing, recreate, calls, faults,
                     givenUp, dropped>>
  BY DEF SaveRenamed, SaveTopic, group
<1>3. /\ existing[w] \in Row /\ existing[w].topic # recreate[w]
      /\ row[U(w)].topic = existing[w].topic /\ existing[w].topic \in Topic
  BY <1>1, <1>2 DEF Sound, Row
<1>4. job[w].kind \in {"mirror", "media"}
  BY <1>1, <1>2, WorkerTyped DEF Sound, Kind
<1> DEFINE t == existing[w].topic
<1> HIDE DEF t
<1>5. PICK place \in {"send", "set"} : pc' = [pc EXCEPT ![w] = place]
  BY <1>1, <1>2, <1>4, ReturnPlace
<1>6. topic' = [topic EXCEPT ![w] = t] BY <1>1, <1>2, ReturnPlace DEF t
<1>7. /\ pc'[w] = place /\ topic'[w] = t /\ recreate'[w] = recreate[w] /\ U(w)' = U(w)
      /\ job'[w] = job[w]
  BY <1>1, <1>2, <1>5, <1>6 DEF TypeOK, U
<1>8. TypeOK'
  <2>1. row' \in [User -> Row \cup {NoRow}] /\ pc' \in [Worker -> PC]
    BY <1>1, <1>2, <1>3, <1>5 DEF TypeOK, PC
  <2>2. topic' \in [Worker -> Topic \cup {NoTopic}] /\ overwrote' \subseteq Worker
    BY <1>1, <1>2, <1>3, <1>6 DEF TypeOK, t
  <2> QED BY <1>1, <1>2, <2>1, <2>2 DEF TypeOK
<1>9. \A v \in Worker \ {w} : Same(v) BY <1>1, <1>2, <1>5, <1>6 DEF TypeOK, Same
<1>10. \A u \in User : row'[u] = IF u = U(w) THEN existing[w] ELSE row[u]
  BY <1>1, <1>2 DEF TypeOK
<1>11. Sound(w)'
  <2>1. Replaces(w)' BY <1>1, <1>2, <1>7 DEF Sound, Replaces, Exists
  <2> QED BY <1>3, <1>4, <1>7, <2>1 DEF Sound, t
<1>12. \A s \in Topic : Refers(w, s)' => Mentions(U(w), s)
  BY <1>2, <1>3, <1>7 DEF Refers, Mentions, t
<1>13. RouteSettles'
  <2> SUFFICES ASSUME NEW u \in User, row'[u] # NoRow, row'[u].ticket # lastSet'[u]
               PROVE  \E v \in overwrote' : U(v)' = u /\ pc'[v] \in {"send", "set"}
    BY DEF RouteSettles
  <2>1. CASE u = U(w) BY <1>2, <1>7, <2>1
  <2>2. CASE u # U(w)
    <3>1. PICK v \in overwrote : U(v) = u /\ pc[v] \in {"send", "set"}
      BY <1>1, <1>2, <1>10, <2>2 DEF RouteSettles
    <3>2. v # w /\ v \in Worker BY <1>1, <2>2, <3>1 DEF TypeOK
    <3> QED BY <1>2, <1>9, <3>1, <3>2 DEF Same, U
  <2> QED BY <2>1, <2>2
<1>14. DeletionLosesNoReport' BY <1>1, <1>2 DEF DeletionLosesNoReport
<1>15. \A u \in User : row'[u].topic = row[u].topic BY <1>3, <1>10
<1>16. faults <= faults' /\ pc'[w] \notin Inside /\ pc[w] # "save"
  BY <1>1, <1>2, <1>7 DEF TypeOK, Inside
<1> QED BY <1>2, <1>7, <1>8, <1>9, <1>11, <1>12, <1>13, <1>14, <1>15, <1>16, WorkerStep

(* The active ticket of a user's topic is set, if he has one.              *)
LEMMA TicketSet ==
  ASSUME TypeOK, NEW u \in User, NEW k \in Ticket \cup {NoTicket}, SetActiveTicket(u, k)
  PROVE  /\ row' \in [User -> Row \cup {NoRow}] /\ lastSet' \in [User -> Ticket \cup {NoTicket}]
         /\ \A v \in User : row'[v].topic = row[v].topic
         /\ \A v \in User \ {u} : row'[v] = row[v] /\ lastSet'[v] = lastSet[v]
         /\ row'[u] # NoRow => row'[u].ticket = lastSet'[u]
<1>1. row \in [User -> Row \cup {NoRow}] /\ lastSet \in [User -> Ticket \cup {NoTicket}]
  BY DEF TypeOK
<1>2. CASE row[u] = NoRow
  <2>1. row' = row /\ lastSet' = [lastSet EXCEPT ![u] = NoTicket] BY <1>2 DEF SetActiveTicket
  <2> QED BY <1>1, <1>2, <2>1
<1>3. CASE row[u] # NoRow
  <2>1. row' = [row EXCEPT ![u] = [row[u] EXCEPT !.ticket = k]]
        /\ lastSet' = [lastSet EXCEPT ![u] = k]
    BY <1>3 DEF SetActiveTicket
  <2>2. row[u] \in Row BY <1>1, <1>3
  <2> DEFINE r == [row[u] EXCEPT !.ticket = k]
  <2>3. r \in Row /\ r.topic = row[u].topic /\ r.ticket = k BY <2>2 DEF Row
  <2> HIDE DEF r
  <2>4. row' = [row EXCEPT ![u] = r] BY <2>1 DEF r
  <2> QED BY <1>1, <2>1, <2>3, <2>4
<1> QED BY <1>2, <1>3

(* The ticket of the topic is set.                                         *)
LEMMA RecordTicketKeeps == ASSUME IInv, NEW w \in Worker, RecordTicket(w) PROVE IInv'
<1>1. TypeOK /\ Sound(w) /\ RouteSettles /\ DeletionLosesNoReport BY DEF IInv, WorkersSound
<1> DEFINE place == AfterSet(w)
<1>2. /\ pc[w] = "set" /\ pc' = [pc EXCEPT ![w] = place]
      /\ SetActiveTicket(U(w), job[w].ticket) /\ overwrote' = overwrote \ {w}
      /\ UNCHANGED <<live, created, deletions, job, existing, topic, recreate, calls, faults,
                     givenUp, dropped>>
  BY DEF RecordTicket, SetTicket, GoTo, group
<1>3. /\ row' \in [User -> Row \cup {NoRow}] /\ lastSet' \in [User -> Ticket \cup {NoTicket}]
      /\ \A v \in User : row'[v].topic = row[v].topic
      /\ \A v \in User \ {U(w)} : row'[v] = row[v] /\ lastSet'[v] = lastSet[v]
      /\ row'[U(w)] # NoRow => row'[U(w)].ticket = lastSet'[U(w)]
  BY <1>1, <1>2, WorkerTyped, TicketSet
<1>4. place \in PC \ (Inside \cup {"topic"}) /\ place # "copy" BY AfterSetPlace
<1> HIDE DEF place
<1>5. /\ pc'[w] = place /\ recreate'[w] = recreate[w] /\ U(w)' = U(w) /\ job'[w] = job[w]
      /\ topic'[w] = topic[w]
  BY <1>1, <1>2 DEF TypeOK, U
<1>6. TypeOK'
  <2>1. pc' \in [Worker -> PC] /\ overwrote' \subseteq Worker
    BY <1>1, <1>2, <1>4 DEF TypeOK
  <2> QED BY <1>1, <1>2, <1>3, <2>1 DEF TypeOK
<1>7. \A v \in Worker \ {w} : Same(v) BY <1>1, <1>2 DEF TypeOK, Same
<1>8. w \notin overwrote' BY <1>2
<1>9. Sound(w)'
  <2>1. Replaces(w)' BY <1>1, <1>2, <1>5 DEF Sound, Replaces, Exists
  <2>2. topic[w] \in Topic BY <1>1, <1>2 DEF Sound, Carries
  <2>3. pc'[w] \notin {"found", "create", "save", "copy"} BY <1>4, <1>5 DEF Inside
  <2>4. pc'[w] # "idle" /\ job'[w].kind \in {"forward", "error"} => U(w)' \notin Cabinet
    BY <1>1, <1>2, <1>5 DEF Sound
  <2> QED BY <1>5, <1>8, <2>1, <2>2, <2>3, <2>4 DEF Sound
<1>10. \A s \in Topic : Refers(w, s)' => Mentions(U(w), s)
  BY <1>2, <1>4, <1>5 DEF Refers, Mentions, Carries, Inside
<1>11. RouteSettles'
  <2> SUFFICES ASSUME NEW u \in User, row'[u] # NoRow, row'[u].ticket # lastSet'[u]
               PROVE  \E v \in overwrote' : U(v)' = u /\ pc'[v] \in {"send", "set"}
    BY DEF RouteSettles
  <2>1. u # U(w) BY <1>3
  <2>2. PICK v \in overwrote : U(v) = u /\ pc[v] \in {"send", "set"}
    BY <1>1, <1>3, <2>1 DEF RouteSettles
  <2>3. v # w /\ v \in Worker BY <1>1, <2>1, <2>2 DEF TypeOK
  <2> QED BY <1>2, <1>7, <2>2, <2>3 DEF Same, U
<1>12. DeletionLosesNoReport' BY <1>1, <1>2 DEF DeletionLosesNoReport
<1>13. faults <= faults' /\ pc'[w] \notin Inside /\ pc[w] # "save"
  BY <1>1, <1>2, <1>4, <1>5 DEF TypeOK
<1> QED BY <1>2, <1>3, <1>5, <1>6, <1>7, <1>9, <1>10, <1>11, <1>12, <1>13, WorkerStep

(* A call of Topic fails.                                                  *)
LEMMA TopicFailsKeeps == ASSUME IInv, NEW w \in Worker, TopicFails(w) PROVE IInv'
<1>1. TypeOK /\ Sound(w) BY DEF IInv, WorkersSound
<1>2. /\ pc[w] \in {"topic", "create", "save"} /\ pc' = [pc EXCEPT ![w] = "idle"]
      /\ faults < MaxFaults /\ faults' = faults + 1 /\ dropped' = dropped \cup {U(w)}
      /\ givenUp' = IF pc[w] = "save" THEN givenUp \cup {topic[w]} ELSE givenUp
      /\ UNCHANGED <<row, lastSet, overwrote, live, created, deletions, job, existing, topic,
                     recreate, calls>>
  BY DEF TopicFails, GoTo, GiveUp, Fault, table, group
<1>3. w \notin overwrote BY <1>1, <1>2 DEF Sound
<1>4. pc'[w] = "idle" /\ U(w)' = U(w) BY <1>1, <1>2 DEF TypeOK, U
<1>5. givenUp' \subseteq Topic
  <2>1. pc[w] = "save" => topic[w] \in Topic BY <1>1 DEF Sound, Carries
  <2> QED BY <1>1, <1>2, <2>1 DEF TypeOK
<1>6. TypeOK'
  <2>1. pc' \in [Worker -> PC] /\ faults' \in 0..MaxFaults /\ dropped' \subseteq User
    BY <1>1, <1>2, WorkerTyped DEF TypeOK, PC
  <2> QED BY <1>1, <1>2, <1>5, <2>1 DEF TypeOK
<1>7. \A v \in Worker \ {w} : Same(v) BY <1>1, <1>2 DEF TypeOK, Same
<1>8. Sound(w)' BY <1>2, <1>3, <1>4 DEF Sound, Replaces, Carries
<1>9. \A t \in Topic : ~Refers(w, t)' BY <1>4 DEF Refers, Carries
<1>10. RouteSettles' BY <1>2, <1>3, SettlesOn
<1>11. faults' # 0 /\ faults <= faults' BY <1>1, <1>2 DEF TypeOK
<1>12. DeletionLosesNoReport' BY <1>11 DEF DeletionLosesNoReport
<1>13. /\ pc'[w] \notin Inside /\ (pc[w] = "save" => topic[w] \in givenUp')
       /\ givenUp \subseteq givenUp'
  BY <1>2, <1>4 DEF Inside
<1> QED BY <1>2, <1>4, <1>6, <1>7, <1>8, <1>9, <1>10, <1>11, <1>12, <1>13, WorkerStep

(* A copy fails: for the first time, so that the topic is to be replaced;  *)
(* or again, which takes a fault or the loss of two topics.                *)
LEMMA CopyFailsKeeps == ASSUME IInv, NEW w \in Worker, CopyFails(w) PROVE IInv'
<1>1. TypeOK /\ Sound(w) /\ DeletionLosesNoReport /\ TopicsOwned /\ FewGone
  BY DEF IInv, WorkersSound
<1>2. /\ pc[w] = "copy" /\ givenUp' = givenUp \cup {topic[w]}
      /\ UNCHANGED <<row, lastSet, overwrote, live, created, deletions, job, existing, topic, calls>>
      /\ (Exists(topic[w]) /\ faults < MaxFaults /\ faults' = faults + 1)
           \/ (~Exists(topic[w]) /\ faults' = faults)
  BY DEF CopyFails, Fault, table, group
<1>3. \/ /\ recreate[w] = NoTopic /\ recreate' = [recreate EXCEPT ![w] = topic[w]]
         /\ pc' = [pc EXCEPT ![w] = "topic"] /\ dropped' = dropped
      \/ /\ recreate[w] # NoTopic /\ recreate' = recreate
         /\ pc' = [pc EXCEPT ![w] = "idle"] /\ dropped' = dropped \cup {U(w)}
  BY DEF CopyFails, GoTo, GiveUp
<1>4. /\ topic[w] \in Topic /\ topic[w] # recreate[w] /\ Mentions(U(w), topic[w])
      /\ w \notin overwrote
  BY <1>1, <1>2 DEF Sound, Carries, Mentions, Refers
<1>5. topic[w] <= created BY <1>1, <1>4, WorkerTyped DEF TopicsOwned
<1>6. faults \in Nat /\ faults' \in 0..MaxFaults /\ faults <= faults'
      /\ (faults' = 0 => faults = 0 /\ ~Exists(topic[w]))
  BY <1>1, <1>2 DEF TypeOK
<1>7. PICK place \in {"topic", "idle"} : pc' = [pc EXCEPT ![w] = place] BY <1>3
<1>8. pc'[w] = place /\ U(w)' = U(w) /\ job'[w] = job[w] BY <1>1, <1>2, <1>7 DEF TypeOK, U
<1>9. TypeOK'
  <2>1. pc' \in [Worker -> PC] /\ dropped' \subseteq User /\ givenUp' \subseteq Topic
    BY <1>1, <1>2, <1>3, <1>4, <1>7, WorkerTyped DEF TypeOK, PC
  <2>2. recreate' \in [Worker -> Topic \cup {NoTopic}] BY <1>1, <1>3, <1>4 DEF TypeOK
  <2> QED BY <1>1, <1>2, <1>6, <2>1, <2>2 DEF TypeOK
<1>10. \A v \in Worker \ {w} : Same(v) BY <1>1, <1>2, <1>3 DEF TypeOK, Same
<1>11. pc'[w] # "idle" => recreate'[w] = topic[w] BY <1>1, <1>3 DEF TypeOK
<1>12. Sound(w)'
  <2>1. Replaces(w)' BY <1>2, <1>4, <1>5, <1>6, <1>11 DEF Replaces, Exists
  <2>2. pc'[w] # "idle" /\ job'[w].kind \in {"forward", "error"} => U(w)' \notin Cabinet
    BY <1>1, <1>2, <1>8 DEF Sound
  <2> QED BY <1>2, <1>4, <1>8, <2>1, <2>2 DEF Sound, Carries
<1>13. \A t \in Topic : Refers(w, t)' => Mentions(U(w), t)
  BY <1>4, <1>8, <1>11 DEF Refers, Carries
<1>14. RouteSettles' BY <1>2, <1>4, <1>7, SettlesOn
<1>15. DeletionLosesNoReport'
  <2> SUFFICES ASSUME faults' = 0, deletions <= 1, recreate[w] # NoTopic PROVE FALSE
    BY <1>1, <1>2, <1>3, <1>6 DEF DeletionLosesNoReport
  <2>1. faults = 0 /\ ~Exists(topic[w]) BY <1>6
  <2>2. Gone(topic[w]) BY <1>4, <1>5, <2>1 DEF Gone
  <2>3. recreate[w] \in Topic /\ recreate[w] <= created /\ ~Exists(recreate[w])
    BY <1>1, <1>2, <2>1, WorkerTyped DEF Sound, Replaces
  <2>4. Gone(recreate[w]) BY <2>3 DEF Gone
  <2> QED BY <1>1, <1>4, <2>2, <2>3, <2>4 DEF FewGone
<1>16. pc'[w] \notin Inside /\ pc[w] # "save" /\ givenUp \subseteq givenUp'
       /\ overwrote' \subseteq overwrote \cup {w}
  BY <1>2, <1>8 DEF Inside
<1> QED BY <1>2, <1>6, <1>8, <1>9, <1>10, <1>12, <1>13, <1>14, <1>15, <1>16, WorkerStep

(* The row names another topic than the one to be replaced, and is used.   *)
LEMMA RowFound ==
  ASSUME IInv, NEW w \in Worker, pc[w] = "topic", ~Locked(U(w)),
         existing' = [existing EXCEPT ![w] = row[U(w)]],
         row[U(w)] # NoRow, row[U(w)].topic # recreate[w],
         pc' = [pc EXCEPT ![w] = "found"],
         UNCHANGED <<row, lastSet, overwrote, live, created, deletions, job, topic, recreate, calls,
                     faults, givenUp, dropped>>
  PROVE  IInv'
<1>1. TypeOK /\ Sound(w) /\ DeletionLosesNoReport BY DEF IInv, WorkersSound
<1>2. row[U(w)] \in Row BY <1>1, WorkerTyped
<1>3. w \notin overwrote BY <1>1 DEF Sound
<1>4. /\ pc'[w] = "found" /\ existing'[w] = row[U(w)] /\ recreate'[w] = recreate[w]
      /\ U(w)' = U(w) /\ job'[w] = job[w]
  BY <1>1 DEF TypeOK, U
<1>5. TypeOK'
  <2>1. pc' \in [Worker -> PC] /\ existing' \in [Worker -> Row \cup {NoRow}]
    BY <1>1, <1>2 DEF TypeOK, PC
  <2> QED BY <1>1, <2>1 DEF TypeOK
<1>6. \A v \in Worker \ {w} : Same(v) BY <1>1 DEF TypeOK, Same
<1>7. Sound(w)'
  <2>1. Replaces(w)' BY <1>1, <1>4 DEF Sound, Replaces, Exists
  <2> QED BY <1>1, <1>2, <1>3, <1>4, <2>1 DEF Sound, Carries
<1>8. \A t \in Topic : Refers(w, t)' => Mentions(U(w), t)
  BY <1>4 DEF Refers, Mentions, Carries
<1>9. RouteSettles' BY <1>3, SettlesOn
<1>10. DeletionLosesNoReport' BY <1>1 DEF DeletionLosesNoReport
<1>11. faults <= faults' BY <1>1 DEF TypeOK
<1> QED BY <1>4, <1>5, <1>6, <1>7, <1>8, <1>9, <1>10, <1>11, WorkerStep

(* There is no row, or it names the topic to be replaced and goes.         *)
LEMMA RowGone ==
  ASSUME IInv, NEW w \in Worker, pc[w] = "topic", ~Locked(U(w)),
         existing' = [existing EXCEPT ![w] = row[U(w)]],
         row[U(w)] = NoRow \/ row[U(w)].topic = recreate[w],
         row' = [row EXCEPT ![U(w)] = NoRow],
         pc' = [pc EXCEPT ![w] = "create"],
         UNCHANGED <<lastSet, overwrote, live, created, deletions, job, topic, recreate, calls,
                     faults, givenUp, dropped>>
  PROVE  IInv'
<1>1. /\ TypeOK /\ TopicsOwned /\ OneInside /\ WorkersSound /\ LiveAccounted /\ RouteSettles
      /\ FewGone /\ DeletionLosesNoReport /\ Sound(w)
  BY DEF IInv, WorkersSound
<1>2. row[U(w)] \in Row \cup {NoRow} /\ U(w) \in User /\ recreate[w] \in Topic \cup {NoTopic}
  BY <1>1, WorkerTyped
<1>3. w \notin overwrote BY <1>1 DEF Sound
<1>4. /\ pc'[w] = "create" /\ recreate'[w] = recreate[w] /\ U(w)' = U(w) /\ job'[w] = job[w]
  BY <1>1 DEF TypeOK, U
<1>5. \A u \in User : row'[u] = IF u = U(w) THEN NoRow ELSE row[u] BY <1>1 DEF TypeOK
<1>6. TypeOK'
  <2>1. pc' \in [Worker -> PC] /\ existing' \in [Worker -> Row \cup {NoRow}]
        /\ row' \in [User -> Row \cup {NoRow}]
    BY <1>1, <1>2 DEF TypeOK, PC
  <2> QED BY <1>1, <2>1 DEF TypeOK
<1>7. \A v \in Worker \ {w} : Same(v) BY <1>1 DEF TypeOK, Same
<1>8. created \in Nat BY <1>1 DEF TypeOK
<1>9. NoRow.topic = NoTopic /\ NoTopic \notin Topic BY DEF NoRow
<1>10. TopicsOwned'
  <2>1. \A u \in User : row'[u].topic \in Topic => Mentions(u, row'[u].topic)
    BY <1>5, <1>9 DEF Mentions
  <2>2. \A t \in Topic : Refers(w, t)' => Mentions(U(w), t)
    BY <1>4 DEF Refers, Mentions, Carries
  <2>3. \A t \in Topic, u \in User : Mentions(u, t)' => Mentions(u, t)
    BY <1>4, <1>7, <2>1, <2>2, MentionsKept
  <2> QED BY <1>1, <1>8, <2>3, OwnedKept
<1>11. OneInside' BY <1>1, <1>4, <1>7, InsideKept
<1>12. WorkersSound'
  <2>1. Sound(w)'
    <3>1. Replaces(w)' BY <1>1, <1>4 DEF Sound, Replaces, Exists
    <3> QED BY <1>1, <1>2, <1>3, <1>4, <1>5, <3>1 DEF Sound, Carries
  <2>2. ASSUME NEW v \in Worker \ {w} PROVE Sound(v)'
    <3>1. Sound(v) /\ recreate[v] \in Topic \cup {NoTopic} /\ U(v) \in User
      BY <1>1, WorkerTyped DEF WorkersSound
    <3>2. pc[v] \in Inside => U(v) # U(w) BY DEF Locked, Inside
    <3>3. pc[v] \in Inside => row'[U(v)] = row[U(v)] BY <1>5, <3>1, <3>2
    <3>4. \A t \in Topic : t <= created /\ Exists(t)' => Exists(t) BY DEF Exists
    <3> QED BY <1>7, <1>8, <3>1, <3>3, <3>4, SoundKept
  <2> QED BY <2>1, <2>2 DEF WorkersSound
<1>13. LiveAccounted'
  <2> SUFFICES ASSUME NEW x \in live
               PROVE  \/ row'[x[2]].topic = x[1]
                      \/ /\ \A u \in User : row'[u].topic # x[1]
                         /\ \/ x[1] \in givenUp
                            \/ \E v \in Worker : pc'[v] = "save" /\ topic'[v] = x[1]
    BY DEF LiveAccounted
  <2>1. x = <<x[1], x[2]>> /\ x[1] \in Topic /\ x[2] \in User BY <1>1 DEF TypeOK
  <2>2. CASE row[x[2]].topic = x[1] /\ x[2] # U(w) BY <1>5, <2>1, <2>2
  <2>3. CASE row[x[2]].topic = x[1] /\ x[2] = U(w)
    <3>1. x[1] = recreate[w] BY <1>9, <2>1, <2>3
    <3>2. x[1] \in givenUp BY <1>1, <1>9, <2>1, <3>1 DEF Sound, Replaces
    <3>3. \A u \in User : row[u].topic = x[1] => u = U(w)
      <4>1. \A u \in User : row[u].topic = x[1] => Mentions(u, x[1]) BY DEF Mentions
      <4>2. Mentions(U(w), x[1]) BY <2>3 DEF Mentions
      <4> QED BY <1>1, <1>2, <2>1, <4>1, <4>2 DEF TopicsOwned
    <3>4. \A u \in User : row'[u].topic # x[1] BY <1>5, <1>9, <2>1, <3>3
    <3> QED BY <3>2, <3>4
  <2>4. CASE /\ \A u \in User : row[u].topic # x[1]
             /\ x[1] \in givenUp \/ \E v \in Worker : pc[v] = "save" /\ topic[v] = x[1]
    <3>1. \A u \in User : row'[u].topic # x[1] BY <1>5, <1>9, <2>1, <2>4
    <3>2. \A v \in Worker : pc[v] = "save" => pc'[v] = "save" /\ topic'[v] = topic[v]
      BY <1>7 DEF Same
    <3> QED BY <2>4, <3>1, <3>2
  <2> QED BY <1>1, <2>2, <2>3, <2>4 DEF LiveAccounted
<1>14. RouteSettles'
  <2> SUFFICES ASSUME NEW u \in User, row'[u] # NoRow, row'[u].ticket # lastSet'[u]
               PROVE  \E v \in overwrote' : U(v)' = u /\ pc'[v] \in {"send", "set"}
    BY DEF RouteSettles
  <2>1. row'[u] = row[u] BY <1>5
  <2>2. PICK v \in overwrote : U(v) = u /\ pc[v] \in {"send", "set"}
    BY <1>1, <2>1 DEF RouteSettles
  <2>3. v \in Worker \ {w} BY <1>1, <1>3, <2>2 DEF TypeOK
  <2> QED BY <1>7, <2>2, <2>3 DEF Same, U
<1>15. FewGone'
  <2>1. \A t \in Topic : Gone(t)' <=> Gone(t) BY DEF Gone, Exists
  <2> QED BY <1>1, <2>1 DEF FewGone
<1>16. DeletionLosesNoReport' BY <1>1 DEF DeletionLosesNoReport
<1> QED BY <1>6, <1>10, <1>11, <1>12, <1>13, <1>14, <1>15, <1>16 DEF IInv

(* The row is read under the lock.                                         *)
LEMMA ReadRowKeeps == ASSUME IInv, NEW w \in Worker, ReadRow(w) PROVE IInv'
<1>1. TypeOK BY DEF IInv
<1>2. /\ pc[w] = "topic" /\ ~Locked(U(w)) /\ existing' = [existing EXCEPT ![w] = row[U(w)]]
      /\ UNCHANGED <<lastSet, overwrote, live, created, deletions, job, topic, recreate, calls,
                     faults, givenUp, dropped>>
  BY DEF ReadRow, group
<1>3. CASE row[U(w)] # NoRow /\ row[U(w)].topic # recreate[w]
  <2>1. row' = row /\ pc' = [pc EXCEPT ![w] = "found"] BY <1>3 DEF ReadRow, GoTo
  <2> QED BY <1>2, <1>3, <2>1, RowFound
<1>4. CASE ~(row[U(w)] # NoRow /\ row[U(w)].topic # recreate[w])
  <2>1. DeleteTopic(U(w), recreate[w]) /\ pc' = [pc EXCEPT ![w] = "create"]
    BY <1>4 DEF ReadRow, GoTo
  <2>2. row' = [row EXCEPT ![U(w)] = NoRow]
    <3>1. CASE row[U(w)].topic = recreate[w] BY <2>1, <3>1 DEF DeleteTopic
    <3>2. CASE row[U(w)].topic # recreate[w]
      <4>1. row' = row /\ row[U(w)] = NoRow BY <1>4, <2>1, <3>2 DEF DeleteTopic
      <4> QED BY <1>1, <4>1 DEF TypeOK
    <3> QED BY <3>1, <3>2
  <2>3. row[U(w)] = NoRow \/ row[U(w)].topic = recreate[w] BY <1>4
  <2> QED BY <1>2, <2>1, <2>2, <2>3, RowGone
<1> QED BY <1>3, <1>4

(* Telegram creates a topic, with a number nothing mentions.               *)
LEMMA CreateTopicKeeps == ASSUME IInv, NEW w \in Worker, CreateTopic(w) PROVE IInv'
<1>1. /\ TypeOK /\ TopicsOwned /\ OneInside /\ WorkersSound /\ LiveAccounted /\ RouteSettles
      /\ FewGone /\ DeletionLosesNoReport /\ Sound(w)
  BY DEF IInv, WorkersSound
<1> DEFINE c == created + 1
<1>2. /\ pc[w] = "create" /\ created < MaxTopics /\ created' = c
      /\ live' = live \cup {<<c, U(w)>>} /\ topic' = [topic EXCEPT ![w] = c]
      /\ pc' = [pc EXCEPT ![w] = "save"]
      /\ UNCHANGED <<row, lastSet, overwrote, job, existing, recreate, calls, deletions, faults,
                     givenUp, dropped>>
  BY DEF CreateTopic, GoTo, table
<1>3. created \in Nat /\ c \in Topic /\ created' \in 0..MaxTopics /\ created < c
  BY <1>1, <1>2 DEF TypeOK
<1> HIDE DEF c
<1>4. /\ row[U(w)] \in Row \cup {NoRow} /\ U(w) \in User /\ recreate[w] \in Topic \cup {NoTopic}
  BY <1>1, WorkerTyped
<1>5. w \notin overwrote /\ row[U(w)] = NoRow BY <1>1, <1>2 DEF Sound
<1>6. /\ pc'[w] = "save" /\ topic'[w] = c /\ recreate'[w] = recreate[w] /\ U(w)' = U(w)
      /\ job'[w] = job[w]
  BY <1>1, <1>2 DEF TypeOK, U
<1>7. TypeOK'
  <2>1. pc' \in [Worker -> PC] /\ topic' \in [Worker -> Topic \cup {NoTopic}]
        /\ live' \subseteq Topic \X User
    BY <1>1, <1>2, <1>3, <1>4 DEF TypeOK, PC
  <2> QED BY <1>1, <1>2, <1>3, <2>1 DEF TypeOK
<1>8. \A v \in Worker \ {w} : Same(v) BY <1>1, <1>2 DEF TypeOK, Same
<1>9. \A u \in User : ~Mentions(u, c) BY <1>1, <1>3 DEF TopicsOwned, Topic
<1>10. ASSUME NEW t \in Topic, NEW u \in User, Mentions(u, t)'
       PROVE  Mentions(u, t) \/ (t = c /\ u = U(w))
  <2>1. CASE row'[u].topic = t BY <1>2, <2>1 DEF Mentions
  <2>2. CASE <<t, u>> \in live' BY <1>2, <2>2 DEF Mentions
  <2>3. CASE \E v \in Worker : U(v)' = u /\ Refers(v, t)'
    <3>1. PICK v \in Worker : U(v)' = u /\ Refers(v, t)' BY <2>3
    <3>2. CASE v = w
      BY <1>2, <1>6, <3>1, <3>2 DEF Refers, Mentions
    <3>3. CASE v # w
      <4>1. U(v)' = U(v) /\ (Refers(v, t)' <=> Refers(v, t))
        BY <1>8, <3>3 DEF Same, U, Refers
      <4> QED BY <3>1, <4>1 DEF Mentions
    <3> QED BY <3>2, <3>3
  <2> QED BY <1>10, <2>1, <2>2, <2>3 DEF Mentions
<1>11. TopicsOwned'
  <2> SUFFICES ASSUME NEW t \in Topic, NEW u \in User, Mentions(u, t)'
               PROVE  t <= created' /\ \A v \in User : Mentions(v, t)' => v = u
    BY DEF TopicsOwned
  <2>1. CASE t = c
    <3>1. \A v \in User : Mentions(v, t)' => v = U(w) BY <1>9, <1>10, <2>1
    <3>2. t <= created' BY <1>2, <1>3, <2>1
    <3> QED BY <3>1, <3>2
  <2>2. CASE t # c
    <3>1. Mentions(u, t) BY <1>10, <2>2
    <3>2. t <= created /\ \A v \in User : Mentions(v, t) => v = u BY <1>1, <3>1 DEF TopicsOwned
    <3>3. t <= created' BY <1>2, <1>3, <3>2
    <3> QED BY <1>10, <2>2, <3>2, <3>3
  <2> QED BY <2>1, <2>2
<1>12. OneInside'
  <2>1. pc'[w] \in Inside => U(w)' = U(w) /\ pc[w] \in Inside BY <1>2, <1>6 DEF Inside
  <2> QED BY <1>1, <1>8, <2>1, InsideKept
<1>13. \A t \in Topic : t <= created /\ Exists(t)' => Exists(t)
  BY <1>2, <1>3 DEF Exists
<1>14. WorkersSound'
  <2>1. Sound(w)'
    <3>1. recreate[w] # c
      <4>1. Refers(w, recreate[w]) BY <1>2 DEF Refers
      <4>2. recreate[w] \in Topic => Mentions(U(w), recreate[w]) BY <4>1 DEF Mentions
      <4> QED BY <1>3, <1>4, <1>9, <4>2
    <3>2. Replaces(w)'
      <4>1. recreate[w] # NoTopic =>
              /\ recreate[w] \in givenUp /\ recreate[w] <= created
              /\ (faults = 0 => ~Exists(recreate[w]))
        BY <1>1, <1>2 DEF Sound, Replaces
      <4>2. recreate[w] # NoTopic => recreate[w] \in Topic BY <1>4
      <4>3. recreate[w] # NoTopic => recreate[w] <= created'
        BY <1>2, <1>3, <4>1, <4>2
      <4> QED BY <1>2, <1>6, <1>13, <4>1, <4>2, <4>3 DEF Replaces
    <3>3. pc'[w] # "idle" /\ job'[w].kind \in {"forward", "error"} => U(w)' \notin Cabinet
      BY <1>1, <1>2, <1>6 DEF Sound
    <3> QED BY <1>2, <1>3, <1>5, <1>6, <3>1, <3>2, <3>3 DEF Sound
  <2>2. ASSUME NEW v \in Worker \ {w} PROVE Sound(v)'
    <3>1. Sound(v) /\ recreate[v] \in Topic \cup {NoTopic} /\ U(v) \in User
      BY <1>1, WorkerTyped DEF WorkersSound
    <3>2. created' \in Nat /\ created <= created' BY <1>2, <1>3
    <3> QED BY <1>2, <1>3, <1>8, <1>13, <3>1, <3>2, SoundKept
  <2> QED BY <2>1, <2>2 DEF WorkersSound
<1>15. LiveAccounted'
  <2> SUFFICES ASSUME NEW x \in live'
               PROVE  \/ row'[x[2]].topic = x[1]
                      \/ /\ \A u \in User : row'[u].topic # x[1]
                         /\ \/ x[1] \in givenUp'
                            \/ \E v \in Worker : pc'[v] = "save" /\ topic'[v] = x[1]
    BY DEF LiveAccounted
  <2>1. CASE x = <<c, U(w)>>
    <3>1. \A u \in User : row[u].topic # c BY <1>9 DEF Mentions
    <3> QED BY <1>2, <1>6, <2>1, <3>1
  <2>2. CASE x \in live
    <3>1. \/ row[x[2]].topic = x[1]
          \/ /\ \A u \in User : row[u].topic # x[1]
             /\ x[1] \in givenUp \/ \E v \in Worker : pc[v] = "save" /\ topic[v] = x[1]
      BY <1>1, <2>2 DEF LiveAccounted
    <3>2. \A v \in Worker : pc[v] = "save" => pc'[v] = "save" /\ topic'[v] = topic[v]
      BY <1>2, <1>8 DEF Same
    <3> QED BY <1>2, <3>1, <3>2
  <2> QED BY <1>2, <2>1, <2>2
<1>16. RouteSettles' BY <1>2, <1>5, SettlesOn
<1>17. FewGone'
  <2>1. ASSUME NEW t \in Topic, Gone(t)' PROVE Gone(t)
    <3>1. t <= created' /\ ~Exists(t)' BY <2>1 DEF Gone
    <3>2. t # c BY <1>2, <1>4, <3>1 DEF Exists
    <3>3. t <= created BY <1>2, <1>3, <3>1, <3>2 DEF c
    <3>4. ~Exists(t) BY <1>2, <3>1 DEF Exists
    <3> QED BY <3>3, <3>4 DEF Gone
  <2> QED BY <1>1, <1>2, <2>1 DEF FewGone
<1>18. DeletionLosesNoReport' BY <1>1, <1>2 DEF DeletionLosesNoReport
<1> QED BY <1>7, <1>11, <1>12, <1>14, <1>15, <1>16, <1>17, <1>18 DEF IInv

(* The row of the new topic is saved, where there is none.                 *)
LEMMA SaveCreatedKeeps == ASSUME IInv, NEW w \in Worker, SaveCreated(w) PROVE IInv'
<1>1. /\ TypeOK /\ TopicsOwned /\ OneInside /\ WorkersSound /\ LiveAccounted /\ RouteSettles
      /\ FewGone /\ DeletionLosesNoReport /\ Sound(w)
  BY DEF IInv, WorkersSound
<1> DEFINE r == [topic |-> topic[w], ticket |-> NoTicket]
<1>2. /\ pc[w] = "save" /\ row' = [row EXCEPT ![U(w)] = r]
      /\ lastSet' = [lastSet EXCEPT ![U(w)] = NoTicket] /\ Return(w, topic[w])
      /\ UNCHANGED <<live, created, deletions, job, existing, recreate, calls, faults, overwrote,
                     givenUp, dropped>>
  BY DEF SaveCreated, SaveTopic, group
<1>3. /\ topic[w] \in Topic /\ topic[w] # recreate[w] /\ row[U(w)] = NoRow
      /\ w \notin overwrote
  BY <1>1, <1>2 DEF Sound, Carries
<1>4. r \in Row /\ r.topic = topic[w] /\ r.ticket = NoTicket BY <1>3 DEF Row
<1> HIDE DEF r
<1>5. /\ U(w) \in User /\ recreate[w] \in Topic \cup {NoTopic} BY <1>1, WorkerTyped
<1>6. Mentions(U(w), topic[w]) BY <1>2 DEF Mentions, Refers, Carries
<1>7. PICK place \in {"copy", "send", "set"} : pc' = [pc EXCEPT ![w] = place]
  BY <1>1, <1>2, ReturnPlace
<1>8. topic' = topic
  <2>1. topic' = [topic EXCEPT ![w] = topic[w]] BY <1>1, <1>2, ReturnPlace
  <2> QED BY <1>1, <2>1 DEF TypeOK
<1>9. /\ pc'[w] = place /\ topic'[w] = topic[w] /\ recreate'[w] = recreate[w]
      /\ U(w)' = U(w) /\ job'[w] = job[w]
  BY <1>1, <1>2, <1>7, <1>8 DEF TypeOK, U
<1>10. \A u \in User : row'[u] = IF u = U(w) THEN r ELSE row[u] BY <1>1, <1>2 DEF TypeOK
<1>11. TypeOK'
  <2>1. pc' \in [Worker -> PC] BY <1>1, <1>7 DEF TypeOK, PC
  <2>2. row' \in [User -> Row \cup {NoRow}] /\ lastSet' \in [User -> Ticket \cup {NoTicket}]
    BY <1>1, <1>2, <1>4 DEF TypeOK
  <2> QED BY <1>1, <1>2, <1>8, <2>1, <2>2 DEF TypeOK
<1>12. \A v \in Worker \ {w} : Same(v) BY <1>1, <1>2, <1>7, <1>8 DEF TypeOK, Same
<1>13. created \in Nat BY <1>1 DEF TypeOK
<1>14. TopicsOwned'
  <2>1. \A u \in User : row'[u].topic \in Topic => Mentions(u, row'[u].topic)
    <3>1. row'[U(w)].topic = topic[w] BY <1>4, <1>5, <1>10
    <3>2. \A u \in User \ {U(w)} : row'[u].topic = row[u].topic BY <1>10
    <3> QED BY <1>6, <3>1, <3>2 DEF Mentions
  <2>2. \A t \in Topic : Refers(w, t)' => Mentions(U(w), t)
    BY <1>2, <1>6, <1>9 DEF Refers, Mentions, Carries
  <2>3. \A t \in Topic, u \in User : Mentions(u, t)' => Mentions(u, t)
    BY <1>2, <1>9, <1>12, <2>1, <2>2, MentionsKept
  <2> QED BY <1>1, <1>2, <1>13, <2>3, OwnedKept
<1>15. OneInside'
  <2>1. pc'[w] \notin Inside BY <1>9 DEF Inside
  <2> QED BY <1>1, <1>12, <2>1, InsideKept
<1>16. WorkersSound'
  <2>1. Sound(w)'
    <3>1. Replaces(w)' BY <1>1, <1>2, <1>9 DEF Sound, Replaces, Exists
    <3>2. pc'[w] # "idle" /\ job'[w].kind \in {"forward", "error"} => U(w)' \notin Cabinet
      BY <1>1, <1>2, <1>9 DEF Sound
    <3> QED BY <1>2, <1>3, <1>9, <3>1, <3>2 DEF Sound
  <2>2. ASSUME NEW v \in Worker \ {w} PROVE Sound(v)'
    <3>1. Sound(v) /\ recreate[v] \in Topic \cup {NoTopic} /\ U(v) \in User
      BY <1>1, WorkerTyped DEF WorkersSound
    <3>2. pc[v] \in Inside => U(v) # U(w) BY <1>1, <1>2 DEF OneInside, Inside
    <3>3. pc[v] \in Inside => row'[U(v)] = row[U(v)] BY <1>10, <3>1, <3>2
    <3>4. \A t \in Topic : t <= created /\ Exists(t)' => Exists(t) BY <1>2 DEF Exists
    <3> QED BY <1>2, <1>12, <1>13, <3>1, <3>3, <3>4, SoundKept
  <2> QED BY <2>1, <2>2 DEF WorkersSound
<1>17. LiveAccounted'
  <2> SUFFICES ASSUME NEW x \in live
               PROVE  \/ row'[x[2]].topic = x[1]
                      \/ /\ \A u \in User : row'[u].topic # x[1]
                         /\ \/ x[1] \in givenUp
                            \/ \E v \in Worker : pc'[v] = "save" /\ topic'[v] = x[1]
    BY <1>2 DEF LiveAccounted
  <2>1. x = <<x[1], x[2]>> /\ x[1] \in Topic /\ x[2] \in User BY <1>1 DEF TypeOK
  <2>2. CASE x[1] = topic[w]
    <3>1. Mentions(x[2], x[1]) BY <2>1 DEF Mentions
    <3>2. x[2] = U(w) BY <1>1, <1>5, <1>6, <2>1, <2>2, <3>1 DEF TopicsOwned
    <3> QED BY <1>4, <1>5, <1>10, <2>2, <3>2
  <2>3. CASE x[1] # topic[w] /\ row[x[2]].topic = x[1]
    <3>1. x[2] # U(w) BY <1>3, <2>1, <2>3 DEF NoRow
    <3> QED BY <1>10, <2>1, <2>3, <3>1
  <2>4. CASE /\ x[1] # topic[w] /\ \A u \in User : row[u].topic # x[1]
             /\ x[1] \in givenUp \/ \E v \in Worker : pc[v] = "save" /\ topic[v] = x[1]
    <3>1. \A u \in User : row'[u].topic # x[1] BY <1>4, <1>10, <2>4
    <3>2. \A v \in Worker : pc[v] = "save" /\ topic[v] = x[1] =>
                              pc'[v] = "save" /\ topic'[v] = x[1]
      BY <1>12, <2>4 DEF Same
    <3> QED BY <2>4, <3>1, <3>2
  <2> QED BY <1>1, <2>2, <2>3, <2>4 DEF LiveAccounted
<1>18. RouteSettles'
  <2> SUFFICES ASSUME NEW u \in User, row'[u] # NoRow, row'[u].ticket # lastSet'[u]
               PROVE  \E v \in overwrote' : U(v)' = u /\ pc'[v] \in {"send", "set"}
    BY DEF RouteSettles
  <2>1. u # U(w) BY <1>1, <1>2, <1>4, <1>10 DEF TypeOK
  <2>2. row'[u] = row[u] /\ lastSet'[u] = lastSet[u] BY <1>1, <1>2, <1>10, <2>1 DEF TypeOK
  <2>3. PICK v \in overwrote : U(v) = u /\ pc[v] \in {"send", "set"}
    BY <1>1, <2>2 DEF RouteSettles
  <2>4. v \in Worker \ {w} BY <1>1, <1>3, <2>3 DEF TypeOK
  <2> QED BY <1>2, <1>12, <2>3, <2>4 DEF Same, U
<1>19. FewGone'
  <2>1. \A t \in Topic : Gone(t)' <=> Gone(t) BY <1>2 DEF Gone, Exists
  <2> QED BY <1>1, <1>2, <2>1 DEF FewGone
<1>20. DeletionLosesNoReport' BY <1>1, <1>2 DEF DeletionLosesNoReport
<1> QED BY <1>11, <1>14, <1>15, <1>16, <1>17, <1>18, <1>19, <1>20 DEF IInv

----------------------------------------------------------------------------
(* The steps of others.                                                    *)

(* Nobody in the forwarder moves, and every topic keeps its row.           *)
LEMMA OthersKeep ==
  ASSUME IInv, TypeOK', UNCHANGED <<work, created, faults, givenUp, overwrote, dropped>>,
         \A u \in User : row'[u].topic = row[u].topic, live' \subseteq live,
         deletions <= deletions', RouteSettles', FewGone'
  PROVE  IInv'
<1>1. /\ TypeOK /\ TopicsOwned /\ OneInside /\ WorkersSound /\ LiveAccounted
      /\ DeletionLosesNoReport
  BY DEF IInv
<1>2. UNCHANGED <<pc, job, existing, topic, recreate>> BY DEF work
<1>3. created \in Nat /\ deletions \in Nat /\ deletions' \in Nat BY <1>1 DEF TypeOK
<1>4. TopicsOwned'
  <2>1. \A t \in Topic, u \in User : Mentions(u, t)' => Mentions(u, t)
    BY <1>2 DEF Mentions, Refers, U
  <2> QED BY <1>1, <1>3, <2>1, OwnedKept
<1>5. OneInside' BY <1>1, <1>2 DEF OneInside, U
<1>6. WorkersSound'
  <2> SUFFICES ASSUME NEW v \in Worker PROVE Sound(v)' BY DEF WorkersSound
  <2>1. Sound(v) /\ recreate[v] \in Topic \cup {NoTopic} /\ U(v) \in User
    BY <1>1, WorkerTyped DEF WorkersSound
  <2>2. Same(v) BY <1>2 DEF Same
  <2>3. row[U(v)] = NoRow => row'[U(v)] = NoRow
    <3>1. row[U(v)] \in Row \cup {NoRow} /\ row'[U(v)] \in Row \cup {NoRow}
      BY <1>1, <2>1 DEF TypeOK
    <3> QED BY <2>1, <3>1, Rows
  <2>4. \A t \in Topic : t <= created /\ Exists(t)' => Exists(t) BY DEF Exists
  <2> QED BY <1>3, <2>1, <2>2, <2>3, <2>4, SoundKept
<1>7. LiveAccounted'
  <2>1. live \subseteq Topic \X User BY <1>1 DEF TypeOK
  <2> QED BY <1>1, <1>2, <2>1, LiveKept
<1>8. DeletionLosesNoReport' BY <1>1, <1>3 DEF DeletionLosesNoReport
<1> QED BY <1>4, <1>5, <1>6, <1>7, <1>8 DEF IInv

(* A message in a private chat leaves the ticket.                          *)
LEMMA TelegramMessageKeeps == ASSUME IInv, NEW u \in User, TelegramMessage(u) PROVE IInv'
<1>1. TypeOK /\ RouteSettles /\ FewGone BY DEF IInv
<1>2. /\ SetActiveTicket(u, NoTicket) /\ calls < MaxCalls /\ calls' = calls + 1
      /\ UNCHANGED <<live, created, deletions, pc, job, existing, topic, recreate, overwrote,
                     faults, givenUp, dropped>>
  BY DEF TelegramMessage, Call, group, work
<1>3. /\ row' \in [User -> Row \cup {NoRow}] /\ lastSet' \in [User -> Ticket \cup {NoTicket}]
      /\ \A v \in User : row'[v].topic = row[v].topic
      /\ \A v \in User \ {u} : row'[v] = row[v] /\ lastSet'[v] = lastSet[v]
      /\ row'[u] # NoRow => row'[u].ticket = lastSet'[u]
  BY <1>1, <1>2, TicketSet
<1>4. TypeOK'
  <2>1. calls' \in 0..MaxCalls BY <1>1, <1>2 DEF TypeOK
  <2> QED BY <1>1, <1>2, <1>3, <2>1 DEF TypeOK
<1>5. RouteSettles'
  <2> SUFFICES ASSUME NEW v \in User, row'[v] # NoRow, row'[v].ticket # lastSet'[v]
               PROVE  \E w \in overwrote' : U(w)' = v /\ pc'[w] \in {"send", "set"}
    BY DEF RouteSettles
  <2>1. v # u BY <1>3
  <2>2. PICK w \in overwrote : U(w) = v /\ pc[w] \in {"send", "set"}
    BY <1>1, <1>3, <2>1 DEF RouteSettles
  <2> QED BY <1>2, <2>2 DEF U
<1>6. FewGone'
  <2>1. \A t \in Topic : Gone(t)' <=> Gone(t) BY <1>2 DEF Gone, Exists
  <2> QED BY <1>1, <1>2, <2>1 DEF FewGone
<1>7. deletions <= deletions' /\ UNCHANGED work BY <1>1, <1>2 DEF TypeOK, work
<1> QED BY <1>2, <1>3, <1>4, <1>5, <1>6, <1>7, OthersKeep

(* A topic is deleted in Telegram: one more is gone.                       *)
LEMMA DeletedInTelegramKeeps == ASSUME IInv, DeletedInTelegram PROVE IInv'
<1>1. TypeOK /\ RouteSettles /\ FewGone BY DEF IInv
<1>2. PICK x \in live : live' = live \ {x} BY DEF DeletedInTelegram
<1>3. /\ deletions < MaxDeletions /\ deletions' = deletions + 1
      /\ UNCHANGED <<row, lastSet, overwrote, created, pc, job, existing, topic, recreate,
                     calls, faults, givenUp, dropped>>
  BY DEF DeletedInTelegram, table, work
<1>4. deletions \in Nat /\ deletions' \in 0..MaxDeletions BY <1>1, <1>3 DEF TypeOK
<1>5. TypeOK' BY <1>1, <1>2, <1>3, <1>4 DEF TypeOK
<1>6. RouteSettles' BY <1>1, <1>3 DEF RouteSettles, U
<1>7. FewGone'
  <2>1. deletions' # 0 /\ (deletions' <= 1 => deletions = 0) BY <1>3, <1>4
  <2>2. ASSUME NEW t \in Topic, Gone(t)', deletions = 0 PROVE t = x[1]
    <3>1. Exists(t) BY <1>1, <1>3, <2>2 DEF FewGone, Gone
    <3>2. PICK u \in User : <<t, u>> \in live BY <3>1 DEF Exists
    <3>3. <<t, u>> \notin live' BY <2>2, <3>2 DEF Gone, Exists
    <3>4. <<t, u>> = x BY <1>2, <3>2, <3>3
    <3> QED BY <3>4
  <2> QED BY <2>1, <2>2 DEF FewGone
<1>8. deletions <= deletions' /\ UNCHANGED work BY <1>3, <1>4 DEF work
<1> QED BY <1>2, <1>3, <1>5, <1>6, <1>7, <1>8, OthersKeep

----------------------------------------------------------------------------
(* What follows.                                                           *)

(* A group without topics.                                                 *)
LEMMA InvariantStarts == Init => IInv
<1> SUFFICES ASSUME Init PROVE IInv OBVIOUS
<1>1. \A w \in Worker : pc[w] = "idle" /\ existing[w] = NoRow BY DEF Init
<1>2. \A u \in User : row[u] = NoRow BY DEF Init
<1>3. NoRow.topic = NoTopic /\ NoTopic \notin Topic BY DEF NoRow
<1>4. TypeOK
  <2>1. (CHOOSE u \in User : TRUE) \in User OBVIOUS
  <2>2. job \in [Worker -> Job] BY <2>1 DEF Init, Job, Kind
  <2>3. calls \in 0..MaxCalls /\ created \in 0..MaxTopics /\ deletions \in 0..MaxDeletions
        /\ faults \in 0..MaxFaults
    BY DEF Init
  <2>4. /\ row \in [User -> Row \cup {NoRow}] /\ pc \in [Worker -> PC]
        /\ existing \in [Worker -> Row \cup {NoRow}]
        /\ topic \in [Worker -> Topic \cup {NoTopic}]
        /\ recreate \in [Worker -> Topic \cup {NoTopic}]
        /\ lastSet \in [User -> Ticket \cup {NoTicket}]
    BY DEF Init, PC
  <2>5. live = {} /\ overwrote = {} /\ givenUp = {} /\ dropped = {} BY DEF Init
  <2> QED BY <2>2, <2>3, <2>4, <2>5 DEF TypeOK
<1>5. live = {} /\ overwrote = {} /\ dropped = {} /\ created = 0 BY DEF Init
<1>6. TopicsOwned
  <2>1. \A t \in Topic, u \in User : ~Mentions(u, t)
    BY <1>1, <1>2, <1>3, <1>5 DEF Mentions, Refers, Carries
  <2> QED BY <2>1 DEF TopicsOwned
<1>7. OneInside BY <1>1 DEF OneInside, Inside
<1>8. WorkersSound BY <1>1, <1>5 DEF WorkersSound, Sound, Replaces, Carries
<1>9. LiveAccounted /\ RouteSettles /\ DeletionLosesNoReport
  BY <1>2, <1>5 DEF LiveAccounted, RouteSettles, DeletionLosesNoReport
<1>10. FewGone BY <1>5 DEF FewGone, Gone
<1> QED BY <1>4, <1>6, <1>7, <1>8, <1>9, <1>10 DEF IInv

(* Every step.                                                             *)
LEMMA InvariantKept == ASSUME IInv, [Next]_vars PROVE IInv'
<1>1. CASE \E w \in Worker : Step(w)
  <2>1. PICK w \in Worker : Step(w) BY <1>1
  <2> QED BY <2>1, ReadRowKeeps, UseFoundKeeps, SaveRenamedKeeps, CreateTopicKeeps,
             SaveCreatedKeeps, TopicFailsKeeps, CopyFirstKeeps, CopyFailsKeeps,
             SendReportKeeps, RecordTicketKeeps, RecordFailsKeeps, UploadKeeps DEF Step
<1>2. CASE \E w \in Worker, u \in User, kind \in Kind, k \in Ticket \cup {NoTicket} :
             Start(w, u, kind, k)
  BY <1>2, StartKeeps
<1>3. CASE \E u \in User : TelegramMessage(u) BY <1>3, TelegramMessageKeeps
<1>4. CASE DeletedInTelegram BY <1>4, DeletedInTelegramKeeps
<1>5. CASE UNCHANGED vars
  <2>1. UNCHANGED <<row, lastSet, overwrote, live, created, deletions, pc, job, existing, topic,
                    recreate, calls, faults, givenUp, dropped>>
    BY <1>5 DEF vars, table, group, work
  <2>2. TypeOK' BY <2>1 DEF IInv, TypeOK
  <2>3. RouteSettles' BY <2>1 DEF IInv, RouteSettles, U
  <2>4. FewGone'
    <3>1. \A t \in Topic : Gone(t)' <=> Gone(t) BY <2>1 DEF Gone, Exists
    <3> QED BY <2>1, <3>1 DEF IInv, FewGone
  <2>5. deletions <= deletions' /\ UNCHANGED work BY <2>1 DEF IInv, TypeOK, work
  <2> QED BY <2>1, <2>2, <2>3, <2>4, <2>5, OthersKeep
<1> QED BY <1>1, <1>2, <1>3, <1>4, <1>5 DEF Next

(* The invariant of every behaviour of the forwarder.                      *)
THEOREM Invariant == Spec => []IInv
<1>1. Init => IInv BY InvariantStarts
<1>2. IInv /\ [Next]_vars => IInv' BY InvariantKept
<1> QED BY <1>1, <1>2, PTL DEF Spec

(* The values of the forwarder's variables and of topic_mappings.          *)
THEOREM TypeCorrect == Spec => []TypeOK
<1>1. IInv => TypeOK BY DEF IInv
<1> QED BY <1>1, Invariant, PTL

(* Operators are heard in every topic but those the forwarder gave up:     *)
(* Topic under the topic lock (forwarder.go) makes no second one.          *)
THEOREM TopicsSafe == Spec => []TopicsAccounted
<1>1. IInv => TopicsAccounted
  <2> SUFFICES ASSUME IInv, NEW x \in live
               PROVE  \/ row[x[2]].topic = x[1]
                      \/ Route(x[1]) = "ignored"
                         /\ \/ x[1] \in givenUp
                            \/ \E w \in Worker : pc[w] = "save" /\ topic[w] = x[1]
    BY DEF TopicsAccounted
  <2>1. (\A u \in User : row[u].topic # x[1]) => Route(x[1]) = "ignored" BY DEF Route
  <2> QED BY <2>1 DEF IInv, LiveAccounted
<1> QED BY <1>1, Invariant, PTL

(* An operator's answer goes to the ticket set last, or a call that has    *)
(* saved an older row is about to set its own.                             *)
THEOREM RouteSafe == Spec => []RouteSettles
<1>1. IInv => RouteSettles BY DEF IInv
<1> QED BY <1>1, Invariant, PTL

(* One deleted topic costs no report: the second copy goes into another    *)
(* topic than the first, so that it takes a second deletion to fail.       *)
THEOREM ReportsSafe == Spec => []DeletionLosesNoReport
<1>1. IInv => DeletionLosesNoReport BY DEF IInv
<1> QED BY <1>1, Invariant, PTL
=============================================================================
