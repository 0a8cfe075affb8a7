-------------------------- MODULE KeyedLockProofs --------------------------
(***************************************************************************)
(* For any finite set of callers and any ids and entries: the invariants   *)
(* of KeyedLock, mutual exclusion and the refinement of Mutex.             *)
(*                                                                         *)
(* Mutual exclusion is not inductive: it depends on two callers with the   *)
(* same id having the same entry, which depends on releaseRef deleting an  *)
(* entry only when its count says nobody else uses it, which depends on    *)
(* the count being right.  IInv is the conjunction of these.               *)
(***************************************************************************)
EXTENDS KeyedLock, FiniteSetTheorems, TLAPS

IInv == TypeOK /\ MapMatchesUsers /\ RefsCountUsers /\ TokenAccounted

(* The users of an entry are finitely many callers, so counting them means *)
(* something.                                                              *)
LEMMA UsersFinite ==
  ASSUME NEW e \in Entry
  PROVE  /\ IsFiniteSet(Users(e))
         /\ Cardinality(Users(e)) \in Nat
<1>1. Users(e) \subseteq Caller BY DEF Users
<1>2. IsFiniteSet(Users(e)) BY <1>1, FS_Subset, CallerAssumption
<1> QED BY <1>2, FS_CardinalityType

(* A caller that joins an entry it did not use adds one to its count.      *)
LEMMA CountJoin ==
  ASSUME NEW e \in Entry, NEW c \in Caller, c \notin Users(e),
         Users(e)' = Users(e) \cup {c}
  PROVE  Cardinality(Users(e)') = Cardinality(Users(e)) + 1
BY UsersFinite, FS_AddElement

(* A caller that leaves its entry takes one from its count.                *)
LEMMA CountLeave ==
  ASSUME NEW e \in Entry, NEW c \in Caller, c \in Users(e),
         Users(e)' = Users(e) \ {c}
  PROVE  Cardinality(Users(e)') = Cardinality(Users(e)) - 1
BY UsersFinite, FS_RemoveElement

(* An entry counted once is used by the caller that uses it and no other.  *)
LEMMA LastUser ==
  ASSUME NEW e \in Entry, NEW c \in Caller, c \in Users(e),
         Cardinality(Users(e)) = 1
  PROVE  Users(e) = {c}
<1>1. Cardinality(Users(e) \ {c}) = 0
  <2>1. Cardinality(Users(e) \ {c}) = Cardinality(Users(e)) - 1
    BY UsersFinite, FS_RemoveElement
  <2> QED BY <2>1
<1>2. IsFiniteSet(Users(e) \ {c}) BY UsersFinite, FS_RemoveElement
<1>3. Users(e) \ {c} = {} BY <1>1, <1>2, FS_EmptySet
<1> QED BY <1>3

(* An entry with a user is counted at least once.                          *)
LEMMA CountPositive ==
  ASSUME NEW e \in Entry, NEW c \in Caller, c \in Users(e)
  PROVE  Cardinality(Users(e)) >= 1
<1>1. Cardinality(Users(e)) # 0 BY UsersFinite, FS_EmptySet
<1> QED BY <1>1, UsersFinite

(* Nobody uses anything at the start.                                      *)
LEMMA InitIInv == Init => IInv
<1> SUFFICES ASSUME Init PROVE IInv OBVIOUS
<1>1. TypeOK BY DEF Init, TypeOK, PC
<1>2. MapMatchesUsers BY DEF Init, MapMatchesUsers
<1>3. RefsCountUsers
  <2> SUFFICES ASSUME NEW e \in Entry PROVE refs[e] = Cardinality(Users(e))
    BY DEF RefsCountUsers
  <2>1. Users(e) = {} BY DEF Init, Users
  <2>2. Cardinality(Users(e)) = 0 BY <2>1, FS_EmptySet
  <2> QED BY <2>2 DEF Init
<1>4. TokenAccounted BY DEF Init, TokenAccounted
<1> QED BY <1>1, <1>2, <1>3, <1>4 DEF IInv

----------------------------------------------------------------------------
(* Joining the entry of the id: the caller becomes one more of its users,  *)
(* and its token stays where it was.                                       *)
LEMMA JoinPreserves ==
  ASSUME IInv, NEW c \in Caller, NEW i \in Id, Register(c, i), Join(c, i)
  PROVE  IInv'
<1>1. PICK e \in Entry : e = entries[i] /\ e # NoEntry
  BY EntryAssumption DEF IInv, TypeOK, Join
<1>2. TypeOK' BY <1>1 DEF IInv, TypeOK, Register, Join, PC
<1>3. Users(e)' = Users(e) \cup {c} /\ c \notin Users(e)
  BY <1>1 DEF IInv, TypeOK, Register, Join, Users
<1>4. \A f \in Entry : f # e => Users(f)' = Users(f)
  BY <1>1 DEF IInv, TypeOK, Register, Join, Users
<1>5. MapMatchesUsers'
  <2>1. \A d \in Caller : (pc[d] # "idle")' =>
           (mine[d] # NoEntry /\ entries[key[d]] = mine[d])'
    BY <1>1 DEF IInv, TypeOK, MapMatchesUsers, Register, Join
  <2>2. \A j \in Id : (entries[j] # NoEntry => Users(entries[j]) # {})'
    BY <1>1, <1>3, <1>4 DEF IInv, TypeOK, MapMatchesUsers, Register, Join
  <2>3. \A j, k \in Id :
          (entries[j] # NoEntry /\ entries[j] = entries[k] => j = k)'
    BY DEF IInv, MapMatchesUsers, Join
  <2> QED BY <2>1, <2>2, <2>3 DEF MapMatchesUsers
<1>6. RefsCountUsers'
  <2> SUFFICES ASSUME NEW f \in Entry
               PROVE  (refs[f] = Cardinality(Users(f)))'
    BY DEF RefsCountUsers
  <2>1. CASE f = e
    <3>1. Cardinality(Users(e)') = Cardinality(Users(e)) + 1
      BY <1>1, <1>3, CountJoin
    <3> QED BY <1>1, <2>1, <3>1 DEF IInv, TypeOK, RefsCountUsers, Join
  <2>2. CASE f # e
    BY <1>1, <1>4, <2>2 DEF IInv, TypeOK, RefsCountUsers, Join
  <2> QED BY <2>1, <2>2
<1>7. TokenAccounted'
  <2>1. \A f \in Entry : Holders(f)' = Holders(f)
    BY <1>1 DEF IInv, TypeOK, Register, Join, Holders
  <2> QED BY <2>1 DEF IInv, TypeOK, TokenAccounted, Join
<1> QED BY <1>2, <1>5, <1>6, <1>7 DEF IInv

(* A fresh entry has its caller as only user and its token in the channel. *)
LEMMA AllocatePreserves ==
  ASSUME IInv, NEW c \in Caller, NEW i \in Id, Register(c, i), Allocate(c, i)
  PROVE  IInv'
<1>1. PICK e \in Entry :
        /\ ~InUse(e)
        /\ entries' = [entries EXCEPT ![i] = e]
        /\ token' = [token EXCEPT ![e] = TRUE]
        /\ refs' = [refs EXCEPT ![e] = 1]
        /\ mine' = [mine EXCEPT ![c] = e]
  BY DEF Allocate
<1>2. TypeOK' BY <1>1 DEF IInv, TypeOK, Register, PC
<1>3. /\ Users(e) = {}
      /\ \A j \in Id : entries[j] # e
  BY <1>1 DEF InUse, Users
<1>4. Users(e)' = {c}
  BY <1>1, <1>3 DEF IInv, TypeOK, Register, Users
<1>5. \A f \in Entry : f # e => Users(f)' = Users(f)
  BY <1>1 DEF IInv, TypeOK, Register, Users
<1>6. MapMatchesUsers'
  <2>1. \A d \in Caller : (pc[d] # "idle")' =>
           (mine[d] # NoEntry /\ entries[key[d]] = mine[d])'
    BY <1>1, EntryAssumption
    DEF IInv, TypeOK, MapMatchesUsers, Register, Allocate
  <2>2. \A j \in Id : (entries[j] # NoEntry => Users(entries[j]) # {})'
    BY <1>1, <1>3, <1>4, <1>5 DEF IInv, TypeOK, MapMatchesUsers
  <2>3. \A j, k \in Id :
          (entries[j] # NoEntry /\ entries[j] = entries[k] => j = k)'
    BY <1>1, <1>3 DEF IInv, TypeOK, MapMatchesUsers
  <2> QED BY <2>1, <2>2, <2>3 DEF MapMatchesUsers
<1>7. RefsCountUsers'
  <2> SUFFICES ASSUME NEW f \in Entry
               PROVE  (refs[f] = Cardinality(Users(f)))'
    BY DEF RefsCountUsers
  <2>1. CASE f = e
    <3>1. Cardinality(Users(e)') = 1 BY <1>4, FS_Singleton
    <3> QED BY <1>1, <2>1, <3>1 DEF IInv, TypeOK
  <2>2. CASE f # e
    BY <1>1, <1>5, <2>2 DEF IInv, TypeOK, RefsCountUsers
  <2> QED BY <2>1, <2>2
<1>8. TokenAccounted'
  <2>1. Holders(e)' = {}
    BY <1>1, <1>3 DEF IInv, TypeOK, Register, Holders, Users
  <2>2. \A f \in Entry : f # e => Holders(f)' = Holders(f)
    BY <1>1 DEF IInv, TypeOK, Register, Holders
  <2> QED BY <1>1, <1>3, <2>1, <2>2 DEF IInv, TypeOK, TokenAccounted
<1> QED BY <1>2, <1>6, <1>7, <1>8 DEF IInv

----------------------------------------------------------------------------
(* Taking the token moves it from the channel to the caller.               *)
LEMMA TakePreserves ==
  ASSUME IInv, NEW c \in Caller, Take(c)
  PROVE  IInv'
<1>1. PICK e \in Entry : e = mine[c] /\ entries[key[c]] = e /\ e # NoEntry
  BY EntryAssumption DEF IInv, TypeOK, MapMatchesUsers, Take
<1>2. TypeOK' BY <1>1 DEF IInv, TypeOK, Take, PC
<1>3. \A f \in Entry : Users(f)' = Users(f)
  BY DEF IInv, TypeOK, Take, Users
<1>4. MapMatchesUsers'
  <2>1. \A d \in Caller : (pc[d] # "idle")' <=> pc[d] # "idle"
    BY DEF IInv, TypeOK, Take
  <2> QED BY <1>3, <2>1 DEF IInv, TypeOK, MapMatchesUsers, Take
<1>5. RefsCountUsers'
  BY <1>3 DEF IInv, TypeOK, RefsCountUsers, Take
<1>6. TokenAccounted'
  <2>1. Holders(e) = {}
    BY <1>1 DEF IInv, TypeOK, TokenAccounted, Take
  <2>2. Holders(e)' = {c}
    BY <1>1, <2>1 DEF IInv, TypeOK, Take, Holders
  <2>3. \A f \in Entry : f # e => Holders(f)' = Holders(f)
    BY <1>1 DEF IInv, TypeOK, Take, Holders
  <2> QED BY <1>1, <2>2, <2>3 DEF IInv, TypeOK, TokenAccounted, Take
<1> QED BY <1>2, <1>4, <1>5, <1>6 DEF IInv

(* Giving the token back moves it from the caller to the channel, which    *)
(* was empty.                                                              *)
LEMMA ReturnTokenPreserves ==
  ASSUME IInv, NEW c \in Caller, ReturnToken(c)
  PROVE  IInv'
<1>1. PICK e \in Entry : e = mine[c] /\ entries[key[c]] = e /\ e # NoEntry
  BY EntryAssumption DEF IInv, TypeOK, MapMatchesUsers, ReturnToken
<1>2. TypeOK' BY <1>1 DEF IInv, TypeOK, ReturnToken, PC
<1>3. \A f \in Entry : Users(f)' = Users(f)
  BY DEF IInv, TypeOK, ReturnToken, Users
<1>4. MapMatchesUsers'
  <2>1. \A d \in Caller : (pc[d] # "idle")' <=> pc[d] # "idle"
    BY DEF IInv, TypeOK, ReturnToken
  <2> QED BY <1>3, <2>1 DEF IInv, TypeOK, MapMatchesUsers, ReturnToken
<1>5. RefsCountUsers'
  BY <1>3 DEF IInv, TypeOK, RefsCountUsers, ReturnToken
<1>6. TokenAccounted'
  <2>1. Holders(e) = {c}
    <3>1. c \in Holders(e) BY <1>1 DEF ReturnToken, Holders
    <3>2. \E d \in Caller : Holders(e) = {d}
      BY <1>1 DEF IInv, TypeOK, TokenAccounted, ReturnToken
    <3> QED BY <3>1, <3>2
  <2>2. Holders(e)' = {}
    BY <1>1, <2>1 DEF IInv, TypeOK, ReturnToken, Holders
  <2>3. \A f \in Entry : f # e => Holders(f)' = Holders(f)
    BY <1>1 DEF IInv, TypeOK, ReturnToken, Holders
  <2> QED BY <1>1, <2>2, <2>3 DEF IInv, TypeOK, TokenAccounted, ReturnToken
<1> QED BY <1>2, <1>4, <1>5, <1>6 DEF IInv

(* releaseRef by a caller that holds no token: the entry goes with its     *)
(* last user, and stays in the map when another caller remains.            *)
LEMMA DropRefPreserves ==
  ASSUME IInv, NEW c \in Caller, pc[c] \in {"waiting", "leaving"},
         DropRef(c), UNCHANGED token
  PROVE  IInv'
<1>1. PICK e \in Entry : e = mine[c] /\ entries[key[c]] = e /\ e # NoEntry
  BY EntryAssumption DEF IInv, TypeOK, MapMatchesUsers
<1>2. TypeOK'
  <2>1. c \in Users(e) BY <1>1 DEF Users
  <2>2. refs[e] \in Nat /\ refs[e] >= 1
    BY <2>1, CountPositive DEF IInv, TypeOK, RefsCountUsers
  <2>3. refs' \in [Entry -> Nat]
    BY <1>1, <2>2 DEF IInv, TypeOK, DropRef
  <2> QED BY <1>1, <2>3 DEF IInv, TypeOK, DropRef, PC
<1>3. c \in Users(e) /\ Users(e)' = Users(e) \ {c}
  BY <1>1 DEF IInv, TypeOK, DropRef, Users
<1>4. \A f \in Entry : f # e => Users(f)' = Users(f)
  BY <1>1 DEF IInv, TypeOK, DropRef, Users
<1>5. refs[e] = 1 => Users(e) = {c}
  BY <1>1, <1>3, LastUser DEF IInv, RefsCountUsers
<1>6. refs[e] # 1 => Users(e)' # {}
  <2> SUFFICES ASSUME refs[e] # 1, Users(e)' = {} PROVE FALSE
    OBVIOUS
  <2>1. Users(e) = {c} BY <1>3
  <2>2. Cardinality(Users(e)) = 1 BY <2>1, FS_Singleton
  <2> QED BY <2>2 DEF IInv, RefsCountUsers
<1>7. MapMatchesUsers'
  <2>1. ASSUME NEW d \in Caller, (pc[d] # "idle")'
        PROVE  (mine[d] # NoEntry /\ entries[key[d]] = mine[d])'
    <3>1. d # c /\ pc[d] # "idle" BY <2>1 DEF IInv, TypeOK, DropRef
    <3>2. mine[d] # NoEntry /\ entries[key[d]] = mine[d]
      BY <3>1 DEF IInv, MapMatchesUsers
    <3>3. refs[e] = 1 => key[d] # key[c]
      BY <1>1, <1>5, <3>1, <3>2 DEF Users
    <3> QED BY <1>1, <3>2, <3>3 DEF IInv, TypeOK, DropRef
  <2>2. ASSUME NEW j \in Id, (entries[j] # NoEntry)'
        PROVE  (Users(entries[j]) # {})'
    <3>1. PICK f \in Entry : f = entries[j] /\ entries'[j] = f
      BY <1>1, <2>2 DEF IInv, TypeOK, DropRef
    <3>2. CASE f = e
      <4>1. j = key[c]
        BY <1>1, <3>1, <3>2 DEF IInv, TypeOK, MapMatchesUsers
      <4>2. refs[e] # 1
        BY <1>1, <2>2, <4>1 DEF IInv, TypeOK, DropRef
      <4> QED BY <1>6, <3>1, <3>2, <4>2
    <3>3. CASE f # e
      <4>1. Users(f) # {}
        BY <3>1, EntryAssumption DEF IInv, MapMatchesUsers
      <4> QED BY <1>4, <3>1, <3>3, <4>1
    <3> QED BY <3>2, <3>3
  <2>3. \A j, k \in Id :
          (entries[j] # NoEntry /\ entries[j] = entries[k] => j = k)'
    BY <1>1 DEF IInv, TypeOK, MapMatchesUsers, DropRef
  <2> QED BY <2>1, <2>2, <2>3 DEF MapMatchesUsers
<1>8. RefsCountUsers'
  <2> SUFFICES ASSUME NEW f \in Entry
               PROVE  (refs[f] = Cardinality(Users(f)))'
    BY DEF RefsCountUsers
  <2>1. CASE f = e
    <3>1. Cardinality(Users(e)') = Cardinality(Users(e)) - 1
      BY <1>3, CountLeave
    <3> QED BY <1>1, <2>1, <3>1 DEF IInv, TypeOK, RefsCountUsers, DropRef
  <2>2. CASE f # e
    BY <1>1, <1>4, <2>2 DEF IInv, TypeOK, RefsCountUsers, DropRef
  <2> QED BY <2>1, <2>2
<1>9. TokenAccounted'
  <2>1. \A f \in Entry : Holders(f)' = Holders(f)
    BY DEF IInv, TypeOK, DropRef, Holders
  <2> QED BY <1>1, <2>1 DEF IInv, TypeOK, TokenAccounted, DropRef
<1> QED BY <1>2, <1>7, <1>8, <1>9 DEF IInv

----------------------------------------------------------------------------
(* Every step, and every stutter, preserves the invariant.                 *)
LEMMA NextIInv == IInv /\ [Next]_vars => IInv'
<1> SUFFICES ASSUME IInv, [Next]_vars PROVE IInv' OBVIOUS
<1>1. ASSUME NEW c \in Caller, NEW i \in Id, Register(c, i) PROVE IInv'
  <2>1. CASE Join(c, i) BY <1>1, <2>1, JoinPreserves
  <2>2. CASE Allocate(c, i) BY <1>1, <2>2, AllocatePreserves
  <2> QED BY <1>1, <2>1, <2>2 DEF Register
<1>2. ASSUME NEW c \in Caller, Take(c) PROVE IInv'
  BY <1>2, TakePreserves
<1>3. ASSUME NEW c \in Caller, GiveUp(c) PROVE IInv'
  BY <1>3, DropRefPreserves DEF GiveUp
<1>4. ASSUME NEW c \in Caller, ReturnToken(c) PROVE IInv'
  BY <1>4, ReturnTokenPreserves
<1>5. ASSUME NEW c \in Caller, Leave(c) PROVE IInv'
  BY <1>5, DropRefPreserves DEF Leave
<1>6. ASSUME NEW c \in Caller, Cancel(c) PROVE IInv'
  BY <1>6 DEF Cancel, IInv, TypeOK, MapMatchesUsers, RefsCountUsers,
              TokenAccounted, Users, Holders
<1>7. CASE UNCHANGED vars
  BY <1>7 DEF vars, IInv, TypeOK, MapMatchesUsers, RefsCountUsers,
              TokenAccounted, Users, Holders
<1> QED BY <1>1, <1>2, <1>3, <1>4, <1>5, <1>6, <1>7 DEF Next, Step

(* The inductive invariant holds in every behaviour of the code.           *)
THEOREM Invariant == Spec => []IInv
<1>1. Init => IInv BY InitIInv
<1>2. IInv /\ [Next]_vars => IInv' BY NextIInv
<1> QED BY <1>1, <1>2, PTL DEF Spec

(* Two goroutines are never inside the turn of one id, for any number of   *)
(* callers, ids and reuses of entries.                                     *)
THEOREM MutexSafe == Spec => []MutualExclusion
<1>1. IInv => MutualExclusion
  <2> SUFFICES ASSUME IInv, NEW c \in Caller, NEW d \in Caller,
                      pc[c] = "holding", pc[d] = "holding", key[c] = key[d]
               PROVE  c = d
    BY DEF MutualExclusion
  <2>1. /\ key[c] \in Id
        /\ entries[key[c]] # NoEntry
        /\ entries[key[c]] = mine[c]
        /\ mine[d] = mine[c]
    BY DEF IInv, TypeOK, MapMatchesUsers
  <2>2. c \in Holders(mine[c]) /\ d \in Holders(mine[c])
    BY <2>1 DEF Holders
  <2>3. \E b \in Caller : Holders(mine[c]) = {b}
    BY <2>1, <2>2 DEF IInv, TokenAccounted
  <2> QED BY <2>2, <2>3
<1> QED BY <1>1, Invariant, PTL

(* The reference counts and the map of entries agree with who is inside,   *)
(* in every behaviour.                                                     *)
THEOREM BookkeepingSafe == Spec => [](TypeOK /\ EntriesAccounted)
<1>1. IInv => TypeOK /\ EntriesAccounted
  BY DEF IInv, EntriesAccounted
<1> QED BY <1>1, Invariant, PTL

(* The token of an entry is in its channel or with exactly one caller, in  *)
(* every behaviour: a cancelled wait neither takes nor returns one.        *)
THEOREM TokensSafe == Spec => []TokenAccounted
<1>1. IInv => TokenAccounted BY DEF IInv
<1> QED BY <1>1, Invariant, PTL

(* KeyedLock implements the abstract lock: every step is a step of Mutex   *)
(* or leaves its state alone.                                              *)
THEOREM Refinement == Spec => ImplementsMutex
<1>1. Init => Abstract!Init
  BY DEF Init, phase, Abstract!Init
<1>2. IInv /\ IInv' /\ [Next]_vars => [Abstract!Next]_(Abstract!vars)
  <2> SUFFICES ASSUME IInv, IInv', [Next]_vars
               PROVE  [Abstract!Next]_(Abstract!vars)
    OBVIOUS
  <2>1. ASSUME NEW c \in Caller, NEW i \in Id, Register(c, i)
        PROVE  Abstract!Request(c, i)
    BY <2>1 DEF IInv, TypeOK, Register, phase, Abstract!Request
  <2>2. ASSUME NEW c \in Caller, Take(c) PROVE Abstract!Grant(c)
    <3>1. \A d \in Caller : ~(pc[d] = "holding" /\ key[d] = key[c])
      <4> SUFFICES ASSUME NEW d \in Caller, pc[d] = "holding", key[d] = key[c]
                   PROVE  FALSE
        OBVIOUS
      <4>1. /\ key[c] \in Id
            /\ entries[key[c]] # NoEntry
            /\ entries[key[c]] = mine[c]
            /\ mine[d] = mine[c]
        BY <2>2 DEF IInv, TypeOK, MapMatchesUsers, Take
      <4>2. d \in Holders(mine[c]) BY <4>1 DEF Holders
      <4> QED BY <2>2, <4>1, <4>2 DEF IInv, TokenAccounted, Take
    <3>2. \A d \in Caller : ~Abstract!Holds(d, key[c])
      BY <3>1 DEF Abstract!Holds, phase
    <3> QED BY <2>2, <3>2 DEF IInv, TypeOK, Take, phase, Abstract!Grant
  <2>3. ASSUME NEW c \in Caller, GiveUp(c) PROVE Abstract!Abandon(c)
    BY <2>3 DEF IInv, TypeOK, GiveUp, DropRef, phase, Abstract!Abandon
  <2>4. ASSUME NEW c \in Caller, ReturnToken(c) PROVE Abstract!Release(c)
    BY <2>4 DEF IInv, TypeOK, ReturnToken, phase, Abstract!Release
  <2>5. ASSUME NEW c \in Caller, Leave(c) PROVE UNCHANGED Abstract!vars
    BY <2>5 DEF IInv, TypeOK, Leave, DropRef, phase, Abstract!vars
  <2>6. ASSUME NEW c \in Caller, Cancel(c) PROVE UNCHANGED Abstract!vars
    BY <2>6 DEF Cancel, phase, Abstract!vars
  <2>7. CASE UNCHANGED vars
    BY <2>7 DEF vars, phase, Abstract!vars
  <2> QED
    BY <2>1, <2>2, <2>3, <2>4, <2>5, <2>6, <2>7
    DEF Next, Step, Abstract!Next
<1> QED BY <1>1, <1>2, Invariant, PTL DEF Spec, ImplementsMutex, Abstract!Spec
=============================================================================
