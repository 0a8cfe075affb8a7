------------------------------- MODULE Mutex -------------------------------
(***************************************************************************)
(* What a per-conversation lock promises, whatever it is built from: a     *)
(* caller asks for one id, gives up or is granted it, and releases it; an  *)
(* id is never granted to two callers at a time.  KeyedLock implements it. *)
(***************************************************************************)
CONSTANTS Caller, Id

VARIABLES
  phase,    \* phase[c]: "idle", "waiting" or "holding"
  wanted    \* wanted[c]: the id the caller waits for or holds

vars == <<phase, wanted>>

Holds(c, i) == phase[c] = "holding" /\ wanted[c] = i

TypeOK == /\ phase \in [Caller -> {"idle", "waiting", "holding"}]
          /\ wanted \in [Caller -> Id]

Init == /\ phase = [c \in Caller |-> "idle"]
        /\ wanted \in [Caller -> Id]

Request(c, i) == /\ phase[c] = "idle"
                 /\ phase' = [phase EXCEPT ![c] = "waiting"]
                 /\ wanted' = [wanted EXCEPT ![c] = i]

Grant(c) == /\ phase[c] = "waiting"
            /\ \A d \in Caller : ~Holds(d, wanted[c])
            /\ phase' = [phase EXCEPT ![c] = "holding"]
            /\ UNCHANGED wanted

Abandon(c) == /\ phase[c] = "waiting"
              /\ phase' = [phase EXCEPT ![c] = "idle"]
              /\ UNCHANGED wanted

Release(c) == /\ phase[c] = "holding"
              /\ phase' = [phase EXCEPT ![c] = "idle"]
              /\ UNCHANGED wanted

Next == \E c \in Caller : \/ \E i \in Id : Request(c, i)
                          \/ Grant(c)
                          \/ Abandon(c)
                          \/ Release(c)

Spec == Init /\ [][Next]_vars
=============================================================================
