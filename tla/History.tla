------------------------------ MODULE History ------------------------------
(***************************************************************************)
(* storage.History for one user (internal/storage/history.go): messages    *)
(* and the device snapshot, in memory under h.mu and in the tables         *)
(* chat_messages and device_snapshots.  Reading holds h.mu while it asks   *)
(* the database; append and Clear write the two one after the other.       *)
(*                                                                         *)
(* What is in a message is the caller's; a snapshot is the number that the *)
(* caller gives the list of devices it shows, and none is 0.               *)
(***************************************************************************)
EXTENDS Integers, Sequences, SequencesExt

CONSTANT MaxHistory   \* h.max

ASSUME MaxHistoryAssumption == MaxHistory \in Nat \ {0}

VARIABLES
  cached, cache,   \* whether h.messages has the user, and his messages
  rows,            \* his rows of chat_messages
  memSnapshot,     \* h.devices[user]
  dbSnapshot       \* his row of device_snapshots

memory == <<cached, cache, memSnapshot>>
historyVars == <<memory, rows, dbSnapshot>>

(* The process has just started.                                           *)
HistoryInit(messages, snapshot) ==
  /\ cached = FALSE /\ cache = <<>> /\ rows = messages
  /\ memSnapshot = 0 /\ dbSnapshot = snapshot

Newest(s) == IF Len(s) > MaxHistory
             THEN SubSeq(s, Len(s) - MaxHistory + 1, Len(s)) ELSE s

(* Mutant: the rows are read again although memory has the user.           *)
GetHistoryAgain(ok) ==
  /\ cached' = TRUE
  /\ cache' = IF ok THEN Newest(rows) ELSE <<>>
  /\ UNCHANGED <<rows, memSnapshot, dbSnapshot>>

(* GetHistory: a failed load is remembered as an empty history.            *)
GetHistory(ok) ==
  /\ cached' = TRUE
  /\ cache' = IF cached THEN cache ELSE IF ok THEN Newest(rows) ELSE <<>>
  /\ UNCHANGED <<rows, memSnapshot, dbSnapshot>>

(* append, once GetHistory has returned.                                   *)
AppendCache(m) ==
  /\ cached' = TRUE
  /\ cache' = Newest(Append(cache, m))
  /\ UNCHANGED <<rows, memSnapshot, dbSnapshot>>

InsertRow(m) ==
  /\ rows' = Append(rows, m)
  /\ UNCHANGED <<memory, dbSnapshot>>

GetDeviceSnapshot ==
  /\ memSnapshot' = IF memSnapshot # 0 THEN memSnapshot ELSE dbSnapshot
  /\ UNCHANGED <<cached, cache, rows, dbSnapshot>>

(* Mutant: memory is set and the database is left to the next save.        *)
SetDeviceSnapshotInMemory(s, ok) ==
  /\ memSnapshot' = s
  /\ UNCHANGED <<cached, cache, rows, dbSnapshot>>

(* Memory is forgotten first, also when the database then fails.           *)
SetDeviceSnapshot(s, ok) ==
  /\ memSnapshot' = IF ok THEN s ELSE 0
  /\ dbSnapshot' = IF ok THEN s ELSE dbSnapshot
  /\ UNCHANGED <<cached, cache, rows>>

(* Mutant: the device snapshot is forgotten, the messages are kept.        *)
ClearDevices ==
  /\ memSnapshot' = 0
  /\ UNCHANGED <<cached, cache, rows, dbSnapshot>>

(* The two halves of Clear.                                                *)
ClearMemory ==
  /\ cached' = FALSE /\ cache' = <<>> /\ memSnapshot' = 0
  /\ UNCHANGED <<rows, dbSnapshot>>

ClearRows ==
  /\ rows' = <<>> /\ dbSnapshot' = 0
  /\ UNCHANGED memory

(* The two halves of EvictStaleEntries.  Messages leave memory together,   *)
(* when the user has not been active; rows leave the table one by one, as  *)
(* they come of age; the snapshot has its own age in either.               *)
EvictMemory(inactive) ==
  /\ cached' = (cached /\ ~inactive)
  /\ cache' = IF inactive THEN <<>> ELSE cache
  /\ memSnapshot' \in {memSnapshot, 0}
  /\ UNCHANGED <<rows, dbSnapshot>>

EvictRows(n) ==
  /\ rows' = SubSeq(rows, n + 1, Len(rows))
  /\ dbSnapshot' \in {dbSnapshot, 0}
  /\ UNCHANGED memory
=============================================================================
