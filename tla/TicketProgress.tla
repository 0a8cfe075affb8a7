--------------------------- MODULE TicketProgress ---------------------------
(***************************************************************************)
(* The row of bedolaga_ticket_state that survives a restart, and its       *)
(* updates (internal/storage/store.go:160-212, domain.TicketProgress).     *)
(* Message ids of the panel grow, so the row keeps watermarks: 0 where     *)
(* nothing was recorded.  Ages stand for timestamps: 0 is now, Suppression *)
(* is the operator window or more, or no timestamp at all.                 *)
(***************************************************************************)
EXTENDS Integers, FiniteSetsExt

CONSTANT Suppression   \* the operator window, in ticks of the clock

ASSUME SuppressionAssumption == Suppression \in Nat \ {0}

Ages == 0..Suppression

Older(age) == IF age < Suppression THEN age + 1 ELSE age

Progress == [answered : Nat, bot : Nat, human : Nat, humanAge : Ages,
             mirrored : Nat, pending : Nat]

NoProgress == [answered |-> 0, bot |-> 0, human |-> 0, humanAge |-> Suppression,
               mirrored |-> 0, pending |-> 0]

(* No message id was returned by an accepted reply: the nil *int64.        *)
NoId == 0

----------------------------------------------------------------------------
(* Mutants.                                                                *)

(* The pending mark is dropped although later media is still due.          *)
MirrorDropsPending(row, m) ==
  [row EXCEPT !.mirrored = Max({@, m}), !.pending = 0]

(* A human reply moves its watermark and not its time.                     *)
HumanWithoutTime(row, m) == [row EXCEPT !.human = Max({@, m})]

----------------------------------------------------------------------------
RecordPendingMedia(row, m) == [row EXCEPT !.pending = Max({@, m})]

RecordMirroredMedia(row, m) ==
  LET mirrored == Max({row.mirrored, m})
  IN  [row EXCEPT !.mirrored = mirrored,
                  !.pending = IF @ <= mirrored THEN 0 ELSE @]

RecordHumanReply(row, m) == [row EXCEPT !.human = Max({@, m}), !.humanAge = 0]

RecordTicketReply(row, bot, answered) ==
  [row EXCEPT !.bot = IF bot = NoId THEN @ ELSE bot, !.answered = answered]

(* The ticket is listed by PendingMediaTicketIDs.                          *)
MediaPending(row) == row.pending > row.mirrored

HumanRecentlyActive(row) == row.humanAge < Suppression
=============================================================================
