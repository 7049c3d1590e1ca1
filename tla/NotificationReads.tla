---------------------------- MODULE NotificationReads --------------------------
(***************************************************************************)
(* How far an account has read a stream, and its preference for a scope,   *)
(* which its devices change together (packages/domain/src/notifications.ts,*)
(* PostgresNotificationReadStore and PostgresNotificationPreferenceStore). *)
(* The transactions are SERIALIZABLE and not run again: a row that has     *)
(* changed since the snapshot fails the call, so the branch that looks for *)
(* a winner is never taken.                                                *)
(***************************************************************************)
EXTENDS Naturals

CONSTANTS
  Devices,
  Modes,        \* of a preference
  MaxSequence,  \* (bound) of the stream
  MaxVersion    \* (bound) of the preference

VARIABLES
  member,       \* TRUE while the account may see the stream and the scope
  position,     \* notification_read_state
  preference,   \* notification_preferences
  calls,        \* of each device
  answered,     \* the last sequence a device was told it has read
  shown,        \* the preference a device was last told
  broadcast     \* the last notification_read of the hub

vars == <<member, position, preference, calls, answered, shown, broadcast>>

Idle == [step |-> "idle"]
NoRow == [version |-> 0]
Unread(row) == row = NoRow
Sequence(row) == IF Unread(row) THEN 0 ELSE row.sequence

Init ==
  /\ member = TRUE
  /\ position = NoRow /\ preference = NoRow
  /\ calls = [d \in Devices |-> Idle]
  /\ answered = [d \in Devices |-> 0] /\ shown = [d \in Devices |-> NoRow]
  /\ broadcast = NoRow

Enter(d, call) == calls' = [calls EXCEPT ![d] = call]
Leave(d) == Enter(d, Idle)

--------------------------------------------------------------------------------
(* NotificationReadService.advance(), get() *)

\* The permission is read by another connection; the snapshot has the row.  What is not
\* further than the row is answered with it.
Advance(d, n) ==
  /\ calls[d] = Idle /\ member
  /\ IF ~Unread(position) /\ n <= position.sequence
     THEN Enter(d, [step |-> "publish", state |-> position])
     ELSE Enter(d, [step |-> "advance", sequence |-> n, current |-> position])
  /\ UNCHANGED <<member, position, preference, answered, shown, broadcast>>

\* (mutant) READ COMMITTED, and the statement compares neither version nor sequence
Found(d, row) == TRUE
\* INSERT ... ON CONFLICT DO NOTHING, or UPDATE ... WHERE version = $3 AND sequence < $4.
Current(d, row) == row = calls[d].current

SaveAdvance(d) ==
  /\ calls[d].step = "advance" /\ Current(d, position)
  /\ position' = [sequence |-> calls[d].sequence, by |-> d, version |-> position.version + 1]
  /\ Enter(d, [step |-> "publish", state |-> position'])
  /\ UNCHANGED <<member, preference, answered, shown, broadcast>>
RefuseAdvance(d) ==
  /\ calls[d].step = "advance" /\ ~Current(d, position)
  /\ Leave(d)
  /\ UNCHANGED <<member, position, preference, answered, shown, broadcast>>

\* "Fan-out is a latency optimization": it comes after the commit, and it may fail.
Publish(d) ==
  /\ calls[d].step = "publish"
  /\ broadcast' \in {broadcast, calls[d].state}
  /\ answered' = [answered EXCEPT ![d] = calls[d].state.sequence]
  /\ Leave(d)
  /\ UNCHANGED <<member, position, preference, shown>>

GetPosition(d) ==
  /\ calls[d] = Idle /\ member
  /\ answered' = [answered EXCEPT ![d] = Sequence(position)]
  /\ UNCHANGED <<member, position, preference, calls, shown, broadcast>>

--------------------------------------------------------------------------------
(* NotificationPreferenceService.update() *)

\* A device sends the version it was told, or none when it was told of no row.
Update(d, mode) ==
  /\ calls[d] = Idle /\ member
  /\ preference.version < MaxVersion
  /\ Unread(preference) \/ ~Unread(shown[d])
  /\ Enter(d, [step |-> "save", mode |-> mode, current |-> preference, expected |-> shown[d].version])
  /\ UNCHANGED <<member, position, preference, answered, shown, broadcast>>

\* (mutant) the version found by the transaction is the one that is compared
AnyVersion(d) == TRUE
Expected(d) == preference.version = calls[d].expected

SavePreference(d) ==
  /\ calls[d].step = "save"
  /\ IF Current(d, preference) /\ Expected(d)
     THEN /\ preference' = [mode |-> calls[d].mode, by |-> d, version |-> preference.version + 1]
          /\ shown' = [shown EXCEPT ![d] = preference']
     ELSE UNCHANGED <<preference, shown>>
  /\ Leave(d)
  /\ UNCHANGED <<member, position, answered, broadcast>>

\* The client reads the preference again.
SeePreference(d) ==
  /\ calls[d] = Idle /\ member /\ shown[d] # preference
  /\ shown' = [shown EXCEPT ![d] = preference]
  /\ UNCHANGED <<member, position, preference, calls, answered, broadcast>>

\* mayAccess() and mayConfigure() are asked before the row is read.
Removed ==
  /\ member /\ member' = FALSE
  /\ UNCHANGED <<position, preference, calls, answered, shown, broadcast>>

Next ==
  \/ \E d \in Devices, n \in 0 .. MaxSequence : Advance(d, n)
  \/ \E d \in Devices :
       SaveAdvance(d) \/ RefuseAdvance(d) \/ Publish(d) \/ GetPosition(d)
       \/ SavePreference(d) \/ SeePreference(d)
  \/ \E d \in Devices, mode \in Modes : Update(d, mode)
  \/ Removed

Spec == Init /\ [][Next]_vars

--------------------------------------------------------------------------------
(* Properties *)

\* "concurrent devices can never move a read position backward"
\* (migrations/0029_notification_read_state.sql): also when they advance together on
\* what each found before the other.
NeverReadBack == Sequence(position) <= Sequence(position')

\* What a device was told is read stays read: no answer is ahead of the row.
AnsweredIsRead ==
  \A d \in Devices :
    /\ answered[d] <= Sequence(position)
    /\ calls[d].step = "publish" => calls[d].state.sequence <= Sequence(position)

\* A preference is only replaced by a device that was told of it.
ReplacesWhatWasSeen == preference' # preference => shown[preference'.by] = preference

\* Once every call has ended, what was last broadcast is the row.  It need not be: two
\* calls publish in another order than they commit, and clients are left to read again.
BroadcastIsLatest ==
  (\A d \in Devices : calls[d] = Idle) /\ ~Unread(broadcast) => broadcast = position

================================================================================
