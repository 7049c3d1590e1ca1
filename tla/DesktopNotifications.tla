-------------------------- MODULE DesktopNotifications --------------------------
(***************************************************************************)
(* Notifications of the desktop client: the query of the server for what   *)
(* is newer than a checkpoint (apps/server/src/app.ts), the poll that      *)
(* shows them one by one and saves its progress                            *)
(* (apps/web/src/desktop-notifications.ts), the switch of the user, and    *)
(* the gate of the native process (apps/desktop/src-tauri/src/             *)
(* notifications.rs), which forgets what it knows when the process ends.   *)
(***************************************************************************)
EXTENDS Naturals, SequencesExt

CONSTANTS
  Ids,          \* notifications, in the order of their ids: 1 .. n
  Batch,        \* envelopes of an answer (20)
  RateLimit,    \* attempts within a window of the gate (10)
  Window,       \* length of that window, in ticks of the clock (a minute)
  SeenLimit,    \* identities the gate remembers (256)
  MaxTime,      \* (bound) ticks
  MaxBehind,    \* (bound) how far the clock of the device is set back
  MaxVersion    \* (bound) versions of a notification

VARIABLES
  notes,       \* notifications of the account
  preference,  \* what its preference of each scope says
  saved,       \* the setting in the storage of the browser
  poll,        \* the poll in progress
  gate,        \* attempts and identities the native process remembers
  permitted,   \* the permission of the operating system
  shows,       \* (history) what was shown last and when, and how much of it since the clock of
               \* the device was set or the gate began anew
  now,         \* the clock of the server
  behind       \* how far that of the device is behind it

vars == <<notes, preference, saved, poll, gate, permitted, shows, now, behind>>

Absent == [version |-> 0, at |-> 0, read |-> FALSE]
Idle == [step |-> "idle", local |-> 0, items |-> <<>>, next |-> 0, outcome |-> "none"]
Empty == [attempts |-> <<>>, seen |-> <<>>]
Scopes == <<"space", "category", "community", "account">>

Init ==
  /\ notes = [i \in Ids |-> Absent]
  /\ preference \in [{"space", "account"} -> {"unset", "all", "none"}]
  /\ saved = [enabled |-> FALSE, private |-> TRUE, checkpoint |-> 0]
  /\ poll = Idle /\ gate = Empty /\ permitted \in BOOLEAN
  /\ shows = [times |-> <<>>, stretch |-> 0, items |-> <<>>]
  /\ now = 1 /\ behind = 0

\* (updatedAt, id) as a number, and the end of a moment.
Position(at, i) == at * (Cardinality(Ids) + 1) + i
Now == Position(now, Cardinality(Ids))

--------------------------------------------------------------------------------
(* The server *)

\* A notification is made, or counts another event; its time is that of the message,
\* which may be earlier than the moment it appears.
Arrive(i, at) ==
  /\ notes[i].version < MaxVersion /\ at \in {now - 1, now} /\ at >= notes[i].at
  /\ notes' = [notes EXCEPT ![i] = [version |-> @.version + 1, at |-> at, read |-> FALSE]]
  /\ UNCHANGED <<preference, saved, poll, gate, permitted, shows, now, behind>>

Read(i) ==
  /\ notes[i].version > 0
  /\ notes' = [notes EXCEPT ![i].read = TRUE]
  /\ UNCHANGED <<preference, saved, poll, gate, permitted, shows, now, behind>>

\* effective(), asked for the scope of the notification and the account.
Delivers ==
  LET mode == IF preference["space"] # "unset" THEN preference["space"] ELSE preference["account"]
  IN mode # "none"

Newer(checkpoint) ==
  {i \in Ids : notes[i].version > 0 /\ Position(notes[i].at, i) > checkpoint}
\* The latest of them, in order; what is read or suppressed takes part in the batch but
\* is not sent.
Latest(S) ==
  {i \in S : Cardinality({j \in S : Position(notes[j].at, j) > Position(notes[i].at, i)}) < Batch}
Envelopes(checkpoint) ==
  SetToSortSeq({[id |-> i, version |-> notes[i].version, checkpoint |-> Position(notes[i].at, i)] :
                  i \in {j \in Latest(Newer(checkpoint)) : ~notes[j].read /\ Delivers}},
               LAMBDA x, y : x.checkpoint < y.checkpoint)
NextCheckpoint(checkpoint) ==
  Max({checkpoint} \union {Position(notes[i].at, i) : i \in {j \in Ids : notes[j].version > 0}})

--------------------------------------------------------------------------------
(* The switch of the user *)

\* enable(), initializeDesktopNotifications(): from now on.
Enable ==
  /\ permitted /\ ~saved.enabled
  /\ saved' = [saved EXCEPT !.enabled = TRUE, !.checkpoint = Now]
  /\ UNCHANGED <<notes, preference, poll, gate, permitted, shows, now, behind>>
Disable ==
  /\ saved.enabled
  /\ saved' = [saved EXCEPT !.enabled = FALSE]
  /\ UNCHANGED <<notes, preference, poll, gate, permitted, shows, now, behind>>

--------------------------------------------------------------------------------
(* pollDesktopNotifications() *)

\* One poll at a time.  Without the permission nothing is asked for.
BeginPoll ==
  /\ poll = Idle /\ saved.enabled
  /\ IF permitted
     THEN poll' = [Idle EXCEPT !.step = "asking", !.local = saved] /\ UNCHANGED saved
     ELSE saved' = [saved EXCEPT !.enabled = FALSE] /\ UNCHANGED poll
  /\ UNCHANGED <<notes, preference, gate, permitted, shows, now, behind>>

Answer ==
  /\ poll.step = "asking"
  /\ poll' = [poll EXCEPT !.step = "showing", !.items = Envelopes(poll.local.checkpoint),
                          !.next = NextCheckpoint(poll.local.checkpoint)]
  /\ UNCHANGED <<notes, preference, saved, gate, permitted, shows, now, behind>>

\* What was accepted, or known already, moves the checkpoint; the setting that was read
\* when the poll began is saved with it.  Anything else ends the poll.
Save(setting) == saved' = setting /\ poll' = [poll EXCEPT !.local = setting, !.step = "showing",
                                                        !.items = Tail(@)]
Settle ==
  /\ poll.step = "shown"
  /\ CASE poll.outcome \in {"accepted", "duplicate"} ->
            Save([poll.local EXCEPT !.checkpoint = Head(poll.items).checkpoint])
       [] poll.outcome = "permission_required" ->
            saved' = [poll.local EXCEPT !.enabled = FALSE] /\ poll' = Idle
       [] OTHER -> poll' = Idle /\ UNCHANGED saved
  /\ UNCHANGED <<notes, preference, gate, permitted, shows, now, behind>>

Finish ==
  /\ poll.step = "showing" /\ poll.items = <<>>
  /\ saved' = IF poll.local.checkpoint # poll.next THEN [poll.local EXCEPT !.checkpoint = poll.next]
              ELSE saved
  /\ poll' = Idle
  /\ UNCHANGED <<notes, preference, gate, permitted, shows, now, behind>>

--------------------------------------------------------------------------------
(* DeliveryGate.deliver() *)

\* now_milliseconds() is the clock of the device.
Local == now - behind
\* The attempts of the window: the oldest leave it, and all of them when the clock is before
\* the first.
Cleared(times) == times # <<>> /\ Local < Head(times)
Recent(times) ==
  LET young == {k \in DOMAIN times : Local < times[k] + Window} IN
  IF young = {} \/ Cleared(times) THEN <<>> ELSE SubSeq(times, Min(young), Len(times))

\* (mutant) an identity is remembered for the attempt, not for the success
Known(item) == FALSE
Fingerprint(item) == <<item.id, item.version>>
Seen(item) == \E k \in DOMAIN gate.seen : gate.seen[k] = Fingerprint(item)

LastOf(seq, n) == SubSeq(seq, Max({1, Len(seq) - n + 1}), Len(seq))

\* A duplicate costs nothing; an attempt counts whether or not the provider takes it.
Show ==
  LET item == Head(poll.items)  attempts == Recent(gate.attempts) IN
  /\ poll.step = "showing" /\ poll.items # <<>>
  /\ IF Seen(item) \/ ~permitted \/ Len(attempts) >= RateLimit
     THEN /\ poll' = [poll EXCEPT !.step = "shown", !.outcome =
                        IF Seen(item) THEN "duplicate"
                        ELSE IF ~permitted THEN "permission_required" ELSE "rate_limited"]
          /\ gate' = IF Seen(item) \/ ~permitted THEN gate ELSE [gate EXCEPT !.attempts = attempts]
          /\ UNCHANGED shows
     ELSE \/ /\ poll' = [poll EXCEPT !.step = "shown", !.outcome = "accepted"]
             /\ gate' = [attempts |-> Append(attempts, Local),
                         seen |-> LastOf(Append(gate.seen, Fingerprint(item)), SeenLimit)]
             /\ shows' = [times |-> LastOf(Append(shows.times, now), RateLimit + 1),
                          stretch |-> IF Cleared(gate.attempts) THEN 1
                                      ELSE Min({shows.stretch + 1, RateLimit + 1}),
                          items |-> LastOf(Append(shows.items, Fingerprint(item)), SeenLimit + 1)]
          \/ /\ poll' = [poll EXCEPT !.step = "shown", !.outcome = "delivery_failed"]
             /\ gate' = [gate EXCEPT !.attempts = Append(attempts, Local)]
             /\ shows' = IF Cleared(gate.attempts) THEN [shows EXCEPT !.stretch = 0] ELSE shows
  /\ UNCHANGED <<notes, preference, saved, permitted, now, behind>>

--------------------------------------------------------------------------------
(* Outside *)

\* The window is reloaded, or the answer fails: the poll ends; the native process lives.
Interrupt ==
  /\ poll # Idle
  /\ poll' = Idle
  /\ UNCHANGED <<notes, preference, saved, gate, permitted, shows, now, behind>>
Permit ==
  /\ permitted' = ~permitted
  /\ UNCHANGED <<notes, preference, saved, poll, gate, shows, now, behind>>
Tick ==
  /\ now < MaxTime /\ now' = now + 1
  /\ UNCHANGED <<notes, preference, saved, poll, gate, permitted, shows, behind>>
\* The clock of the device is set back, or put right.
SetClock(b) ==
  /\ b # behind /\ b < now
  /\ behind' = b /\ shows' = [shows EXCEPT !.stretch = 0]
  /\ UNCHANGED <<notes, preference, saved, poll, gate, permitted, now>>

Next ==
  \/ \E i \in Ids : Read(i) \/ \E at \in 0 .. MaxTime : Arrive(i, at)
  \/ Enable \/ Disable \/ BeginPoll \/ Answer \/ Show \/ Settle \/ Finish
  \/ Interrupt \/ Permit \/ Tick
  \/ \E b \in 0 .. MaxBehind : SetClock(b)

Spec == Init /\ [][Next]_vars

--------------------------------------------------------------------------------
(* Properties *)

TypeOK ==
  /\ \A i \in Ids : notes[i].version \in 0 .. MaxVersion
  /\ saved.checkpoint <= Position(MaxTime, Cardinality(Ids))
  /\ Len(gate.attempts) <= RateLimit /\ Len(gate.seen) <= SeenLimit

\* A version of a notification is shown again only when SeenLimit others were shown since,
\* however often a poll is interrupted between the call of the gate and the save of the
\* checkpoint.
ShownOnce == IsInjective(shows.items)

\* Any window of the clock has at most RateLimit notifications, as long as the clock of the
\* device is not set and the gate does not begin anew meanwhile: attempts from before may
\* be forgotten or count for longer, but those since then are not forgotten early.
ShowsAreBounded ==
  shows.stretch > RateLimit => Last(shows.times) - Head(shows.times) >= Window

(* Violated.  docs/architecture/desktop-notifications.md, "The native gate accepts
   at most 10 attempts per minute": when the clock is set back before the first
   attempt that is remembered, or put forward again, the gate begins anew, and with
   several attempts it may do so once more later. *)
AttemptsPerWindow ==
  Len(shows.times) > RateLimit => Last(shows.times) - Head(shows.times) >= Window

\* "Desktop notifications are off": only the user turns them on.
OffStaysOff == [][~saved.enabled /\ saved'.enabled => Enable]_vars
================================================================================
