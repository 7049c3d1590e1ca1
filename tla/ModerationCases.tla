----------------------------- MODULE ModerationCases ---------------------------
(***************************************************************************)
(* The cases moderators keep about safety reports                          *)
(* (packages/domain/src/index.ts and the repositories of                   *)
(* packages/postgres/src/index.ts).  A transaction is SERIALIZABLE, and    *)
(* one action here.  The servers' clocks differ.                           *)
(***************************************************************************)
EXTENDS Naturals, Sequences, FiniteSetsExt

CONSTANTS
  Servers,
  Moderators,   \* members with moderation.case
  Keys,         \* idempotency keys
  Reports,      \* 1 .. n: reports, and the case of each
  PageSize,     \* cases of one page
  MaxTime,      \* (bound) of a clock
  MaxVersion    \* (bound) versions of a case

VARIABLES
  clock,        \* of each server
  active,       \* moderators that are
  cases,        \* moderation_cases
  activity,     \* moderation_case_activity of a case, in the order of the commits
  walk          \* a moderator's way through the pages of the queue

vars == <<clock, active, cases, activity, walk>>

Idle == [step |-> "idle"]
NoCase == [status |-> "none", key |-> "none", assignee |-> "nobody", updated |-> 0, version |-> 0]
Cases == {i \in Reports : cases[i] # NoCase}

Init ==
  /\ clock = [s \in Servers |-> 1]
  /\ active = Moderators
  /\ cases = [i \in Reports |-> NoCase]
  /\ activity = [i \in Reports |-> <<>>]
  /\ walk = Idle

--------------------------------------------------------------------------------
(* openModerationCase(), updateModerationCase() *)

Records(i, kinds, from) ==
  activity' = [activity EXCEPT ![i] = @ \o [n \in 1 .. Len(kinds) |-> [kind |-> kinds[n], at |-> from + n - 1]]]

Touches(i) ==
  walk' = IF walk = Idle THEN walk ELSE [walk EXCEPT !.touched = @ \union {i}]

\* A report that has a case keeps it; "opened" is recorded all the same, and the
\* new key is not.
OpenModerationCase(s, m, i, k) ==
  /\ m \in active
  /\ \A j \in Cases : cases[j].key # k
  /\ Len(activity[i]) < 2 \/ cases[i] = NoCase
  /\ cases' = IF i \in Cases THEN cases
              ELSE [cases EXCEPT ![i] = [status |-> "open", key |-> k, assignee |-> "nobody",
                                         updated |-> clock[s], version |-> 1]]
  /\ Records(i, <<"opened">>, clock[s])
  /\ UNCHANGED <<clock, active, walk>>

\* timestampAfter(): later than the last update, even on a server that is behind.
Now(s, previous) == clock[s]
After(s, previous) == Max({clock[s], previous + 1})
FirstActivityAt(s, previous) == After(s, previous)

Change(condition, kind) == IF condition THEN <<kind>> ELSE <<>>

UpdateModerationCase(s, m, i, assignee, status, notes) ==
  LET case == cases[i]
      kinds == Change(assignee # case.assignee, "assigned") \o Change(status # case.status, "status_changed")
               \o notes
      first == FirstActivityAt(s, case.updated)
  IN /\ m \in active
     /\ i \in Cases /\ case.status # "closed" /\ case.version < MaxVersion
     /\ assignee \in active \union {"nobody"}
     /\ cases' = [cases EXCEPT ![i] = [case EXCEPT !.assignee = assignee, !.status = status, !.version = @ + 1,
                                                   !.updated = first + Max({Len(kinds), 1}) - 1]]
     /\ Records(i, kinds, first)
     /\ Touches(i)
     /\ UNCHANGED <<clock, active>>

--------------------------------------------------------------------------------
(* listModerationCases(): the last update first, from a cursor *)

Precedes(i, j) == <<cases[i].updated, i>> # <<cases[j].updated, j>> /\
  (cases[i].updated > cases[j].updated \/ (cases[i].updated = cases[j].updated /\ i > j))

\* What the store in memory of the tests does.
BeforeById(i, at) == i < at.id
BeforeInOrder(i, at) == cases[i].updated < at.updated \/ (cases[i].updated = at.updated /\ i < at.id)
Before(i, at) == BeforeInOrder(i, at)

Page(S) == {i \in S : Cardinality({j \in S : Precedes(j, i)}) < PageSize}

StartWalk(m) ==
  /\ walk = Idle /\ m \in active
  /\ walk' = [step |-> "next", at |-> [updated |-> 1000, id |-> 1000], start |-> Cases,
              touched |-> {}, seen |-> {}, twice |-> {}]
  /\ UNCHANGED <<clock, active, cases, activity>>

ListModerationCases(m) ==
  /\ walk # Idle /\ walk.step = "next" /\ m \in active
  /\ LET rest == {i \in Cases : Before(i, walk.at)}
         page == Page(rest)
         last == CHOOSE i \in page : \A j \in page : j = i \/ Precedes(j, i)
     IN walk' = [walk EXCEPT !.step = IF rest = page THEN "done" ELSE "next",
                             !.at = IF rest = page THEN @ ELSE [updated |-> cases[last].updated, id |-> last],
                             !.seen = @ \union page,
                             !.twice = @ \union (page \intersect walk.seen)]
  /\ UNCHANGED <<clock, active, cases, activity>>

--------------------------------------------------------------------------------
Membership(m) ==
  /\ active' = IF m \in active THEN active \ {m} ELSE active \union {m}
  /\ UNCHANGED <<clock, cases, activity, walk>>

Tick(s) ==
  /\ clock[s] < MaxTime /\ clock' = [clock EXCEPT ![s] = @ + 1]
  /\ UNCHANGED <<active, cases, activity, walk>>

Next ==
  \/ \E s \in Servers, m \in Moderators, i \in Reports, k \in Keys : OpenModerationCase(s, m, i, k)
  \/ \E s \in Servers, m \in Moderators, i \in Reports, a \in Moderators \union {"nobody"},
        status \in {"open", "closed"}, notes \in {<<>>, <<"note">>, <<"note", "action_linked">>} :
       UpdateModerationCase(s, m, i, a, status, notes)
  \/ \E m \in Moderators : StartWalk(m) \/ ListModerationCases(m)
  \/ \E m \in Moderators : Membership(m)
  \/ \E s \in Servers : Tick(s)

Spec == Init /\ [][Next]_vars

--------------------------------------------------------------------------------
TypeOK ==
  /\ clock \in [Servers -> 1 .. MaxTime] /\ active \subseteq Moderators
  /\ \A i \in Cases : cases[i].status \in {"open", "closed"} /\ cases[i].version \in 1 .. MaxVersion
  /\ walk # Idle => walk.seen \subseteq Reports

(* What moderators did to a case is dated in the order in which it was done,
   without ties, although each change is dated by the clock of its server: the
   activity that is listed by its date tells the story as it was, also when a server
   that is behind makes the next change. *)
ActivityInOrder ==
  \A i \in Cases :
    LET steps == {x \in 1 .. Len(activity[i]) : x = 1 \/ activity[i][x].kind # "opened"}
    IN \A x, y \in steps : x < y => activity[i][x].at < activity[i][y].at

(* A moderator who walks the pages of the queue to its end has seen every case
   that was there and that nobody changed meanwhile, and each of those once. *)
WalkIsComplete ==
  walk # Idle =>
    /\ walk.twice \subseteq walk.touched
    /\ walk.step = "done" => walk.start \ walk.touched \subseteq walk.seen
================================================================================
