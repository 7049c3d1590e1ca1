------------------------------ MODULE SafetyReports ----------------------------
(***************************************************************************)
(* Safety reports of members (packages/domain/src/index.ts and the         *)
(* repository of packages/postgres/src/index.ts).  What createSafetyReport *)
(* reads before its SERIALIZABLE transaction is an action of its own, the  *)
(* transaction is another.                                                 *)
(***************************************************************************)
EXTENDS Naturals

CONSTANTS
  Reporters,    \* members that report
  Keys,         \* idempotency keys
  Prints,       \* fingerprints of requests
  Calls,        \* requests under way
  Reports,      \* identities of reports
  PerHour       \* reports the limiter lets a member make

VARIABLES
  active,       \* reporters that may view the community
  calls,        \* createSafetyReport() between its two checks
  used,         \* what the report limiter has counted
  reports,      \* safety_reports
  answers       \* reports that were answered to a request (a history)

vars == <<active, calls, used, reports, answers>>

Idle == [who |-> "nobody"]
NoReport == [who |-> "nobody", key |-> "none", print |-> "none"]

Init ==
  /\ active = Reporters
  /\ calls = [c \in Calls |-> Idle]
  /\ used = [m \in Reporters |-> 0]
  /\ reports = [i \in Reports |-> NoReport]
  /\ answers = {}

--------------------------------------------------------------------------------
(* createSafetyReport() *)

Keyed(m, k) == {i \in Reports : reports[i].who = m /\ reports[i].key = k}
Answer(m, k, p, i) == answers' = answers \union {[who |-> m, key |-> k, print |-> p, id |-> i]}

\* A key that is known is answered, or refused when the request is another.
AnswersKnown(m, k, p) ==
  IF \E i \in Keyed(m, k) : reports[i].print = p
  THEN Answer(m, k, p, CHOOSE i \in Keyed(m, k) : TRUE) ELSE UNCHANGED answers

CreateSafetyReport(c, m, k, p) ==
  /\ calls[c] = Idle /\ m \in active
  /\ \/ /\ Keyed(m, k) # {}
        /\ AnswersKnown(m, k, p)
        /\ UNCHANGED <<calls, used>>
     \/ /\ Keyed(m, k) = {} /\ used[m] < PerHour
        /\ used' = [used EXCEPT ![m] = @ + 1]
        /\ calls' = [calls EXCEPT ![c] = [who |-> m, key |-> k, print |-> p]]
        /\ UNCHANGED answers
  /\ UNCHANGED <<active, reports>>

\* Inserting a key that exists returns its row, whatever it says.
Inserted(c, i) ==
  LET r == calls[c]
  IN IF Keyed(r.who, r.key) = {}
     THEN /\ reports[i] = NoReport
          /\ reports' = [reports EXCEPT ![i] = r]
          /\ Answer(r.who, r.key, r.print, i)
     ELSE /\ i \in Keyed(r.who, r.key) /\ UNCHANGED reports
          /\ Answer(r.who, r.key, r.print, i)

CreatesAgain(c, i) ==
  IF Keyed(calls[c].who, calls[c].key) # {}
  THEN AnswersKnown(calls[c].who, calls[c].key, calls[c].print) /\ UNCHANGED reports
  ELSE Inserted(c, i)

Creates(c, i) == CreatesAgain(c, i)

CommitSafetyReport(c, i) ==
  /\ calls[c] # Idle
  /\ IF calls[c].who \in active THEN Creates(c, i) ELSE UNCHANGED <<reports, answers>>
  /\ calls' = [calls EXCEPT ![c] = Idle]
  /\ UNCHANGED <<active, used>>

Membership(m) ==
  /\ active' = IF m \in active THEN active \ {m} ELSE active \union {m}
  /\ UNCHANGED <<calls, used, reports, answers>>

Next ==
  \/ \E c \in Calls, m \in Reporters, k \in Keys, p \in Prints : CreateSafetyReport(c, m, k, p)
  \/ \E c \in Calls, i \in Reports : CommitSafetyReport(c, i)
  \/ \E m \in Reporters : Membership(m)

Spec == Init /\ [][Next]_vars

--------------------------------------------------------------------------------
TypeOK ==
  /\ active \subseteq Reporters
  /\ used \in [Reporters -> 0 .. PerHour]
  /\ \A i \in Reports : reports[i] # NoReport => reports[i].who \in Reporters /\ reports[i].key \in Keys

(* Whoever repeats a report under its key, while the first is still on its way or
   later, is told of that one report, and only for the same request. *)
ReportedOnce ==
  \A a, b \in answers : a.who = b.who /\ a.key = b.key => a.id = b.id /\ a.print = b.print
================================================================================
