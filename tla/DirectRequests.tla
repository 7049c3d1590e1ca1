----------------------------- MODULE DirectRequests -----------------------------
(***************************************************************************)
(* Requests to start a direct conversation                                 *)
(* (packages/domain/src/direct-requests.ts): DirectRequestService over its *)
(* store.  A request reads the settings, its duplicates and the limit of a *)
(* day before its transaction, and only part of them again within it.      *)
(***************************************************************************)
EXTENDS Naturals, Sequences, FiniteSets, TLC

CONSTANTS
  Accounts,     \* accounts
  Clients,      \* calls of request() that may be in progress
  Keys,         \* idempotency keys
  DailyLimit,   \* requests of an account within a day (10)
  Validity,     \* days until a request expires (14)
  MaxRequests,  \* (bound) requests ever made
  MaxSettings,  \* (bound) changes of a setting
  MaxTime       \* (bound) days

VARIABLES
  suspended,  \* accounts that are not active
  strangers,  \* TRUE when the accounts have no community in common
  settings,   \* the privacy setting of each account
  blocks,     \* pairs <<blocker, blocked>>
  requests,   \* the requests, in the order of their creation
  calls,      \* what each call of request() found before its transaction
  now         \* the day

vars == <<suspended, strangers, settings, blocks, requests, calls, now>>

Idle == [step |-> "idle"]
DefaultSetting == [preference |-> "request", mutual |-> TRUE, version |-> 0]

Init ==
  /\ suspended = {} /\ strangers \in BOOLEAN
  /\ settings = [a \in Accounts |-> DefaultSetting]
  /\ blocks = {} /\ requests = <<>>
  /\ calls = [c \in Clients |-> Idle]
  /\ now = 0

Ids == DOMAIN requests
Blocked(a, b) == <<a, b>> \in blocks \/ <<b, a>> \in blocks
Active(S) == S \cap suspended = {}

\* What the store answers: findActivePair, findByIdempotencyKey, countSince.
Open == {"pending", "accepted", "ignored"}
ActivePair(a, b, t) ==
  {i \in Ids : /\ requests[i].from = a /\ requests[i].to = b
               /\ requests[i].status \in Open /\ requests[i].expires > t}
WithKey(a, k) == {i \in Ids : requests[i].from = a /\ requests[i].key = k}
CountSince(a, t) == Cardinality({i \in Ids : requests[i].from = a /\ requests[i].at + 1 >= t})

--------------------------------------------------------------------------------
(* request() *)

\* Nothing of what is read here is locked.  A duplicate, or a request open in this
\* direction, is answered at once.
CheckRequest(c, a, b, k) ==
  /\ calls[c] = Idle /\ a # b
  /\ Active({a, b}) /\ ~Blocked(a, b)
  /\ settings[b].preference # "deny"
  /\ settings[b].mutual => ~strangers
  /\ WithKey(a, k) = {} /\ ActivePair(a, b, now) = {}
  /\ CountSince(a, now) < DailyLimit
  /\ calls' = [calls EXCEPT ![c] =
       [step |-> "checked", from |-> a, to |-> b, key |-> k, at |-> now,
        preference |-> settings[b].preference]]
  /\ UNCHANGED <<suspended, strangers, settings, blocks, requests, now>>

\* (mutant) the transaction does not look for an open request again
NoneOpen(call) == Active({call.from, call.to}) /\ ~Blocked(call.from, call.to)
\* What the transaction checks again; the setting and the limit are not among it.
StillWanted(call) ==
  /\ Active({call.from, call.to})
  /\ ~Blocked(call.from, call.to)
  /\ ActivePair(call.from, call.to, call.at) = {}

Created(call) ==
  [from |-> call.from, to |-> call.to, key |-> call.key, at |-> call.at,
   expires |-> call.at + Validity,
   status |-> IF call.preference = "allow" THEN "accepted" ELSE "pending",
   responded |-> call.preference = "allow", version |-> 1]

CommitRequest(c) ==
  /\ calls[c].step = "checked" /\ Len(requests) < MaxRequests
  /\ requests' = IF StillWanted(calls[c]) THEN Append(requests, Created(calls[c])) ELSE requests
  /\ calls' = [calls EXCEPT ![c] = Idle]
  /\ UNCHANGED <<suspended, strangers, settings, blocks, now>>

--------------------------------------------------------------------------------
(* respond(): one transaction *)

Answer == [allow |-> "accepted", deny |-> "denied", ignore |-> "ignored", block |-> "blocked"]
Decided(i, status, responded) ==
  requests' = [requests EXCEPT ![i] =
                 [@ EXCEPT !.status = status, !.responded = responded, !.version = @ + 1]]

\* An answer with an older version is refused by update().
Respond(i, action) ==
  /\ Active({requests[i].to}) /\ requests[i].status = "pending"
  /\ IF now >= requests[i].expires
     THEN Decided(i, "expired", requests[i].responded) /\ UNCHANGED blocks
     ELSE /\ Decided(i, Answer[action], TRUE)
          /\ blocks' = IF action = "block" THEN blocks \union {<<requests[i].to, requests[i].from>>}
                       ELSE blocks
  /\ UNCHANGED <<suspended, strangers, settings, calls, now>>

--------------------------------------------------------------------------------
(* updateSetting(): the version is compared when the setting is saved *)

UpdateSetting(a, preference, mutual) ==
  /\ Active({a}) /\ settings[a].version < MaxSettings
  /\ settings' = [settings EXCEPT ![a] =
       [preference |-> preference, mutual |-> mutual, version |-> @.version + 1]]
  /\ UNCHANGED <<suspended, strangers, blocks, requests, calls, now>>

Suspend(a) ==
  /\ suspended' = {a} \union suspended
  /\ UNCHANGED <<strangers, settings, blocks, requests, calls, now>>
Tick ==
  /\ now < MaxTime /\ now' = now + 1
  /\ UNCHANGED <<suspended, strangers, settings, blocks, requests, calls>>

Next ==
  \/ \E c \in Clients, a, b \in Accounts, k \in Keys : CheckRequest(c, a, b, k)
  \/ \E c \in Clients : CommitRequest(c)
  \/ \E i \in Ids, action \in DOMAIN Answer : Respond(i, action)
  \/ \E a \in Accounts, p \in {"allow", "request", "deny"}, m \in BOOLEAN : UpdateSetting(a, p, m)
  \/ \E a \in Accounts : Suspend(a)
  \/ Tick

Spec == Init /\ [][Next]_vars

--------------------------------------------------------------------------------
(* What a requester sees and may start: requesterView(), assertCanStart() *)

RequesterView(r) ==
  IF now >= r.expires THEN [r EXCEPT !.status = "expired"]
  ELSE IF r.status = "ignored" THEN [r EXCEPT !.status = "pending", !.responded = FALSE]
  ELSE r

\* The request itself is answered from either direction; an accepted request opens the
\* conversation until it expires.
CanStart(a, b) ==
  /\ Active({a, b}) /\ ~Blocked(a, b)
  /\ LET pair == IF ActivePair(a, b, now) # {} THEN ActivePair(a, b, now) ELSE ActivePair(b, a, now)
     IN (\E i \in pair : requests[i].status = "accepted") \/ settings[b].preference = "allow"

--------------------------------------------------------------------------------
(* Properties *)

TypeOK ==
  /\ suspended \subseteq Accounts /\ blocks \subseteq Accounts \X Accounts
  /\ now \in 0 .. MaxTime
  /\ \A i \in Ids : requests[i].status \in Open \union {"denied", "blocked", "expired"}

\* However calls, answers and the clock interleave, an account never has two open requests
\* to the same other account.  findActivePair() is asked for one direction only, so one may
\* be open each way.
OneOpenRequest == \A i \in Ids : Cardinality(ActivePair(requests[i].from, requests[i].to, now)) <= 1

\* "Ignoring is deliberately indistinguishable from a still-pending request": what the
\* requester is shown of an ignored request is what was shown when it was made.
IgnoredLooksPending ==
  \A i \in Ids : requests[i].status = "ignored" /\ now < requests[i].expires =>
    RequesterView(requests[i]) = [requests[i] EXCEPT !.status = "pending", !.responded = FALSE, !.version = 1]

\* An accepted request opens the conversation from both sides while nobody blocks.  It
\* does not: a request that is still open in the other direction is looked at first.
AcceptedOpens ==
  \A i \in Ids : LET r == requests[i] IN
    /\ r.status = "accepted" /\ now < r.expires
    /\ Active({r.from, r.to}) /\ ~Blocked(r.from, r.to)
    => CanStart(r.from, r.to) /\ CanStart(r.to, r.from)

================================================================================
