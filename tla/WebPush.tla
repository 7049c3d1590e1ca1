-------------------------------- MODULE WebPush --------------------------------
(***************************************************************************)
(* Push notifications of one account: the control of each browser          *)
(* (apps/web/src/web-notifications.ts, web-notification-controls.tsx), the *)
(* registrations (apps/server/src/web-push.ts) and the delivery            *)
(* (packages/domain/src/web-notifications.ts).  Requests, answers, the     *)
(* push service and deliveries interleave.                                 *)
(***************************************************************************)
EXTENDS Naturals, Sequences, SequencesExt, FiniteSets

CONSTANTS
  Browsers,
  Limit,         \* registrations of an account that are active: 20
  MaxEndpoints   \* (bound) endpoints the push service hands out

VARIABLES
  endpoint,   \* what a browser is subscribed to, 0: nothing
  control,    \* what its page knows
  created,    \* rows of web_push_subscriptions, in the order of created_at
  active,     \* those with active=true
  delivery    \* a notification that is being delivered

vars == <<endpoint, control, created, active, delivery>>

Off == [step |-> "ready", id |-> 0]
Idle == [step |-> "idle"]
Handed == ToSet(created) \union {endpoint[b] : b \in Browsers}

Init ==
  /\ endpoint = [b \in Browsers |-> 0]
  /\ control = [b \in Browsers |-> Off]
  /\ created = <<>> /\ active = {}
  /\ delivery = Idle

Show(b, step, id) == control' = [control EXCEPT ![b] = [step |-> step, id |-> id]]

--------------------------------------------------------------------------------
(* enableWebNotifications() *)

\* pushManager.subscribe() answers with the subscription there is, or a new one.
Enable(b) ==
  /\ control[b] = Off
  /\ \/ endpoint[b] # 0 /\ UNCHANGED endpoint
     \/ \E e \in 1 .. MaxEndpoints :
          /\ endpoint[b] = 0 /\ e \notin Handed /\ \A lower \in 1 .. e - 1 : lower \in Handed
          /\ endpoint' = [endpoint EXCEPT ![b] = e]
  /\ Show(b, "register", 0)
  /\ UNCHANGED <<created, active, delivery>>

\* Of the active rows those created last stay.
Newer(rows, e) == {f \in ToSet(rows) : \E i, j \in DOMAIN rows : i < j /\ rows[i] = e /\ rows[j] = f}
Trim(rows, on) == {e \in on : Cardinality(Newer(rows, e) \intersect on) < Limit}

\* WebPushRuntime.register(): under the lock of the account; a row that is there is
\* made active again and keeps its created_at.
Register(b) ==
  /\ control[b].step = "register"
  /\ LET rows == IF endpoint[b] \in ToSet(created) THEN created ELSE Append(created, endpoint[b])
     IN /\ created' = rows
        /\ active' = Trim(rows, active \union {endpoint[b]})
  /\ Show(b, "registered", endpoint[b])
  /\ UNCHANGED <<endpoint, delivery>>

\* The answer is an error: the page unsubscribes.
Refused(b) ==
  /\ control[b].step = "register"
  /\ endpoint' = [endpoint EXCEPT ![b] = 0]
  /\ control' = [control EXCEPT ![b] = Off]
  /\ UNCHANGED <<created, active, delivery>>

Answered(b) ==
  /\ control[b].step = "registered"
  /\ Show(b, "ready", control[b].id)
  /\ UNCHANGED <<endpoint, created, active, delivery>>

\* The page is loaded again, or an answer is lost: the page knows of nothing.
Reload(b) ==
  /\ control[b] # Off
  /\ control' = [control EXCEPT ![b] = Off]
  /\ UNCHANGED <<endpoint, created, active, delivery>>

\* The browser gives up the subscription.
Withdraw(b) ==
  /\ endpoint[b] # 0 /\ control[b].step = "ready"
  /\ endpoint' = [endpoint EXCEPT ![b] = 0]
  /\ UNCHANGED <<control, created, active, delivery>>

--------------------------------------------------------------------------------
(* disableWebNotifications(): revoke(), which may not find the row, then          *)
(* unsubscribe.                                                                   *)

Revoke(b) ==
  /\ control[b].step = "ready" /\ control[b].id # 0
  /\ active' = active \ {control[b].id}
  /\ Show(b, "unsubscribe", control[b].id)
  /\ UNCHANGED <<endpoint, created, delivery>>

Unsubscribe(b) ==
  /\ control[b].step = "unsubscribe"
  /\ endpoint' = [endpoint EXCEPT ![b] = 0]
  /\ control' = [control EXCEPT ![b] = Off]
  /\ UNCHANGED <<created, active, delivery>>

--------------------------------------------------------------------------------
(* deliverWebNotification() *)

Deliver ==
  /\ delivery = Idle /\ active # {}
  /\ delivery' = [step |-> "send", left |-> active, gone |-> 0]
  /\ UNCHANGED <<endpoint, control, created, active>>

Reached(e) == e \in active /\ \E b \in Browsers : endpoint[b] = e

\* send(): the row is read again; no row, 404 and 410 are "gone".  What is sent, or
\* fails for now, needs nothing more.
Send(e) ==
  /\ delivery.step = "send" /\ e \in delivery.left
  /\ delivery' = [step |-> IF Reached(e) THEN "send" ELSE "deactivate",
                  left |-> delivery.left \ {e}, gone |-> IF Reached(e) THEN 0 ELSE e]
  /\ UNCHANGED <<endpoint, control, created, active>>

Deactivate ==
  /\ delivery.step = "deactivate"
  /\ active' = active \ {delivery.gone}
  /\ delivery' = [delivery EXCEPT !.step = "send", !.gone = 0]
  /\ UNCHANGED <<endpoint, control, created>>

Delivered ==
  /\ delivery.step = "send" /\ delivery.left = {}
  /\ delivery' = Idle
  /\ UNCHANGED <<endpoint, control, created, active>>

Next ==
  \/ \E b \in Browsers :
       \/ Enable(b) \/ Register(b) \/ Refused(b) \/ Answered(b) \/ Reload(b)
       \/ Withdraw(b) \/ Revoke(b) \/ Unsubscribe(b)
  \/ Deliver \/ Deactivate \/ Delivered
  \/ \E e \in active \union ToSet(created) : Send(e)

Spec == Init /\ [][Next]_vars

--------------------------------------------------------------------------------
(* Properties *)

\* However browsers register, come back and are given up, no more rows than the limit
\* are active, so that a delivery reaches every one of them.
AtMostLimit == Cardinality(active) <= Limit

\* "Web notifications are enabled." (web-notification-controls.tsx:20): what was just
\* registered is not active when its row is older than as many others as the limit.
EnabledIsActive ==
  [][\A b \in Browsers : Register(b) => control'[b].id \in active']_vars

\* "Web notifications are off." (web-notification-controls.tsx:9): a page that was loaded
\* again says so while the browser still receives them, and cannot turn them off.
OffIsOff ==
  \A b \in Browsers : control[b] = Off => endpoint[b] \notin active

================================================================================
