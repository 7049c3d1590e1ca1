-------------------------- MODULE DesktopCredentials --------------------------
(***************************************************************************)
(* The credential vault of the desktop client                              *)
(* (apps/desktop/src-tauri/src/credentials.rs) over the keychain of the    *)
(* platform: one entry per slot and one that names the selected slot.  A   *)
(* mutex and the single-instance guard leave one command at a time; every  *)
(* write of the keychain is a step, after any of which the command may     *)
(* fail or the process end.                                                *)
(***************************************************************************)
EXTENDS Naturals

CONSTANTS
  MaxAccounts,  \* slots of the vault
  Accounts,     \* identities: an origin and an account
  Operations,   \* operation ids
  Payloads      \* label, expiry and token of a session

VARIABLES
  slots,    \* the entry of each slot
  active,   \* the entry of the selection
  expired,  \* records whose time is over
  command   \* the command that holds the mutex, and its next step

vars == <<slots, active, expired, command>>

Slots == 1 .. MaxAccounts
Empty == [kind |-> "empty"]
Corrupt == [kind |-> "corrupt"]
Records == [kind : {"record"}, account : Accounts, operation : Operations, payload : Payloads]
Idle == [step |-> "idle"]
None == 0                   \* no slot is selected
Unreadable == MaxAccounts + 1  \* a selection that fails its checksum

Init ==
  /\ slots = [s \in Slots |-> Empty]
  /\ active = None
  /\ expired = {}
  /\ command = Idle

Holds(s) == slots[s] \in Records
Occupied == {s \in Slots : Holds(s)}
SlotsOf(a) == {s \in Occupied : slots[s].account = a}
Repeated(r) == {s \in Occupied : slots[s].operation = r.operation}
First(S) == CHOOSE s \in S : \A t \in S : s <= t

--------------------------------------------------------------------------------
(* reconcile(): every command but clear() begins with it *)

\* What is stored must not have expired (validated_record()).
Begin(c) ==
  /\ command = Idle
  /\ c.name = "store" => c.record \notin expired
  /\ command' = [asked |-> c, step |-> IF c.name = "clear" THEN "clear" ELSE "records", next |-> 1]
  /\ UNCHANGED <<slots, active, expired>>

\* A second record of an account or of an operation id.
Duplicate(s) ==
  \E t \in Occupied : /\ t < s
                      /\ \/ slots[t].account = slots[s].account
                         \/ slots[t].operation = slots[s].operation

\* The slots are read in order: what has expired is deleted, anything malformed ends
\* the command with store_corrupt.
ReadSlot ==
  LET s == command.next IN
  /\ command.step = "records" /\ s \in Slots
  /\ IF slots[s] = Corrupt \/ (Holds(s) /\ slots[s] \notin expired /\ Duplicate(s))
     THEN command' = Idle /\ UNCHANGED slots
     ELSE /\ command' = [command EXCEPT !.next = s + 1]
          /\ slots' = IF slots[s] \in expired THEN [slots EXCEPT ![s] = Empty] ELSE slots
  /\ UNCHANGED <<active, expired>>

\* What the selection becomes: a corrupt one, or one of an empty slot, is cleared.
Repaired == IF active = None \/ active \in Occupied THEN active ELSE None

RepairSelection ==
  /\ command.step = "records" /\ command.next > MaxAccounts
  /\ active' = Repaired
  /\ command' = [command EXCEPT !.step = "ready"]
  /\ UNCHANGED <<slots, expired>>

--------------------------------------------------------------------------------
(* store(), select(), remove(), clear(); status() and list() change nothing more *)

Ready(name) == command.step = "ready" /\ command.asked.name = name
\* persist_active() writes only what changes.
Point(s) == command' = IF active = s THEN Idle ELSE [command EXCEPT !.step = "point", !.next = s]

List ==
  /\ Ready("list")
  /\ command' = Idle
  /\ UNCHANGED <<slots, active, expired>>

\* An operation id that is stored already: the same request only selects, another is
\* an idempotency conflict.
StoreAgain ==
  /\ Ready("store") /\ Repeated(command.asked.record) # {}
  /\ LET s == First(Repeated(command.asked.record)) IN
     IF slots[s] = command.asked.record /\ command.asked.select THEN Point(s) ELSE command' = Idle
  /\ UNCHANGED <<slots, active, expired>>

\* (mutant) a new session takes a slot of its own
NewSlot(a) == Slots \ Occupied
\* The slot of the account, or an empty one; none is left of a full vault.
SlotFor(a) == IF SlotsOf(a) # {} THEN SlotsOf(a) ELSE Slots \ Occupied

StoreRecord ==
  /\ Ready("store") /\ Repeated(command.asked.record) = {}
  /\ LET free == SlotFor(command.asked.record.account) IN
     IF free = {} THEN command' = Idle /\ UNCHANGED slots
     ELSE LET s == First(free) IN
          /\ slots' = [slots EXCEPT ![s] = command.asked.record]
          /\ IF command.asked.select THEN Point(s) ELSE command' = Idle
  /\ UNCHANGED <<active, expired>>

Select ==
  /\ Ready("select")
  /\ LET found == SlotsOf(command.asked.account) IN
     IF found = {} THEN command' = Idle ELSE Point(First(found))
  /\ UNCHANGED <<slots, active, expired>>

Remove ==
  /\ Ready("remove")
  /\ LET found == SlotsOf(command.asked.account) IN
     IF found = {} THEN command' = Idle /\ UNCHANGED slots
     ELSE LET s == First(found) IN
          /\ slots' = [slots EXCEPT ![s] = Empty]
          /\ IF active = s THEN Point(None) ELSE command' = Idle
  /\ UNCHANGED <<active, expired>>

\* write_active(); the entry may be left corrupt by a write that is interrupted.
WriteActive ==
  /\ command.step = "point"
  /\ active' \in {command.next, Unreadable}
  /\ command' = Idle
  /\ UNCHANGED <<slots, expired>>

\* clear() goes on when the deletion of a slot fails; the selection comes last.
ClearSlot ==
  /\ command.step = "clear" /\ command.next \in Slots
  /\ slots' \in {slots, [slots EXCEPT ![command.next] = Empty]}
  /\ command' = [command EXCEPT !.next = @ + 1]
  /\ UNCHANGED <<active, expired>>
ClearActive ==
  /\ command.step = "clear" /\ command.next > MaxAccounts
  /\ active' \in {active, None}
  /\ command' = Idle
  /\ UNCHANGED <<slots, expired>>

\* The keychain refuses a call, or the process ends.
Abort ==
  /\ command # Idle
  /\ command' = Idle
  /\ UNCHANGED <<slots, active, expired>>

Expire(s) ==
  /\ Holds(s)
  /\ expired' = expired \union {slots[s]}
  /\ UNCHANGED <<slots, active, command>>

\* An entry that something else than the vault has changed meanwhile.
Damage(s) ==
  /\ command = Idle /\ Holds(s)
  /\ slots' = [slots EXCEPT ![s] = Corrupt]
  /\ UNCHANGED <<active, expired, command>>

Commands ==
  [name : {"store"}, record : Records, select : BOOLEAN]
  \union [name : {"select", "remove"}, account : Accounts]
  \union [name : {"list", "clear"}]

Running ==
  \/ ReadSlot \/ RepairSelection \/ List \/ StoreAgain \/ StoreRecord \/ Select \/ Remove
  \/ WriteActive \/ ClearSlot \/ ClearActive
Next ==
  \/ \E c \in Commands : Begin(c)
  \/ Running \/ Abort
  \/ \E s \in Slots : Expire(s) \/ Damage(s)

Spec == Init /\ [][Next]_vars

--------------------------------------------------------------------------------
(* Properties *)

TypeOK ==
  /\ slots \in [Slots -> {Empty, Corrupt} \union Records]
  /\ active \in Slots \union {None, Unreadable}
  /\ expired \subseteq Records
  /\ command = Idle \/ command.step \in {"records", "ready", "point", "clear"}

\* No sequence of commands, whichever of their writes fail, leaves two records of an
\* account or of an operation: the vault never takes itself for corrupt.
NeverCorruptsItself == \A s \in Slots : Holds(s) => ~Duplicate(s)

\* The account whose session the client would use.
Selected == IF active \in Occupied THEN slots[active].account ELSE "none"
Asks(a) ==
  /\ command # Idle
  /\ \/ command.asked.name = "select" /\ command.asked.account = a
     \/ command.asked.name = "store" /\ command.asked.select /\ command.asked.record.account = a

\* No account becomes the selected one unless the command in progress asks for that
\* account, whatever deletions and selections were interrupted before.
SelectionIsAsked ==
  [][Selected' \in {Selected, "none"} \/ Asks(Selected')]_vars
================================================================================
