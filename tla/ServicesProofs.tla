----------------------------- MODULE ServicesProofs -----------------------------
(* Theorems about the desktop's updates, the presence of accounts, the           *)
(* administrative audit events and the desktop's credentials, for any values of  *)
(* the constants.                                                                *)
EXTENDS MCServices, SequenceTheorems, WellFoundedInduction, TLAPS

--------------------------------------------------------------------------------
(* What the command in progress remembers                                       *)

Moves == [pc : {"unlink", "link"}, name : Names, slot : Ids, generation : Nat]
Updates == [pc : {"stage", "place", "unlink", "link", "health", "mark"},
            offer : Offers, name : Names, slot : Ids, generation : Nat]
Cleans == [pc : {"clean"}]
Sweeps == [pc : {"sweep"}, keep : SUBSET Ids]
Ops == {Idle} \union Moves \union Updates \union Cleans \union Sweeps

\* Directories that were never marked healthy.
Unmarked == {Absent, Partial} \union {Complete(i, FALSE) : i \in Installs}

TypeInv ==
  /\ slots \in [Ids -> Slot]
  /\ staging \in [Ids -> Unmarked]
  /\ pointers \in [Names -> {Missing} \union [generation : Nat, slot : Ids]]
  /\ op \in Ops

--------------------------------------------------------------------------------
(* The inductive invariant: while a command is in progress the pointer that it  *)
(* will not write stays the active one, its slot is not the one being written,  *)
(* and what is in the written slot may follow what is active.                   *)

Installed(n) == slots[pointers[n].slot].install
Related(i, j) == i = j \/ Forward(i, j) \/ Forward(j, i)

\* Two pointers never tie, and never share a slot.
Distinct ==
  \A n \in Names : pointers[n] # Missing /\ pointers[Other(n)] # Missing =>
    /\ pointers[n].generation # pointers[Other(n)].generation
    /\ pointers[n].slot # pointers[Other(n)].slot

\* From either installation that can be launched one may go to the other.
PairRelated ==
  \A n \in Names : Valid(n) /\ Valid(Other(n)) => Related(Installed(n), Installed(Other(n)))

\* A command that replaces pointers writes next to the active installation.
Beside ==
  op.pc \in {"stage", "place", "unlink", "link", "health", "mark"} =>
    /\ Valid(Other(op.name))
    /\ op.slot # pointers[Other(op.name)].slot
    /\ op.generation = pointers[Other(op.name)].generation + 1

\* Before the new pointer is there, the other one is the active one.
BeforeLink ==
  op.pc \in {"stage", "place", "unlink", "link"} /\ Valid(op.name) =>
      pointers[op.name].generation < pointers[Other(op.name)].generation
Unlinked == op.pc = "link" => pointers[op.name] = Missing

\* The update fits what is installed, and is not launched before it is healthy.
Fits ==
  op \in Updates =>
    /\ Forward(Installed(Other(op.name)), op.offer.target)
    /\ op.slot = op.offer.id
    /\ op.pc = "place" => staging[op.slot] = Complete(op.offer.target, FALSE)
    /\ op.pc \in {"unlink", "link", "health"} =>
         slots[op.slot] = Complete(op.offer.target, FALSE)
    /\ op.pc = "mark" => slots[op.slot] = Partial
    /\ op.pc \in {"health", "mark"} =>
         pointers[op.name] = [generation |-> op.generation, slot |-> op.slot]

\* A rollback leads to a slot from which the active one could be reached.
Returns ==
  op \in Moves /\ slots[op.slot].disk = "healthy" =>
    Related(Installed(Other(op.name)), slots[op.slot].install)

\* The sweep spares what a valid pointer leads to.
Spared == op.pc = "sweep" => Referenced \subseteq op.keep

LaunchInv ==
  /\ ValidNames # {}
  /\ Distinct /\ PairRelated
  /\ Beside /\ BeforeLink /\ Unlinked /\ Fits /\ Returns /\ Spared

UpdateInv == TypeInv /\ LaunchInv
--------------------------------------------------------------------------------
(* Types                                                                        *)

LEMMA NameFacts ==
  \A n \in Names : /\ Other(n) \in Names /\ Other(n) # n /\ Other(Other(n)) = n
                   /\ \A m \in Names : m = n \/ m = Other(n)
BY DEF Names, Other

LEMMA OpKinds ==
  /\ Idle.pc = "idle" /\ Idle \in Ops
  /\ \A o \in Moves : o \in Ops /\ o \notin Updates /\ "offer" \notin DOMAIN o
  /\ \A o \in Updates : o \in Ops /\ o \notin Moves /\ "offer" \in DOMAIN o
  /\ \A o \in Moves : o.pc \in {"unlink", "link"}
  /\ \A o \in Updates : o.pc \in {"stage", "place", "unlink", "link", "health", "mark"}
  /\ \A o \in Cleans : o \in Ops /\ o.pc = "clean"
  /\ \A o \in Sweeps : o \in Ops /\ o.pc = "sweep"
BY DEF Idle, Moves, Updates, Cleans, Sweeps, Ops

LEMMA SlotFacts ==
  /\ Absent.disk = "absent" /\ Partial.disk = "partial"
  /\ Unmarked \subseteq Slot /\ Absent \in Unmarked /\ Partial \in Unmarked
  /\ \A i : /\ Complete(i, FALSE).disk = "unhealthy" /\ Complete(i, FALSE).install = i
            /\ Complete(i, TRUE).disk = "healthy" /\ Complete(i, TRUE).install = i
  /\ \A i \in Installs : Complete(i, FALSE) \in Unmarked /\ Complete(i, TRUE) \in Slot
<1>1. \A i \in Installs, h \in BOOLEAN : Complete(i, h) \in Slot
  BY SMT DEF Slot
<1>2. \A i \in Installs : Complete(i, FALSE) \in Slot /\ Complete(i, TRUE) \in Slot
  BY <1>1, Zenon
<1>3. \A i : /\ Complete(i, FALSE).disk = "unhealthy" /\ Complete(i, FALSE).install = i
            /\ Complete(i, TRUE).disk = "healthy" /\ Complete(i, TRUE).install = i
  BY DEF Complete
<1>4. \A i \in Installs : Complete(i, FALSE) \in Unmarked
  BY DEF Unmarked
<1>5. Absent \in Slot /\ Partial \in Slot
  BY DEF Slot
<1>6. Unmarked \subseteq Slot /\ Absent \in Unmarked /\ Partial \in Unmarked
  BY <1>2, <1>5 DEF Unmarked
<1> QED
  BY <1>2, <1>3, <1>4, <1>6 DEF Absent, Partial

LEMMA PointerFacts ==
  ASSUME TypeInv, NEW n \in Names
  PROVE  /\ Valid(n) => /\ pointers[n] # Missing
                        /\ pointers[n].slot \in Ids
         /\ pointers[n].generation \in Nat
  BY UpdateAssumption DEF TypeInv, Valid, Missing

LEMMA OfferFacts ==
  \A o \in Offers : o.id \in Ids /\ o.target \in Installs
BY DEF Ids, Installs

LEMMA TypeInit == UpdateInit => TypeInv
<1> SUFFICES ASSUME UpdateInit PROVE TypeInv
  OBVIOUS
<1>1. "baseline" \in Ids /\ Baseline \in Installs
  BY DEF Ids, Installs
<1>2. slots \in [Ids -> Slot] /\ staging \in [Ids -> Unmarked]
  BY <1>1, SlotFacts DEF UpdateInit
<1>3. pointers \in [Names -> {Missing} \union [generation : Nat, slot : Ids]]
  BY <1>1 DEF UpdateInit
<1> QED
  BY <1>2, <1>3, OpKinds DEF UpdateInit, TypeInv

LEMMA TypeStep ==
  ASSUME TypeInv, [UpdateNext]_updateVars
  PROVE  TypeInv'
<1> USE DEF TypeInv
<1>1. CASE UNCHANGED updateVars
  BY <1>1 DEF updateVars
<1>2. ASSUME NEW o \in Offers, NEW n \in Names, StartApply(o, n) PROVE TypeInv'
  <2>1. [pc |-> "stage", offer |-> o, name |-> Inactive(n), slot |-> o.id,
         generation |-> pointers[n].generation + 1] \in Updates
    BY PointerFacts, OfferFacts, NameFacts DEF Updates, Inactive
  <2> QED
    BY <1>2, <2>1, OpKinds, SlotFacts, OfferFacts DEF StartApply
<1>3. ASSUME op.pc \in {"stage", "place", "health", "mark"}
      PROVE  op \in Updates /\ op.offer.target \in Installs /\ op.slot \in Ids
  <2>1. op \in Updates
    BY <1>3, OpKinds DEF Ops
  <2> QED
    BY <2>1, OfferFacts DEF Updates
<1>4. ASSUME NEW o \in Updates, NEW p \in {"place", "unlink", "link", "health", "mark"}
      PROVE  [o EXCEPT !.pc = p] \in Updates
  BY DEF Updates
<1>5. ASSUME NEW o \in Moves, NEW p \in {"unlink", "link"}
      PROVE  [o EXCEPT !.pc = p] \in Moves
  BY DEF Moves
<1>6. CASE StageContent
  BY <1>3, <1>4, <1>6, OpKinds, SlotFacts DEF StageContent
<1>7. CASE PlaceSlot
  <2>1. slots' \in [Ids -> Slot] /\ staging' \in [Ids -> Unmarked]
    BY <1>3, <1>7, SlotFacts DEF PlaceSlot
  <2> QED
    BY <1>3, <1>4, <1>7, <2>1, OpKinds DEF PlaceSlot
<1>8. ASSUME op.pc \in {"unlink", "link"}
      PROVE  /\ op \in Updates \/ op \in Moves
             /\ op.name \in Names /\ op.slot \in Ids /\ op.generation \in Nat
  <2>1. op \in Updates \/ op \in Moves
    BY <1>8, OpKinds DEF Ops
  <2> QED
    BY <2>1 DEF Updates, Moves
<1>9. CASE UnlinkPointer
  BY <1>4, <1>5, <1>8, <1>9, OpKinds DEF UnlinkPointer
<1>10. CASE LinkPointer
  BY <1>4, <1>5, <1>8, <1>10, OpKinds DEF LinkPointer
<1>11. CASE UnlinkState
  BY <1>3, <1>4, <1>11, OpKinds, SlotFacts DEF UnlinkState
<1>12. CASE MarkHealthy
  BY <1>3, <1>12, OpKinds, SlotFacts DEF MarkHealthy
<1>13. CASE StartRecover
  BY <1>13, OpKinds DEF StartRecover, Cleans
<1>14. ASSUME NEW s \in Ids, RemoveStaging(s) PROVE TypeInv'
  BY <1>14, SlotFacts DEF RemoveStaging, Removed
<1>15. CASE StartSweep
  <2>1. Referenced \in SUBSET Ids
    BY PointerFacts DEF Referenced, ValidNames
  <2> QED
    BY <1>15, <2>1, OpKinds DEF StartSweep, Sweeps
<1>16. ASSUME NEW s \in Ids, RemoveSlot(s) PROVE TypeInv'
  BY <1>16, SlotFacts DEF RemoveSlot, Removed
<1>17. CASE EndRecover \/ Abort
  BY <1>17, OpKinds DEF EndRecover, Abort
<1>18. ASSUME NEW n \in Names, StartRollback(n) PROVE TypeInv'
  <2>1. [pc |-> "unlink", name |-> Inactive(n), slot |-> pointers[Other(n)].slot,
         generation |-> pointers[n].generation + 1] \in Moves
    BY <1>18, PointerFacts, NameFacts DEF StartRollback, Moves, Inactive, ValidNames
  <2> QED
    BY <1>18, <2>1, OpKinds DEF StartRollback
<1> QED
  BY <1>1, <1>2, <1>6, <1>7, <1>9, <1>10, <1>11, <1>12, <1>13, <1>14, <1>15, <1>16,
     <1>17, <1>18 DEF UpdateNext, Apply, Recover

--------------------------------------------------------------------------------
(* What is launched                                                             *)

\* The step condition of MovesAreSupported.
Supported == \A i \in Launched, j \in Launched' : Related(i, j)

LEMMA LaunchedBy == \A i : i \in Launched <=> \E n \in Names : IsActive(n) /\ i = Installed(n)
BY DEF Launched, ActiveSlots, Installed

\* At most one pointer is active: the only valid one, or the newer of the two.
LEMMA ActiveFacts ==
  ASSUME UpdateInv, NEW n \in Names, NEW m \in Names
  PROVE  /\ IsActive(n) <=> /\ Valid(n)
                            /\ Valid(Other(n)) => pointers[Other(n)].generation < pointers[n].generation
         /\ IsActive(n) /\ IsActive(m) => n = m
<1>1. \A k \in Names : Valid(k) => pointers[k] # Missing
  BY PointerFacts DEF UpdateInv
<1>2. \A k \in Names : pointers[k].generation \in Nat
  BY PointerFacts DEF UpdateInv
<1>3. \A k \in Names : Valid(k) /\ Valid(Other(k)) =>
        pointers[k].generation # pointers[Other(k)].generation
  BY <1>1, NameFacts DEF UpdateInv, LaunchInv, Distinct
<1>4. \A k \in Names : IsActive(k) <=>
        Valid(k) /\ (Valid(Other(k)) => pointers[Other(k)].generation < pointers[k].generation)
  BY <1>2, <1>3, NameFacts DEF IsActive, ValidNames
<1> QED
  BY <1>2, <1>4, NameFacts

\* Writing a slot that no valid pointer leads to changes nothing that can be launched.
LEMMA SlotAside ==
  ASSUME UpdateInv, NEW s \in Ids, NEW d, UNCHANGED pointers,
         slots' = [slots EXCEPT ![s] = d], d.disk # "healthy",
         \A n \in Names : Valid(n) => pointers[n].slot # s
  PROVE  \A n \in Names : /\ Valid(n)' <=> Valid(n)
                          /\ Valid(n) => Installed(n)' = Installed(n)
<1> SUFFICES ASSUME NEW n \in Names
             PROVE  /\ Valid(n)' <=> Valid(n)
                    /\ Valid(n) => Installed(n)' = Installed(n)
  OBVIOUS
<1>1. \A t \in Ids : slots'[t] = IF t = s THEN d ELSE slots[t]
  BY DEF UpdateInv, TypeInv
<1>2. Valid(n)' => pointers[n] # Missing
  BY UpdateAssumption DEF Valid, Missing
<1>3. pointers[n] # Missing => pointers[n].slot \in Ids
  BY DEF UpdateInv, TypeInv
<1>4. Valid(n) => pointers[n] # Missing
  BY PointerFacts DEF UpdateInv
<1> QED
  BY <1>1, <1>2, <1>3, <1>4 DEF Valid, Installed

LEMMA NothingMoves ==
  ASSUME UpdateInv, UNCHANGED pointers,
         \A n \in Names : /\ Valid(n)' <=> Valid(n)
                          /\ Valid(n) => Installed(n)' = Installed(n)
  PROVE  /\ (ValidNames # {})' /\ Distinct' /\ PairRelated'
         /\ Referenced' = Referenced
         /\ Supported
<1>1. ValidNames' = ValidNames
  BY DEF ValidNames
<1>2. Distinct' /\ PairRelated'
  BY NameFacts DEF UpdateInv, LaunchInv, Distinct, PairRelated
<1>3. Referenced' = Referenced
  BY <1>1 DEF Referenced
<1>4. \A n \in Names : IsActive(n)' <=> IsActive(n)
  BY <1>1 DEF IsActive
<1>5. \A i : i \in Launched' <=> \E n \in Names : IsActive(n)' /\ i = Installed(n)'
  BY DEF Launched, ActiveSlots, Installed
<1>6. ASSUME NEW i \in Launched, NEW j \in Launched' PROVE i = j
  <2>1. PICK n \in Names : IsActive(n) /\ i = Installed(n)
    BY LaunchedBy
  <2>2. PICK m \in Names : IsActive(m)' /\ j = Installed(m)'
    BY <1>5
  <2>3. n = m /\ Valid(n)
    BY <1>4, <2>1, <2>2, ActiveFacts
  <2> QED
    BY <2>1, <2>2, <2>3
<1> QED
  BY <1>1, <1>2, <1>3, <1>6 DEF UpdateInv, LaunchInv, Supported, Related

--------------------------------------------------------------------------------
(* The invariant                                                                *)

LEMMA LaunchInit == UpdateInit => LaunchInv
<1> SUFFICES ASSUME UpdateInit PROVE LaunchInv
  OBVIOUS
<1>1. "baseline" \in Ids /\ "a" \in Names
  BY DEF Ids, Names
<1>2. pointers["a"] = [generation |-> 1, slot |-> "baseline"]
  BY <1>1 DEF UpdateInit
<1>3. slots["baseline"] = Complete(Baseline, TRUE)
  BY <1>1 DEF UpdateInit
<1>4. slots["baseline"].disk = "healthy"
  BY <1>3, SlotFacts
<1>5. Valid("a")
  BY <1>2, <1>4, UpdateAssumption DEF Valid
<1>6. \A n \in Names : n # "a" => pointers[n] = Missing /\ ~Valid(n)
  <2>1. \A n \in Names : n # "a" => pointers[n] = Missing
    BY DEF UpdateInit
  <2>2. Missing.generation \notin 1 .. MaxGeneration
    BY UpdateAssumption DEF Missing
  <2> QED
    BY <2>1, <2>2 DEF Valid
<1>7. ValidNames # {}
  BY <1>1, <1>5 DEF ValidNames
<1>8. Distinct /\ PairRelated
  BY <1>6, NameFacts DEF Distinct, PairRelated
<1>9. op.pc = "idle" /\ op \notin Updates /\ op \notin Moves
  BY OpKinds DEF UpdateInit
<1> QED
  BY <1>7, <1>8, <1>9 DEF LaunchInv, Beside, BeforeLink, Unlinked, Fits, Returns, Spared

\* A command that begins has read which installation is active.
LEMMA StartApplyStep ==
  ASSUME UpdateInv, NEW o \in Offers, NEW n \in Names, StartApply(o, n)
  PROVE  LaunchInv' /\ Supported
<1>1. /\ op'.pc = "stage" /\ op'.name = Other(n) /\ op'.slot = o.id /\ op'.offer = o
      /\ op'.generation = pointers[n].generation + 1
      /\ pointers[n].slot # o.id /\ UNCHANGED <<slots, pointers>>
  BY DEF StartApply, Inactive
<1>2. op' \notin Moves
  BY <1>1, OpKinds
<1>3. /\ (ValidNames # {})' /\ Distinct' /\ PairRelated' /\ Supported
      /\ \A m \in Names : (Valid(m)' <=> Valid(m)) /\ Installed(m)' = Installed(m)
  <2>1. \A m \in Names : (Valid(m)' <=> Valid(m)) /\ Installed(m)' = Installed(m)
    BY <1>1 DEF Valid, Installed
  <2> QED
    BY <1>1, <2>1, NothingMoves
<1>4. Beside' /\ BeforeLink' /\ Valid(n)
  BY <1>1, <1>3, ActiveFacts, NameFacts DEF StartApply, Beside, BeforeLink
<1>5. Forward(Installed(n), o.target)
  BY DEF StartApply, FitsInstalled, Verified, PathSupported, ChannelSupported, Forward,
         Installed
<1>6. Forward(Installed(n)', o.target)
  BY <1>3, <1>5
<1>7. Fits' /\ Returns' /\ Unlinked' /\ Spared'
  BY <1>1, <1>2, <1>6, NameFacts DEF Fits, Returns, Unlinked, Spared
<1> QED
  BY <1>3, <1>4, <1>7 DEF LaunchInv

LEMMA StartRollbackStep ==
  ASSUME UpdateInv, NEW n \in Names, StartRollback(n)
  PROVE  LaunchInv' /\ Supported
<1>1. /\ op' = [pc |-> "unlink", name |-> Other(n), slot |-> pointers[Other(n)].slot,
                generation |-> pointers[n].generation + 1]
      /\ Valid(Other(n)) /\ IsActive(n) /\ Other(n) \in Names
      /\ pointers[Other(n)].slot # pointers[n].slot /\ UNCHANGED <<slots, pointers>>
  BY NameFacts DEF StartRollback, Inactive, ValidNames
<1>2. op' \in Moves
  BY <1>1, PointerFacts DEF Moves, UpdateInv
<1>3. op' \notin Updates /\ op'.pc = "unlink" /\ op'.name = Other(n)
      /\ op'.slot = pointers[Other(n)].slot /\ op'.generation = pointers[n].generation + 1
  BY <1>1, <1>2, OpKinds
<1>4. /\ (ValidNames # {})' /\ Distinct' /\ PairRelated' /\ Supported
      /\ \A m \in Names : (Valid(m)' <=> Valid(m)) /\ Installed(m)' = Installed(m)
  <2>1. \A m \in Names : (Valid(m)' <=> Valid(m)) /\ Installed(m)' = Installed(m)
    BY <1>1 DEF Valid, Installed
  <2> QED
    BY <1>1, <2>1, NothingMoves
<1>5. Beside' /\ BeforeLink' /\ Valid(n)
  BY <1>1, <1>3, <1>4, ActiveFacts, NameFacts DEF Beside, BeforeLink
<1>6. Related(Installed(n)', Installed(Other(n))')
  BY <1>1, <1>4, <1>5 DEF UpdateInv, LaunchInv, PairRelated
<1>7. Fits' /\ Returns' /\ Unlinked' /\ Spared'
  BY <1>1, <1>3, <1>6, NameFacts DEF Fits, Returns, Unlinked, Spared, Installed
<1> QED
  BY <1>4, <1>5, <1>7 DEF LaunchInv

\* Steps of a command that replaces pointers: what holds of it before.
LEMMA Underway ==
  ASSUME UpdateInv, op.pc \in {"stage", "place", "unlink", "link", "health", "mark"}
  PROVE  /\ op \in Updates \/ op \in Moves
         /\ op.pc \in {"stage", "place", "health", "mark"} => op \in Updates
         /\ op.name \in Names /\ op.slot \in Ids /\ op.generation \in Nat
         /\ Other(op.name) \in Names
         /\ Valid(Other(op.name)) /\ op.slot # pointers[Other(op.name)].slot
         /\ op.generation = pointers[Other(op.name)].generation + 1
<1>1. op \in Updates \/ op \in Moves
  BY OpKinds DEF UpdateInv, TypeInv, Ops
<1>2. op.pc \in {"stage", "place", "health", "mark"} => op \in Updates
  BY <1>1, OpKinds
<1>3. op.name \in Names /\ op.slot \in Ids /\ op.generation \in Nat
  BY <1>1 DEF Updates, Moves
<1> QED
  BY <1>1, <1>2, <1>3, NameFacts DEF UpdateInv, LaunchInv, Beside

\* Its next step, by which it remembers the same.
LEMMA NextStep ==
  ASSUME NEW o \in Updates \union Moves, NEW p,
         p \in {"place", "unlink", "link", "health", "mark"},
         o \in Moves => p = "link"
  PROVE  LET q == [o EXCEPT !.pc = p]
         IN /\ q.pc = p /\ q.name = o.name /\ q.slot = o.slot
            /\ q.generation = o.generation
            /\ o \in Updates <=> q \in Updates
            /\ o \in Moves <=> q \in Moves
            /\ o \in Updates => q.offer = o.offer
<1>1. CASE o \in Updates
  <2>1. [o EXCEPT !.pc = p] \in Updates
    BY <1>1 DEF Updates
  <2> QED
    BY <1>1, <2>1, OpKinds DEF Updates
<1>2. CASE o \in Moves
  <2>1. [o EXCEPT !.pc = p] \in Moves
    BY <1>2 DEF Moves
  <2> QED
    BY <1>2, <2>1, OpKinds DEF Moves
<1> QED
  BY <1>1, <1>2

\* The slot of an update is not healthy until it is marked so.
LEMMA SlotWritten ==
  ASSUME UpdateInv, op \in Updates, UNCHANGED pointers, NEW d, d.disk # "healthy",
         slots' = [slots EXCEPT ![op.slot] = d], slots[op.slot].disk # "healthy"
  PROVE  /\ (ValidNames # {})' /\ Distinct' /\ PairRelated' /\ Supported
         /\ \A n \in Names : /\ Valid(n)' <=> Valid(n)
                             /\ Valid(n) => Installed(n)' = Installed(n)
         /\ slots'[op.slot] = d
<1>1. op.slot \in Ids
  BY DEF Updates
<1>2. \A n \in Names : Valid(n) => pointers[n].slot # op.slot
  BY DEF Valid
<1> QED
  BY <1>1, <1>2, SlotAside, NothingMoves DEF UpdateInv, TypeInv

LEMMA StageStep ==
  ASSUME UpdateInv, StageContent
  PROVE  LaunchInv' /\ Supported
<1>1. op.pc = "stage" /\ UNCHANGED <<slots, pointers>> /\ op' = [op EXCEPT !.pc = "place"]
  BY DEF StageContent
<1>2. /\ op \in Updates /\ op' \in Updates /\ op' \notin Moves
      /\ op'.pc = "place" /\ op'.name = op.name /\ op'.slot = op.slot
      /\ op'.generation = op.generation /\ op'.offer = op.offer
  BY <1>1, Underway, NextStep, OpKinds
<1>3. \A m \in Names : (Valid(m)' <=> Valid(m)) /\ Installed(m)' = Installed(m)
  BY <1>1 DEF Valid, Installed
<1>4. (ValidNames # {})' /\ Distinct' /\ PairRelated' /\ Supported
  BY <1>1, <1>3, NothingMoves
<1>5. staging'[op.slot] = Complete(op.offer.target, FALSE)
  BY <1>1, Underway DEF StageContent, UpdateInv, TypeInv
<1>6. Beside' /\ BeforeLink' /\ Unlinked' /\ Returns' /\ Spared'
  BY <1>1, <1>2, <1>3, Underway
     DEF Beside, BeforeLink, Unlinked, Returns, Spared, UpdateInv, LaunchInv
<1>7. Fits'
  BY <1>1, <1>2, <1>3, <1>5, Underway DEF Fits, UpdateInv, LaunchInv
<1> QED
  BY <1>4, <1>6, <1>7 DEF LaunchInv

LEMMA PlaceStep ==
  ASSUME UpdateInv, PlaceSlot
  PROVE  LaunchInv' /\ Supported
<1> DEFINE d == Complete(op.offer.target, FALSE)
<1>1. op.pc = "place" /\ UNCHANGED pointers /\ op' = [op EXCEPT !.pc = "unlink"]
  BY DEF PlaceSlot
<1>2. /\ op \in Updates /\ op' \in Updates /\ op' \notin Moves
      /\ op'.pc = "unlink" /\ op'.name = op.name /\ op'.slot = op.slot
      /\ op'.generation = op.generation /\ op'.offer = op.offer
  BY <1>1, Underway, NextStep, OpKinds
<1>3. slots' = [slots EXCEPT ![op.slot] = d] /\ d.disk # "healthy"
      /\ slots[op.slot].disk # "healthy"
  BY <1>1, <1>2, SlotFacts DEF PlaceSlot, UpdateInv, LaunchInv, Fits
<1>4. /\ (ValidNames # {})' /\ Distinct' /\ PairRelated' /\ Supported
      /\ \A n \in Names : /\ Valid(n)' <=> Valid(n)
                          /\ Valid(n) => Installed(n)' = Installed(n)
      /\ slots'[op.slot] = d
  BY <1>1, <1>2, <1>3, SlotWritten
<1>5. Beside' /\ BeforeLink' /\ Unlinked' /\ Returns' /\ Spared'
  BY <1>1, <1>2, <1>4, Underway
     DEF Beside, BeforeLink, Unlinked, Returns, Spared, UpdateInv, LaunchInv
<1>6. Fits'
  BY <1>1, <1>2, <1>4, Underway DEF Fits, UpdateInv, LaunchInv
<1> QED
  BY <1>4, <1>5, <1>6 DEF LaunchInv

LEMMA UnlinkStateStep ==
  ASSUME UpdateInv, UnlinkState
  PROVE  LaunchInv' /\ Supported
<1>1. op.pc = "health" /\ UNCHANGED pointers /\ op' = [op EXCEPT !.pc = "mark"]
      /\ slots' = [slots EXCEPT ![op.slot] = Partial]
  BY DEF UnlinkState
<1>2. /\ op \in Updates /\ op' \in Updates /\ op' \notin Moves
      /\ op'.pc = "mark" /\ op'.name = op.name /\ op'.slot = op.slot
      /\ op'.generation = op.generation /\ op'.offer = op.offer
  BY <1>1, Underway, NextStep, OpKinds
<1>3. slots[op.slot].disk # "healthy"
  BY <1>1, <1>2, SlotFacts DEF UpdateInv, LaunchInv, Fits
<1>4. /\ (ValidNames # {})' /\ Distinct' /\ PairRelated' /\ Supported
      /\ \A n \in Names : /\ Valid(n)' <=> Valid(n)
                          /\ Valid(n) => Installed(n)' = Installed(n)
      /\ slots'[op.slot] = Partial
  BY <1>1, <1>2, <1>3, SlotWritten, SlotFacts
<1>5. Beside' /\ BeforeLink' /\ Unlinked' /\ Returns' /\ Spared'
  BY <1>1, <1>2, <1>4, Underway
     DEF Beside, BeforeLink, Unlinked, Returns, Spared, UpdateInv, LaunchInv
<1>6. Fits'
  BY <1>1, <1>2, <1>4, Underway DEF Fits, UpdateInv, LaunchInv
<1> QED
  BY <1>4, <1>5, <1>6 DEF LaunchInv

\* While a pointer is missing, the other one is what is launched.
LEMMA UnlinkStep ==
  ASSUME UpdateInv, UnlinkPointer
  PROVE  LaunchInv' /\ Supported
<1>0. PICK n \in Names : n = op.name
  BY Underway DEF UnlinkPointer
<1> DEFINE m == Other(n)
<1>1. /\ op.pc = "unlink" /\ op' = [op EXCEPT !.pc = "link"] /\ UNCHANGED slots
      /\ pointers' = [pointers EXCEPT ![n] = Missing]
  BY <1>0 DEF UnlinkPointer
<1>2. /\ n \in Names /\ m \in Names /\ n # m /\ Other(m) = n /\ Valid(m)
      /\ \A k \in Names : k = n \/ k = m
  BY <1>0, <1>1, Underway, NameFacts
<1>3. /\ op' \in Updates <=> op \in Updates
      /\ op' \in Moves <=> op \in Moves
      /\ op \in Updates => op'.offer = op.offer
      /\ op'.pc = "link" /\ op'.name = op.name /\ op'.slot = op.slot
      /\ op'.generation = op.generation
  BY <1>0, <1>1, Underway, NextStep
<1>4. pointers'[n] = Missing /\ pointers'[m] = pointers[m]
  BY <1>1, <1>2 DEF UpdateInv, TypeInv
<1>5. ~Valid(n)' /\ Valid(m)' /\ Installed(m)' = Installed(m)
  BY <1>1, <1>2, <1>4, UpdateAssumption DEF Valid, Installed, Missing
<1>6. (ValidNames # {})' /\ Distinct' /\ PairRelated'
  BY <1>2, <1>4, <1>5 DEF ValidNames, Distinct, PairRelated
<1>7. IsActive(m) /\ \A k \in Names : IsActive(k)' => k = m
  <2>1. IsActive(m)
    BY <1>1, <1>2, <1>0, ActiveFacts DEF UpdateInv, LaunchInv, BeforeLink
  <2>2. \A k \in Names : IsActive(k)' => k = m
    BY <1>2, <1>5 DEF IsActive, ValidNames
  <2> QED
    BY <2>1, <2>2
<1>8. Supported
  <2> SUFFICES ASSUME NEW i \in Launched, NEW j \in Launched' PROVE i = j
    BY DEF Supported, Related
  <2>1. i = Installed(m)
    BY <1>2, <1>7, LaunchedBy, ActiveFacts
  <2>2. j = Installed(m)'
    BY <1>7 DEF Launched, ActiveSlots, Installed
  <2> QED
    BY <1>5, <2>1, <2>2
<1>9. Beside' /\ BeforeLink' /\ Unlinked' /\ Spared'
  BY <1>0, <1>1, <1>3, <1>4, <1>5, Underway DEF Beside, BeforeLink, Unlinked, Spared
<1>10. Fits' /\ Returns'
  BY <1>0, <1>1, <1>3, <1>5 DEF Fits, Returns, UpdateInv, LaunchInv
<1> QED
  BY <1>6, <1>8, <1>9, <1>10 DEF LaunchInv

\* The new pointer leads to a slot that is not healthy yet, or back.
LEMMA LinkStep ==
  ASSUME UpdateInv, LinkPointer
  PROVE  LaunchInv' /\ Supported
<1>0. PICK n \in Names : n = op.name
  BY Underway DEF LinkPointer
<1> DEFINE m == Other(n)
<1>1. /\ op.pc = "link" /\ UNCHANGED slots
      /\ pointers' = [pointers EXCEPT ![n] = [generation |-> op.generation, slot |-> op.slot]]
  BY <1>0 DEF LinkPointer
<1>2. /\ n \in Names /\ m \in Names /\ n # m /\ Other(m) = n /\ Valid(m)
      /\ \A k \in Names : k = n \/ k = m
      /\ op.generation = pointers[m].generation + 1 /\ op.slot # pointers[m].slot
      /\ pointers[m].generation \in Nat
  BY <1>0, <1>1, Underway, NameFacts, PointerFacts DEF UpdateInv
<1>3. \/ op \in Updates /\ op' = [op EXCEPT !.pc = "health"]
      \/ op \in Moves /\ op' = Idle
  BY <1>1, Underway, OpKinds DEF LinkPointer
<1>4. /\ pointers'[n] = [generation |-> op.generation, slot |-> op.slot]
      /\ pointers'[m] = pointers[m]
  BY <1>1, <1>2 DEF UpdateInv, TypeInv
<1>5. /\ Valid(m)' /\ Installed(m)' = Installed(m) /\ ~Valid(n)
      /\ Valid(n)' => slots[op.slot].disk = "healthy"
      /\ Installed(n)' = slots[op.slot].install
  <2>1. ~Valid(n)
    BY <1>0, <1>1, UpdateAssumption
       DEF Valid, Missing, UpdateInv, LaunchInv, Unlinked
  <2> QED
    BY <1>1, <1>2, <1>4, <2>1 DEF Valid, Installed
<1>6. Valid(n)' => op \in Moves /\ Related(Installed(m), Installed(n)')
  <2>1. op \in Updates => slots[op.slot].disk # "healthy"
    BY <1>1, SlotFacts DEF UpdateInv, LaunchInv, Fits
  <2> QED
    BY <1>0, <1>1, <1>3, <1>5, <2>1 DEF UpdateInv, LaunchInv, Returns
<1>7. (ValidNames # {})' /\ Distinct' /\ PairRelated'
  <2>1. Distinct'
    BY <1>2, <1>4 DEF Distinct
  <2>2. PairRelated'
    BY <1>2, <1>5, <1>6 DEF PairRelated, Related
  <2> QED
    BY <1>2, <1>5, <2>1, <2>2 DEF ValidNames
<1>8. Supported
  <2> SUFFICES ASSUME NEW i \in Launched, NEW j \in Launched' PROVE Related(i, j)
    BY DEF Supported
  <2>1. i = Installed(m)
    BY <1>2, <1>5, LaunchedBy, ActiveFacts
  <2>2. PICK k \in Names : Valid(k)' /\ j = Installed(k)'
    BY DEF Launched, ActiveSlots, Installed, IsActive, ValidNames
  <2>3. CASE k = m
    BY <1>5, <2>1, <2>2, <2>3 DEF Related
  <2>4. CASE k = n
    BY <1>6, <2>1, <2>2, <2>4
  <2> QED
    BY <1>2, <2>3, <2>4
<1>9. CASE op \in Moves
  BY <1>3, <1>7, <1>8, <1>9, OpKinds
     DEF LaunchInv, Beside, BeforeLink, Unlinked, Fits, Returns, Spared
<1>10. CASE op \in Updates
  <2>1. /\ op' \in Updates /\ op' \notin Moves /\ op'.offer = op.offer
        /\ op'.pc = "health" /\ op'.name = op.name /\ op'.slot = op.slot
        /\ op'.generation = op.generation
    <3>1. op \notin Moves /\ op' = [op EXCEPT !.pc = "health"]
      BY <1>3, <1>10, OpKinds
    <3> QED
      BY <1>10, <3>1, NextStep, OpKinds
  <2>2. Beside' /\ BeforeLink' /\ Unlinked' /\ Returns' /\ Spared'
    BY <1>0, <1>2, <1>4, <1>5, <2>1 DEF Beside, BeforeLink, Unlinked, Returns, Spared
  <2>3. Fits'
    BY <1>0, <1>1, <1>4, <1>5, <1>10, <2>1 DEF Fits, UpdateInv, LaunchInv
  <2> QED
    BY <1>7, <1>8, <2>2, <2>3 DEF LaunchInv
<1> QED
  BY <1>3, <1>9, <1>10

\* The healthy update becomes what is launched, unless its generation is too high.
LEMMA MarkStep ==
  ASSUME UpdateInv, MarkHealthy
  PROVE  LaunchInv' /\ Supported
<1>0. PICK n \in Names : n = op.name
  BY Underway DEF MarkHealthy
<1> DEFINE m == Other(n)
<1>1. /\ op.pc = "mark" /\ op' = Idle /\ UNCHANGED pointers
      /\ slots' = [slots EXCEPT ![op.slot] = Complete(op.offer.target, TRUE)]
  BY DEF MarkHealthy
<1>2. /\ n \in Names /\ m \in Names /\ n # m /\ Other(m) = n /\ Valid(m)
      /\ \A k \in Names : k = n \/ k = m
      /\ op.slot # pointers[m].slot /\ pointers[m].slot \in Ids /\ op.slot \in Ids
      /\ op \in Updates
  BY <1>0, <1>1, Underway, NameFacts, PointerFacts DEF UpdateInv
<1>3. slots[op.slot] = Partial /\ pointers[n].slot = op.slot
      /\ Forward(Installed(m), op.offer.target)
  BY <1>0, <1>1, <1>2 DEF UpdateInv, LaunchInv, Fits
<1>4. ~Valid(n)
  BY <1>3, SlotFacts DEF Valid
<1>5. Valid(m)' /\ Installed(m)' = Installed(m) /\ Installed(n)' = op.offer.target
  BY <1>1, <1>2, <1>3, SlotFacts DEF Valid, Installed, UpdateInv, TypeInv
<1>6. Distinct' /\ PairRelated' /\ (ValidNames # {})'
  <2>1. Distinct'
    BY <1>1 DEF Distinct, UpdateInv, LaunchInv
  <2>2. PairRelated'
    BY <1>2, <1>3, <1>5 DEF PairRelated, Related
  <2> QED
    BY <1>2, <1>5, <2>1, <2>2 DEF ValidNames
<1>7. Supported
  <2> SUFFICES ASSUME NEW i \in Launched, NEW j \in Launched' PROVE Related(i, j)
    BY DEF Supported
  <2>1. i = Installed(m)
    BY <1>2, <1>4, LaunchedBy, ActiveFacts
  <2>2. PICK k \in Names : j = Installed(k)'
    BY DEF Launched, ActiveSlots, Installed
  <2> QED
    BY <1>2, <1>3, <1>5, <2>1, <2>2 DEF Related
<1> QED
  BY <1>1, <1>6, <1>7, OpKinds
     DEF LaunchInv, Beside, BeforeLink, Unlinked, Fits, Returns, Spared

\* recover() and the end of a command leave what can be launched alone.
LEMMA RecoverStep ==
  ASSUME UpdateInv,
         \/ UNCHANGED updateVars \/ Abort \/ StartRecover \/ StartSweep \/ EndRecover
         \/ \E s \in Ids : RemoveStaging(s) \/ RemoveSlot(s)
  PROVE  LaunchInv' /\ Supported
<1>1. ASSUME UNCHANGED <<slots, pointers>>
      PROVE  /\ (ValidNames # {})' /\ Distinct' /\ PairRelated' /\ Supported
             /\ Referenced' = Referenced
             /\ \A m \in Names : (Valid(m)' <=> Valid(m)) /\ Installed(m)' = Installed(m)
  <2>1. \A m \in Names : (Valid(m)' <=> Valid(m)) /\ Installed(m)' = Installed(m)
    BY <1>1 DEF Valid, Installed
  <2> QED
    BY <1>1, <2>1, NothingMoves
<1>2. ASSUME op'.pc \in {"idle", "clean", "sweep"}, op' \notin Updates, op' \notin Moves,
             (ValidNames # {})', Distinct', PairRelated', Supported, Spared'
      PROVE  LaunchInv' /\ Supported
  BY <1>2 DEF LaunchInv, Beside, BeforeLink, Unlinked, Fits, Returns
<1>3. CASE UNCHANGED updateVars
  <2>1. LaunchInv' <=> LaunchInv
    BY <1>3 DEF updateVars, LaunchInv, ValidNames, Distinct, PairRelated, Beside, BeforeLink,
       Unlinked, Fits, Returns, Spared, Valid, Installed, Referenced
  <2> QED
    BY <1>1, <1>3, <2>1 DEF updateVars, UpdateInv
<1>4. CASE Abort \/ EndRecover
  <2>1. op' = Idle /\ UNCHANGED <<slots, pointers>>
    BY <1>4 DEF Abort, EndRecover
  <2> QED
    BY <1>1, <1>2, <2>1, OpKinds DEF Spared
<1>5. CASE StartRecover
  <2>1. op' \in Cleans /\ UNCHANGED <<slots, pointers>>
    BY <1>5 DEF StartRecover, Cleans
  <2> QED
    BY <1>1, <1>2, <2>1, OpKinds DEF Spared
<1>6. CASE StartSweep
  <2>1. op' = [pc |-> "sweep", keep |-> Referenced] /\ UNCHANGED <<slots, pointers>>
    BY <1>6 DEF StartSweep
  <2>2. Spared' /\ op'.pc = "sweep"
    BY <1>1, <2>1 DEF Spared
  <2> QED
    BY <1>1, <1>2, <2>1, <2>2, OpKinds
<1>7. ASSUME NEW s \in Ids, RemoveStaging(s) PROVE LaunchInv' /\ Supported
  <2>1. op.pc = "clean" /\ UNCHANGED <<slots, pointers, op>>
    BY <1>7 DEF RemoveStaging
  <2> QED
    BY <1>1, <1>2, <2>1, OpKinds DEF Spared
<1>8. ASSUME NEW s \in Ids, RemoveSlot(s) PROVE LaunchInv' /\ Supported
  <2>1. /\ op.pc = "sweep" /\ s \notin op.keep /\ UNCHANGED <<pointers, op>>
        /\ op \notin Updates /\ op \notin Moves
    BY <1>8, OpKinds DEF RemoveSlot
  <2>2. PICK d \in {Absent, Partial} : slots' = [slots EXCEPT ![s] = d]
    BY <1>8 DEF RemoveSlot, Removed
  <2>3. \A n \in Names : Valid(n) => pointers[n].slot # s
    BY <2>1 DEF UpdateInv, LaunchInv, Spared, Referenced, ValidNames
  <2>4. d.disk # "healthy"
    BY SlotFacts
  <2>5. \A n \in Names : /\ Valid(n)' <=> Valid(n)
                         /\ Valid(n) => Installed(n)' = Installed(n)
    BY <2>1, <2>2, <2>3, <2>4, SlotAside
  <2>6. /\ (ValidNames # {})' /\ Distinct' /\ PairRelated' /\ Supported
        /\ Referenced' = Referenced
    BY <2>1, <2>5, NothingMoves
  <2>7. Spared'
    BY <2>1, <2>6 DEF UpdateInv, LaunchInv, Spared
  <2> QED
    BY <1>2, <2>1, <2>6, <2>7
<1> QED
  BY <1>3, <1>4, <1>5, <1>6, <1>7, <1>8

LEMMA LaunchStep ==
  ASSUME UpdateInv, [UpdateNext]_updateVars
  PROVE  LaunchInv' /\ Supported
BY StartApplyStep, StageStep, PlaceStep, UnlinkStep, LinkStep, UnlinkStateStep, MarkStep,
   StartRollbackStep, RecoverStep DEF UpdateNext, Apply, Recover

\* While a command runs, the pointer it will not write leads to what may be launched
\* (apply(), rollback() and recover() of update-recovery.ts between two steps).
THEOREM UpdateInvariant == UpdateSpec => []UpdateInv
<1>1. UpdateInit => UpdateInv
  BY TypeInit, LaunchInit DEF UpdateInv
<1>2. UpdateInv /\ [UpdateNext]_updateVars => UpdateInv'
  BY TypeStep, LaunchStep DEF UpdateInv
<1> QED
  BY <1>1, <1>2, PTL DEF UpdateSpec

\* Directories, pointers and commands keep their types, and no staging directory is
\* ever marked healthy.
THEOREM TypeCorrect == UpdateSpec => []UpdateTypeOK
<1>1. UpdateInv => UpdateTypeOK
  <2> SUFFICES ASSUME UpdateInv PROVE UpdateTypeOK
    OBVIOUS
  <2>1. op.pc \in {"idle", "stage", "place", "unlink", "link", "health", "mark", "clean",
                   "sweep"}
    BY OpKinds DEF UpdateInv, TypeInv, Ops
  <2>2. staging \in [Ids -> Slot]
    BY SlotFacts DEF UpdateInv, TypeInv
  <2> QED
    BY <2>1, <2>2 DEF UpdateInv, TypeInv, UpdateTypeOK
<1> QED
  BY <1>1, UpdateInvariant, PTL

\* Wherever a command is interrupted, an intact and healthy installation is left that a
\* pointer leads to: the installer of any policy and any packages never unlinks, sweeps
\* or overwrites the last one.
THEOREM LaunchableAlways == UpdateSpec => []AlwaysLaunchable
<1>1. UpdateInv => AlwaysLaunchable
  BY DEF UpdateInv, LaunchInv, AlwaysLaunchable
<1> QED
  BY <1>1, UpdateInvariant, PTL

\* What is launched changes only along the policy, in one step or not at all.
THEOREM MovesFollowPolicy == UpdateSpec => MovesAreSupported
<1>1. UpdateInv /\ [UpdateNext]_updateVars =>
        \A i \in Launched, j \in Launched' : i = j \/ Forward(i, j) \/ Forward(j, i)
  BY LaunchStep DEF Supported, Related
<1> QED
  BY <1>1, UpdateInvariant, PTL DEF UpdateSpec, MovesAreSupported

--------------------------------------------------------------------------------
(* Presence: what a key and an answer say is on the word of a heartbeat          *)

\* The beat b of account a said s, and has been written or given up.
Backs(b, a, s) == b.owner = a /\ b.state = s /\ b.step # "set"

\* The rate key stands for the last heartbeat at least as long as its interval.
RateCovers == \A b \in beats : b.at + Interval <= rate[b.owner]
KeysBacked ==
  \A a \in Owners : key[a].until # 0 =>
    \E b \in beats : Backs(b, a, key[a].state) /\ key[a].expires = b.at + Ttl

Asks ==
  [viewer : Viewers, owner : Owners, kind : Presence!Kinds, at : Nat,
   step : {"mayView", "read", "tell"}, answer : {"online", "idle", "offline", "text"},
   both : BOOLEAN]

PresenceInv ==
  /\ Presence!TypeOK
  /\ RateCovers
  /\ Presence!BeatsAreSpaced
  /\ KeysBacked
  /\ Presence!NeverFabricated

LEMMA PresenceStarts == Presence!Init => PresenceInv
  BY PresenceAssumption DEF Presence!Init, PresenceInv, Presence!TypeOK, RateCovers,
     Presence!BeatsAreSpaced, KeysBacked, Presence!NeverFabricated, Presence!NoKey,
     Presence!NoStatus

\* A beat that goes on says what it said, and at the same time.
LEMMA BeatGoesOn ==
  ASSUME PresenceInv, NEW b \in beats, NEW step \in {"publish", "done"},
         beats' = Presence!At(b, step), rate' = rate
  PROVE  /\ \A c \in beats : \E d \in beats' :
              d.owner = c.owner /\ d.state = c.state /\ d.at = c.at
              /\ (c.step # "set" => d.step # "set")
         /\ [b EXCEPT !.step = step] \in beats'
         /\ beats' \subseteq [owner : Owners, state : {"online", "idle"}, at : Nat,
                              step : {"set", "publish", "done"}]
         /\ RateCovers'
         /\ Presence!BeatsAreSpaced'
<1> DEFINE Beats == [owner : Owners, state : {"online", "idle"}, at : Nat,
                     step : {"set", "publish", "done"}]
<1>1. b \in Beats
  BY DEF PresenceInv, Presence!TypeOK
<1>2. PICK n : n = [b EXCEPT !.step = step]
  OBVIOUS
<1>3. /\ n.owner = b.owner /\ n.state = b.state /\ n.at = b.at /\ n.step = step
      /\ n \in Beats
  BY <1>1, <1>2
<1>4. beats' = (beats \ {b}) \union {n} /\ beats \subseteq Beats
  BY <1>2, <1>3 DEF Presence!At, PresenceInv, Presence!TypeOK
<1>5. RateCovers'
  BY <1>3, <1>4 DEF RateCovers, PresenceInv
<1>6. ASSUME NEW c \in beats', NEW d \in beats', c # d, c.owner = d.owner, c.at <= d.at
      PROVE  d.at - c.at >= Interval
  <2>1. PICK x \in beats, y \in beats :
          /\ x.owner = c.owner /\ x.at = c.at /\ y.owner = d.owner /\ y.at = d.at /\ x # y
    BY <1>3, <1>4, <1>6
  <2> QED
    BY <1>6, <2>1 DEF PresenceInv, Presence!BeatsAreSpaced
<1> QED
  BY <1>2, <1>3, <1>4, <1>5, <1>6 DEF Presence!BeatsAreSpaced

\* What backs a key or an answer goes on to back it.
LEMMA BackingKept ==
  ASSUME PresenceInv, key' = key,
         \A c \in beats : c.step # "set" => \E d \in beats' :
           d.owner = c.owner /\ d.state = c.state /\ d.at = c.at /\ d.step # "set"
  PROVE  /\ KeysBacked'
         /\ (\A t \in asks' : t \in asks \/ t.answer = "offline") =>
              Presence!NeverFabricated'
<1>1. KeysBacked'
  <2> SUFFICES ASSUME NEW a \in Owners, key[a].until # 0
               PROVE  \E d \in beats' : Backs(d, a, key[a].state) /\ key[a].expires = d.at + Ttl
    BY DEF KeysBacked, Backs
  <2> QED
    BY DEF KeysBacked, Backs, PresenceInv
<1>2. ASSUME \A t \in asks' : t \in asks \/ t.answer = "offline" PROVE Presence!NeverFabricated'
  <2> SUFFICES ASSUME NEW t \in asks, t.kind = "presence", t.answer # "offline"
               PROVE  \E d \in beats' : d.owner = t.owner /\ d.state = t.answer
                                        /\ d.step # "set" /\ t.at < d.at + Ttl
    BY <1>2 DEF Presence!NeverFabricated
  <2> QED
    BY DEF Presence!NeverFabricated, PresenceInv
<1> QED
  BY <1>1, <1>2

\* A view begins with nothing to say.
LEMMA AskIsSilent ==
  ASSUME PresenceInv, NEW v \in Viewers, NEW a \in Owners, NEW kind \in Presence!Kinds,
         NEW both \in BOOLEAN
  PROVE  /\ Presence!Ask(v, a, kind, both) \in Asks
         /\ Presence!Ask(v, a, kind, both).answer = "offline"
  BY PresenceAssumption DEF PresenceInv, Presence!TypeOK, Presence!Ask, Asks

LEMMA ViewsAsk ==
  ASSUME PresenceInv, NEW a \in Owners, NEW kind \in Presence!Kinds
  PROVE  \A t \in Presence!Views(a, kind) : t \in Asks /\ t.answer = "offline"
  BY AskIsSilent DEF Presence!Views

LEMMA AsksBegin ==
  ASSUME PresenceInv, NEW new, asks' \subseteq asks \union new,
         \A t \in new : t \in Asks /\ t.answer = "offline",
         UNCHANGED <<second, up, rate, key, beats, hidden>>,
         status' \in [Owners -> [version : 0 .. MaxStatus, text : BOOLEAN, expires : Nat]],
         follows' \in [Viewers -> SUBSET Owners]
  PROVE  PresenceInv'
<1>1. Presence!TypeOK'
  BY DEF PresenceInv, Presence!TypeOK, Asks
<1>2. KeysBacked' /\ Presence!NeverFabricated'
  BY BackingKept
<1> QED
  BY <1>1, <1>2 DEF PresenceInv, RateCovers, Presence!BeatsAreSpaced

\* A view that goes on says nothing, or what a beat backs.
LEMMA AskGoesOn ==
  ASSUME PresenceInv, NEW t \in asks, NEW step \in {"tell", "read"},
         NEW answer \in {"online", "idle", "offline", "text"},
         Presence!Moves(t, step, answer),
         UNCHANGED <<second, up, rate, key, beats, status, hidden, follows>>,
         t.kind = "presence" /\ answer # "offline" =>
           \E b \in beats : Backs(b, t.owner, answer) /\ t.at < b.at + Ttl
  PROVE  PresenceInv'
<1>1. PICK n : n = [t EXCEPT !.step = step, !.answer = answer]
  OBVIOUS
<1>2. t \in Asks
  BY DEF PresenceInv, Presence!TypeOK, Asks
<1>3. /\ n \in Asks
      /\ n.owner = t.owner /\ n.kind = t.kind /\ n.at = t.at /\ n.answer = answer
  BY <1>1, <1>2 DEF Asks
<1>4. asks' = (asks \ {t}) \union {n}
  BY <1>1 DEF Presence!Moves
<1>5. Presence!TypeOK'
  BY <1>3, <1>4 DEF PresenceInv, Presence!TypeOK, Asks
<1>6. KeysBacked'
  BY BackingKept
<1>7. Presence!NeverFabricated'
  BY <1>3, <1>4 DEF PresenceInv, Presence!NeverFabricated, Backs
<1> QED
  BY <1>5, <1>6, <1>7 DEF PresenceInv, RateCovers, Presence!BeatsAreSpaced

LEMMA PresenceStep ==
  ASSUME PresenceInv, Presence!Next \/ UNCHANGED presenceVars
  PROVE  PresenceInv'
<1> USE PresenceAssumption
<1>1. ASSUME NEW a \in Owners, NEW s \in {"online", "idle"}, Presence!Heartbeat(a, s)
      PROVE  PresenceInv'
  <2> DEFINE n == [owner |-> a, state |-> s, at |-> second, step |-> "set"]
  <2>1. /\ beats' = beats \union {n} /\ rate' = [rate EXCEPT ![a] = second + Interval]
        /\ rate[a] <= second /\ UNCHANGED <<second, up, key, status, hidden, follows, asks>>
    BY <1>1 DEF Presence!Heartbeat, Presence!AllowUpdate
  <2>2. second \in Nat /\ rate \in [Owners -> Nat]
        /\ \A b \in beats : b.at \in Nat /\ b.owner \in Owners
    BY DEF PresenceInv, Presence!TypeOK
  <2>3. Presence!TypeOK'
    BY <2>1, <2>2 DEF PresenceInv, Presence!TypeOK
  <2>4. RateCovers'
    BY <2>1, <2>2 DEF PresenceInv, RateCovers
  <2>5. Presence!BeatsAreSpaced'
    <3>1. \A b \in beats : b.owner = a => second - b.at >= Interval
      BY <2>1, <2>2 DEF PresenceInv, RateCovers
    <3>2. n.owner = a /\ n.at = second
      OBVIOUS
    <3> HIDE DEF n
    <3>3. ASSUME NEW b \in beats', NEW c \in beats', b # c, b.owner = c.owner, b.at <= c.at
          PROVE  c.at - b.at >= Interval
      <4>1. CASE b \in beats /\ c \in beats
        BY <4>1, <3>3 DEF PresenceInv, Presence!BeatsAreSpaced
      <4>2. CASE b \in beats /\ c = n
        BY <4>2, <3>1, <3>2, <3>3
      <4>3. CASE c \in beats /\ b = n
        BY <4>3, <3>1, <3>2, <3>3, <2>2
      <4> QED
        BY <2>1, <3>3, <4>1, <4>2, <4>3
    <3> QED
      BY <3>3 DEF Presence!BeatsAreSpaced
  <2>6. KeysBacked' /\ Presence!NeverFabricated'
    BY <2>1, BackingKept
  <2> QED
    BY <2>3, <2>4, <2>5, <2>6 DEF PresenceInv
<1>2. ASSUME NEW b \in beats, Presence!SetKey(b) PROVE PresenceInv'
  <2> DEFINE step == IF up THEN "publish" ELSE "done"
             n == [b EXCEPT !.step = step]
             row == [state |-> b.state, expires |-> b.at + Ttl, until |-> second + Ttl]
  <2>1. /\ beats' = Presence!At(b, step) /\ b.step = "set"
        /\ key' = IF up THEN [key EXCEPT ![b.owner] = row] ELSE key
        /\ UNCHANGED <<second, up, rate, status, hidden, follows, asks>>
    BY <1>2 DEF Presence!SetKey
  <2>2. /\ \A c \in beats : \E d \in beats' :
             d.owner = c.owner /\ d.state = c.state /\ d.at = c.at
             /\ (c.step # "set" => d.step # "set")
        /\ n \in beats'
        /\ beats' \subseteq [owner : Owners, state : {"online", "idle"}, at : Nat,
                             step : {"set", "publish", "done"}]
        /\ RateCovers' /\ Presence!BeatsAreSpaced'
    BY <2>1, BeatGoesOn
  <2>3. b \in [owner : Owners, state : {"online", "idle"}, at : Nat,
               step : {"set", "publish", "done"}]
    BY DEF PresenceInv, Presence!TypeOK
  <2>4. n.owner = b.owner /\ n.state = b.state /\ n.at = b.at /\ n.step # "set"
    BY <2>3
  <2>5. row \in [state : {"online", "idle", "offline"}, expires : Nat, until : Nat]
    BY <2>3 DEF PresenceInv, Presence!TypeOK
  <2> HIDE DEF n
  <2>6. Presence!TypeOK'
    BY <2>1, <2>2, <2>3, <2>5 DEF PresenceInv, Presence!TypeOK
  <2>7. KeysBacked'
    <3> SUFFICES ASSUME NEW a \in Owners, key'[a].until # 0
                 PROVE  \E d \in beats' :
                          Backs(d, a, key'[a].state) /\ key'[a].expires = d.at + Ttl
      BY DEF KeysBacked, Backs
    <3>1. CASE up /\ a = b.owner
      <4>1. key'[a] = row
        BY <2>1, <3>1 DEF PresenceInv, Presence!TypeOK
      <4> QED
        BY <2>2, <2>4, <3>1, <4>1 DEF Backs
    <3>2. CASE ~(up /\ a = b.owner)
      <4>1. key'[a] = key[a]
        BY <2>1, <3>2 DEF PresenceInv, Presence!TypeOK
      <4>2. PICK c \in beats : Backs(c, a, key[a].state) /\ key[a].expires = c.at + Ttl
        BY <4>1 DEF PresenceInv, KeysBacked
      <4> QED
        BY <2>2, <4>1, <4>2 DEF Backs
    <3> QED
      BY <3>1, <3>2
  <2>8. Presence!NeverFabricated'
    BY <2>1, <2>2 DEF PresenceInv, Presence!NeverFabricated
  <2> QED
    BY <2>2, <2>6, <2>7, <2>8 DEF PresenceInv
<1>3. ASSUME NEW b \in beats, Presence!PublishBeat(b) PROVE PresenceInv'
  <2> DEFINE new == IF up THEN Presence!Views(b.owner, "presence") ELSE {}
  <2>1. /\ asks' = asks \union new /\ beats' = Presence!At(b, "done")
        /\ UNCHANGED <<second, up, rate, key, status, hidden, follows>>
    BY <1>3 DEF Presence!PublishBeat
  <2>2. b.owner \in Owners
    BY DEF PresenceInv, Presence!TypeOK
  <2>3. \A t \in new : t \in Asks /\ t.answer = "offline"
    BY <2>2, ViewsAsk DEF Presence!Kinds
  <2> HIDE DEF new
  <2>4. /\ \A c \in beats : \E d \in beats' :
             d.owner = c.owner /\ d.state = c.state /\ d.at = c.at
             /\ (c.step # "set" => d.step # "set")
        /\ beats' \subseteq [owner : Owners, state : {"online", "idle"}, at : Nat,
                             step : {"set", "publish", "done"}]
        /\ RateCovers' /\ Presence!BeatsAreSpaced'
    BY <2>1, BeatGoesOn
  <2>5. Presence!TypeOK'
    BY <2>1, <2>3, <2>4 DEF PresenceInv, Presence!TypeOK, Asks
  <2>6. KeysBacked' /\ Presence!NeverFabricated'
    BY <2>1, <2>3, <2>4, BackingKept
  <2> QED
    BY <2>4, <2>5, <2>6 DEF PresenceInv
<1>4. ASSUME NEW a \in Owners, NEW text \in BOOLEAN, NEW expected \in 0 .. MaxStatus,
             NEW life \in 0 .. 1, Presence!UpdateStatus(a, text, expected, life)
      PROVE  PresenceInv'
  <2> DEFINE new == IF up THEN Presence!Views(a, "status") ELSE {}
             row == Presence!Written(text, expected, life)
  <2>1. /\ asks' = asks \union new /\ status' = [status EXCEPT ![a] = row]
        /\ expected < MaxStatus
        /\ UNCHANGED <<second, up, rate, key, beats, hidden, follows>>
    BY <1>4 DEF Presence!UpdateStatus
  <2>2. \A t \in new : t \in Asks /\ t.answer = "offline"
    BY ViewsAsk DEF Presence!Kinds
  <2>3. second \in Nat
    BY DEF PresenceInv, Presence!TypeOK
  <2>4. row \in [version : 0 .. MaxStatus, text : BOOLEAN, expires : Nat]
    BY <2>1, <2>3 DEF Presence!Written
  <2>5. status' \in [Owners -> [version : 0 .. MaxStatus, text : BOOLEAN, expires : Nat]]
    BY <2>1, <2>4 DEF PresenceInv, Presence!TypeOK
  <2>6. follows' \in [Viewers -> SUBSET Owners]
    BY <2>1 DEF PresenceInv, Presence!TypeOK
  <2> HIDE DEF new
  <2> QED
    BY <2>1, <2>2, <2>5, <2>6, AsksBegin
<1>5. ASSUME NEW v \in Viewers, NEW accounts \in SUBSET Owners,
             Presence!PresenceSubscribe(v, accounts)
      PROVE  PresenceInv'
  <2> DEFINE new == {Presence!Ask(v, a, "presence", TRUE) : a \in accounts}
  <2>1. /\ asks' = asks \union new /\ follows' = [follows EXCEPT ![v] = accounts]
        /\ UNCHANGED <<second, up, rate, key, beats, status, hidden>>
    BY <1>5 DEF Presence!PresenceSubscribe
  <2>2. \A t \in new : t \in Asks /\ t.answer = "offline"
    BY AskIsSilent DEF Presence!Kinds
  <2>3. follows' \in [Viewers -> SUBSET Owners]
    BY <2>1 DEF PresenceInv, Presence!TypeOK
  <2>4. status' \in [Owners -> [version : 0 .. MaxStatus, text : BOOLEAN, expires : Nat]]
    BY <2>1 DEF PresenceInv, Presence!TypeOK
  <2> HIDE DEF new
  <2> QED
    BY <2>1, <2>2, <2>3, <2>4, AsksBegin
<1>6. ASSUME NEW t \in asks, Presence!MayView(t) PROVE PresenceInv'
  <2>1. PICK step \in {"tell", "read"} : Presence!Moves(t, step, "offline")
    BY <1>6 DEF Presence!MayView
  <2>2. UNCHANGED <<second, up, rate, key, beats, status, hidden, follows>>
    BY <1>6 DEF Presence!MayView
  <2> QED
    BY <2>1, <2>2, AskGoesOn
<1>7. ASSUME NEW t \in asks, Presence!ReadValue(t) PROVE PresenceInv'
  <2> DEFINE answer ==
        IF t.kind = "presence"
        THEN IF Presence!Counts(t.owner, t.at) THEN key[t.owner].state ELSE "offline"
        ELSE IF Presence!StatusCounts(t.owner, t.at) THEN "text" ELSE "offline"
  <2>1. /\ Presence!Moves(t, "tell", answer)
        /\ UNCHANGED <<second, up, rate, key, beats, status, hidden, follows>>
    BY <1>7 DEF Presence!ReadValue
  <2>2. t.owner \in Owners /\ t \in Asks
    BY DEF PresenceInv, Presence!TypeOK, Asks
  <2>3. answer \in {"online", "idle", "offline", "text"}
    BY <2>2 DEF PresenceInv, Presence!TypeOK
  <2>4. t.kind = "presence" /\ answer # "offline" =>
          \E b \in beats : Backs(b, t.owner, answer) /\ t.at < b.at + Ttl
    <3> SUFFICES ASSUME t.kind = "presence", Presence!Counts(t.owner, t.at)
                 PROVE  \E b \in beats : Backs(b, t.owner, key[t.owner].state)
                                         /\ t.at < b.at + Ttl
      OBVIOUS
    <3>1. key[t.owner].until # 0 /\ t.at < key[t.owner].expires
      BY <2>2 DEF Presence!Counts, PresenceInv, Presence!TypeOK
    <3>2. PICK b \in beats : /\ Backs(b, t.owner, key[t.owner].state)
                             /\ key[t.owner].expires = b.at + Ttl
      BY <2>2, <3>1 DEF PresenceInv, KeysBacked
    <3> QED
      BY <3>1, <3>2
  <2> HIDE DEF answer
  <2> QED
    BY <2>1, <2>3, <2>4, AskGoesOn
<1>8. ASSUME NEW t \in asks, Presence!Tell(t) PROVE PresenceInv'
  <2> DEFINE new == IF t.both THEN {Presence!Ask(t.viewer, t.owner, "status", FALSE)} ELSE {}
  <2>1. /\ asks' = (asks \ {t}) \union new
        /\ UNCHANGED <<second, up, rate, key, beats, status, hidden, follows>>
    BY <1>8 DEF Presence!Tell
  <2>2. t \in Asks
    BY DEF PresenceInv, Presence!TypeOK, Asks
  <2>3. \A x \in new : x \in Asks /\ x.answer = "offline"
    <3>1. t.viewer \in Viewers /\ t.owner \in Owners
      BY <2>2 DEF Asks
    <3>2. /\ Presence!Ask(t.viewer, t.owner, "status", FALSE) \in Asks
          /\ Presence!Ask(t.viewer, t.owner, "status", FALSE).answer = "offline"
      BY <3>1, AskIsSilent DEF Presence!Kinds
    <3> QED
      BY <3>2
  <2>4. /\ status' \in [Owners -> [version : 0 .. MaxStatus, text : BOOLEAN, expires : Nat]]
        /\ follows' \in [Viewers -> SUBSET Owners]
    BY <2>1 DEF PresenceInv, Presence!TypeOK
  <2>5. asks' \subseteq asks \union new
    BY <2>1
  <2> HIDE DEF new
  <2> QED
    BY <2>1, <2>3, <2>4, <2>5, AsksBegin
<1>9. ASSUME NEW v \in Viewers, NEW a \in Owners, Presence!SetVisibility(v, a)
      PROVE  PresenceInv'
  BY <1>9, BackingKept DEF Presence!SetVisibility, PresenceInv, Presence!TypeOK, RateCovers,
     Presence!BeatsAreSpaced
<1>10. CASE Presence!Connection
  BY <1>10, BackingKept DEF Presence!Connection, PresenceInv, Presence!TypeOK, RateCovers,
     Presence!BeatsAreSpaced
<1>11. CASE Presence!Tick
  BY <1>11, BackingKept DEF Presence!Tick, PresenceInv, Presence!TypeOK, RateCovers,
     Presence!BeatsAreSpaced
<1>12. CASE UNCHANGED presenceVars
  BY <1>12, BackingKept DEF presenceVars, PresenceInv, Presence!TypeOK, RateCovers,
     Presence!BeatsAreSpaced
<1> QED
  BY <1>1, <1>2, <1>3, <1>4, <1>5, <1>6, <1>7, <1>8, <1>9, <1>10, <1>11, <1>12
     DEF Presence!Next

LEMMA PresenceStutters == ASSUME PresenceInv, UNCHANGED presenceVars PROVE PresenceInv'
  BY DEF presenceVars, PresenceInv, Presence!TypeOK, RateCovers, Presence!BeatsAreSpaced,
         KeysBacked, Backs, Presence!NeverFabricated

--------------------------------------------------------------------------------
(* The audit trail: transactions on stale snapshots grow one chain, of which     *)
(* pages and verifications are beginnings                                        *)

TrailEvents == Trail!Events
TrailRows == Trail!Rows

\* The events of the first n rows; rows that carry on each other, without a gap.
Told(rows, n) == [k \in 1 .. n |-> rows[k].event]
Linked(rows, n) ==
  \A i \in 1 .. n : /\ rows[i].sequence = i
                    /\ rows[i].previous = Told(rows, i - 1)
                    /\ rows[i].hash = Told(rows, i)

\* Also what a restore left is in order.
Ordered(rows) ==
  /\ \A i \in 1 .. Len(rows) : rows[i].sequence >= 1
  /\ \A i, j \in 1 .. Len(rows) : i < j => rows[i].sequence < rows[j].sequence
LastOf(rows) == IF rows = <<>> THEN 0 ELSE rows[Len(rows)].sequence

TrailIdle == [step |-> "idle"]
Appends == [step : {"append"}, id : Nat, kind : Trail!Kinds, attempt : Nat,
            snapshot : Seq(TrailRows)]
Commits == [step : {"commit"}, id : Nat, kind : Trail!Kinds, attempt : Nat, row : TrailRows]
Rejects == [step : {"reject"}, id : Nat, kind : Trail!Kinds]
TrailCalls == {TrailIdle} \union Appends \union Commits \union Rejects
Checks == [step : {"pages", "checkpoint"}, valid : BOOLEAN, count : Nat, last : Nat,
           hash : Seq(TrailEvents), intact : BOOLEAN]
Verdicts == [step : {"done"}, verdict : BOOLEAN, intact : BOOLEAN, covered : Seq(TrailEvents)]
Walks == [step : {"pages", "done"}, after : Nat, shown : Seq(TrailRows), due : Seq(TrailRows)]

TrailTyped ==
  /\ chain \in Seq(TrailRows)
  /\ checkpoints \in Seq([sequence : Nat, head : Seq(TrailEvents)])
  /\ auditCalls \in [Transactions -> TrailCalls]
  /\ begun \in Nat /\ losses \in Nat /\ damaged \in BOOLEAN
  /\ trailLock \in Transactions \union {"nobody"}
  /\ \A c \in Transactions : trailLock = c <=> auditCalls[c].step = "commit"
  /\ check \in {TrailIdle} \union Checks \union Verdicts
  /\ walk \in {TrailIdle} \union Walks

\* A snapshot is a beginning of the chain, and the row behind it has the sequence
\* that it would give out.
Stale(saw, rows) ==
  /\ Len(saw) <= Len(rows) /\ saw = SubSeq(rows, 1, Len(saw))
  /\ Len(saw) < Len(rows) => rows[Len(saw) + 1].sequence = LastOf(saw) + 1
Snapshots ==
  \A c \in Transactions :
    auditCalls[c].step = "append" => Stale(auditCalls[c].snapshot, chain)

\* What waits for its COMMIT carries on the chain as it is.
Prepared ==
  \A c \in Transactions : auditCalls[c].step = "commit" =>
    auditCalls[c].row =
      Trail!Chained(chain, Trail!Event(auditCalls[c].id, auditCalls[c].kind, "succeeded"))

Identified ==
  /\ \A c \in Transactions : auditCalls[c] # TrailIdle => auditCalls[c].id \in 1 .. begun
  /\ \A c, d \in Transactions :
       c # d /\ auditCalls[c] # TrailIdle /\ auditCalls[d] # TrailIdle =>
         auditCalls[c].id # auditCalls[d].id
  /\ \A i \in 1 .. Len(chain) : chain[i].event.id \in 1 .. begun
  /\ mutated \subseteq 1 .. begun

\* A call that is not decided has left nothing.
Untold(id) ==
  /\ id \notin mutated
  /\ \A i \in 1 .. Len(chain) : chain[i].event.id = id => chain[i].event.outcome # "succeeded"
Undecided ==
  \A c \in Transactions : auditCalls[c].step \in {"append", "commit"} => Untold(auditCalls[c].id)

Whole == ~damaged => Linked(chain, Len(chain))
Once ==
  ~damaged =>
    /\ \A i, j \in 1 .. Len(chain) :
         chain[i].event.id = chain[j].event.id /\ chain[i].event.outcome = "succeeded"
           /\ chain[j].event.outcome = "succeeded" => i = j
    /\ \A id \in 1 .. begun : id \in mutated <=>
         \E i \in 1 .. Len(chain) : /\ chain[i].event.id = id /\ chain[i].event.kind = "change"
                                    /\ chain[i].event.outcome = "succeeded"
Pinned ==
  ~damaged => \A k \in 1 .. Len(checkpoints) :
    /\ checkpoints[k].sequence \in 1 .. Len(chain)
    /\ chain[checkpoints[k].sequence].hash = checkpoints[k].head

WalkSound ==
  walk # TrailIdle /\ ~damaged =>
    /\ walk.after = Len(walk.shown) /\ Len(walk.shown) <= Len(chain)
    /\ walk.shown = SubSeq(chain, 1, Len(walk.shown))
    /\ Len(walk.due) <= Len(chain)
    /\ walk.step = "done" => Len(walk.due) <= Len(walk.shown)

\* What the pages have said is checked for every row so far; nothing is claimed of a
\* verification during which the chain was damaged.
Claims(k) == ~damaged \/ (~k.intact /\ k.valid)
ChecksSound ==
  check \in Checks =>
    /\ ~damaged => check.valid
    /\ ~check.intact => damaged
    /\ Claims(check) =>
         /\ check.last = check.count /\ check.count <= Len(chain)
         /\ Linked(chain, check.count) /\ check.hash = Told(chain, check.count)
         /\ check.step = "checkpoint" => Linked(chain, Len(chain))
VerdictsSound ==
  check \in Verdicts =>
    /\ ~damaged => check.verdict
    /\ ~check.intact => damaged
    /\ check.verdict /\ ~check.intact =>
         /\ Len(check.covered) <= Len(chain)
         /\ \A i \in 1 .. Len(check.covered) : chain[i].event = check.covered[i]

TrailInv ==
  /\ TrailTyped /\ Ordered(chain) /\ Snapshots /\ Prepared /\ Identified /\ Undecided
  /\ Whole /\ Once /\ Pinned /\ WalkSound /\ ChecksSound /\ VerdictsSound

--------------------------------------------------------------------------------
\* A set of numbers has a least member.
LEMMA LeastNumber ==
  ASSUME NEW S \in SUBSET Nat, S # {}
  PROVE  \E n \in S : \A k \in S : n <= k
<1>1. PICK n \in S : \A k \in S : ~(<<k, n>> \in OpToRel(<, Nat))
  BY WFMin, NatLessThanWellFounded
<1>2. \A k \in S : k < n => <<k, n>> \in OpToRel(<, Nat)
  BY DEF OpToRel
<1>3. \A k \in S : ~(k < n)
  BY <1>1, <1>2, Zenon
<1> QED
  BY <1>3

LEMMA RowFields ==
  ASSUME NEW rows \in Seq(TrailRows)
  PROVE  /\ Len(rows) \in Nat /\ DOMAIN rows = 1 .. Len(rows)
         /\ \A i \in 1 .. Len(rows) :
              /\ rows[i] \in TrailRows /\ rows[i].sequence \in Nat
              /\ rows[i].event \in TrailEvents /\ rows[i].event.id \in Nat
              /\ rows[i].hash \in Seq(TrailEvents)
<1>1. \A e \in TrailEvents : e.id \in Nat
  BY DEF TrailEvents, Trail!Events
<1>2. \A r \in TrailRows : /\ r.sequence \in Nat /\ r.event \in TrailEvents
                           /\ r.hash \in Seq(TrailEvents)
  BY DEF TrailRows, Trail!Rows, TrailEvents
<1> QED
  BY <1>1, <1>2, LenProperties, ElementOfSeq

\* The row that a trigger makes.
LEMMA ChainedRow ==
  ASSUME NEW rows \in Seq(TrailRows), NEW e \in TrailEvents
  PROVE  /\ Trail!Chained(rows, e) \in TrailRows
         /\ Trail!Chained(rows, e).event = e
         /\ Trail!Chained(rows, e).sequence = LastOf(rows) + 1
         /\ LastOf(rows) \in Nat
         /\ Trail!Chained(rows, e).previous = Trail!HeadHash(rows)
         /\ Trail!Chained(rows, e).hash = Append(Trail!HeadHash(rows), e)
<1>1. LastOf(rows) \in Nat
  BY RowFields, EmptySeq DEF LastOf
<1>2. Trail!HeadHash(rows) \in Seq(TrailEvents)
  BY RowFields, EmptySeq DEF Trail!HeadHash
<1>3. Trail!Chained(rows, e) =
        [event |-> e, sequence |-> LastOf(rows) + 1, previous |-> Trail!HeadHash(rows),
         hash |-> Append(Trail!HeadHash(rows), e)]
  BY DEF Trail!Chained, LastOf
<1>4. Append(Trail!HeadHash(rows), e) \in Seq(TrailEvents)
  BY <1>2
<1> QED
  BY <1>1, <1>2, <1>3, <1>4 DEF TrailRows, Trail!Rows, TrailEvents

\* However a row gets behind the others, it is the one that their last row makes.
Grown(rows, e, new) ==
  /\ new \in Seq(TrailRows) /\ Len(new) = Len(rows) + 1 /\ Len(rows) \in Nat
  /\ \A i \in 1 .. Len(rows) : new[i] = rows[i]
  /\ new[Len(new)].event = e
  /\ new[Len(new)].sequence = LastOf(rows) + 1
  /\ LastOf(rows) \in Nat
  /\ Ordered(new)
  /\ \A n \in 0 .. Len(rows) : Told(new, n) = Told(rows, n)
  /\ \A n \in 0 .. Len(rows) : Linked(rows, n) => Linked(new, n)
  /\ Linked(rows, Len(rows)) => Linked(new, Len(new)) /\ LastOf(rows) = Len(rows)
LEMMA Growth ==
  ASSUME NEW rows \in Seq(TrailRows), NEW e \in TrailEvents, Ordered(rows),
         NEW new, new = Append(rows, Trail!Chained(rows, e))
  PROVE  Grown(rows, e, new)
<1> DEFINE row == Trail!Chained(rows, e)
<1>1. /\ row \in TrailRows /\ row.event = e /\ row.sequence = LastOf(rows) + 1
      /\ LastOf(rows) \in Nat /\ row.previous = Trail!HeadHash(rows)
      /\ row.hash = Append(Trail!HeadHash(rows), e)
  BY ChainedRow
<1> HIDE DEF row
<1>2. /\ new \in Seq(TrailRows) /\ Len(new) = Len(rows) + 1 /\ Len(rows) \in Nat
      /\ \A i \in 1 .. Len(rows) : new[i] = rows[i]
      /\ new[Len(rows) + 1] = row
  BY <1>1, AppendProperties DEF row
<1>3. Ordered(new)
  <2>1. \A i \in 1 .. Len(rows) : rows[i].sequence \in Nat /\ rows[i].sequence <= LastOf(rows)
    BY RowFields, <1>2 DEF Ordered, LastOf
  <2> QED
    BY <1>1, <1>2, <2>1 DEF Ordered
<1>4. \A n \in 0 .. Len(rows) : Told(new, n) = Told(rows, n)
  BY <1>2 DEF Told
<1>5. ASSUME NEW n \in 0 .. Len(rows), Linked(rows, n) PROVE Linked(new, n)
  BY <1>2, <1>4, <1>5 DEF Linked
<1>6. ASSUME Linked(rows, Len(rows)) PROVE Linked(new, Len(new)) /\ LastOf(rows) = Len(rows)
  <2>1. LastOf(rows) = Len(rows) /\ Trail!HeadHash(rows) = Told(rows, Len(rows))
    <3>1. CASE rows = <<>>
      BY <3>1 DEF LastOf, Trail!HeadHash, Told
    <3>2. CASE rows # <<>>
      <4>1. Len(rows) \in 1 .. Len(rows)
        BY <3>2, <1>2, EmptySeq
      <4> QED
        BY <3>2, <1>6, <4>1 DEF Linked, LastOf, Trail!HeadHash
    <3> QED
      BY <3>1, <3>2
  <2>2. Append(Told(rows, Len(rows)), e) = Told(new, Len(rows) + 1)
    BY <1>1, <1>2 DEF Told
  <2> QED
    BY <1>1, <1>2, <1>4, <1>5, <1>6, <2>1, <2>2 DEF Linked
<1> QED
  BY <1>1, <1>2, <1>3, <1>4, <1>5, <1>6 DEF Grown

\* The rows behind a number, and a page of them.
LEMMA RestTyped ==
  ASSUME NEW rows \in Seq(TrailRows), Ordered(rows), NEW n \in Nat
  PROVE  /\ Trail!After(rows, n) \in Seq(TrailRows)
         /\ \E m \in 0 .. Len(rows) :
              /\ Trail!After(rows, n) = SubSeq(rows, m + 1, Len(rows))
              /\ \A i \in 1 .. Len(rows) : rows[i].sequence > n <=> i > m
<1>1. /\ Len(rows) \in Nat /\ DOMAIN rows = 1 .. Len(rows)
      /\ \A i \in 1 .. Len(rows) : rows[i].sequence \in Nat
  BY RowFields
<1> DEFINE S == {i \in 1 .. Len(rows) : rows[i].sequence > n} \union {Len(rows) + 1}
<1>2. PICK k \in S : \A i \in S : k <= i
  <2>1. S \in SUBSET Nat /\ S # {}
    BY <1>1
  <2> HIDE DEF S
  <2> QED
    BY <2>1, LeastNumber
<1>3. /\ k - 1 \in 0 .. Len(rows)
      /\ \A i \in DOMAIN rows : rows[i].sequence > n <=> i > k - 1
  BY <1>1, <1>2 DEF Ordered
<1> DEFINE Splits(m) == \A i \in DOMAIN rows : rows[i].sequence > n <=> i > m
           before == CHOOSE m \in 0 .. Len(rows) : Splits(m)
<1>4. before \in 0 .. Len(rows) /\ Splits(before)
  BY <1>3
<1>5. Trail!After(rows, n) = SubSeq(rows, before + 1, Len(rows))
  BY DEF Trail!After
<1> HIDE DEF before
<1>6. SubSeq(rows, before + 1, Len(rows)) \in Seq(TrailRows)
  BY <1>1, <1>4
<1> QED
  BY <1>1, <1>4, <1>5, <1>6

LEMMA Rest ==
  ASSUME NEW rows \in Seq(TrailRows), Ordered(rows), NEW n \in 0 .. Len(rows),
         Linked(rows, n)
  PROVE  Trail!After(rows, n) = SubSeq(rows, n + 1, Len(rows))
<1>1. /\ Len(rows) \in Nat
      /\ \A i \in 1 .. Len(rows) : rows[i].sequence \in Nat
  BY RowFields
<1>2. ASSUME NEW i \in 1 .. Len(rows) PROVE rows[i].sequence > n <=> i > n
  <2>1. CASE i <= n
    BY <2>1, <1>1 DEF Linked
  <2>2. CASE i > n /\ n = 0
    BY <2>2, <1>1 DEF Ordered
  <2>3. CASE i > n /\ n > 0
    <3>1. rows[n].sequence = n /\ rows[n].sequence < rows[i].sequence
      BY <2>3, <1>1 DEF Linked, Ordered
    <3> QED
      BY <3>1, <2>3, <1>1
  <2> QED
    BY <1>1, <2>1, <2>2, <2>3
<1>3. PICK m \in 0 .. Len(rows) :
        /\ Trail!After(rows, n) = SubSeq(rows, m + 1, Len(rows))
        /\ \A i \in 1 .. Len(rows) : rows[i].sequence > n <=> i > m
  <2>1. n \in Nat
    BY <1>1
  <2> QED
    BY <2>1, RestTyped
<1>4. m = n
  <2>1. /\ m < n => m + 1 \in 1 .. Len(rows)
        /\ n < m => n + 1 \in 1 .. Len(rows)
    BY <1>1
  <2> QED
    BY <1>1, <1>2, <1>3, <2>1
<1> QED
  BY <1>3, <1>4

LEMMA PageTyped ==
  ASSUME chain \in Seq(TrailRows), Ordered(chain), NEW n \in Nat
  PROVE  Trail!PageOf(n) \in Seq(TrailRows)
<1> DEFINE rest == Trail!After(chain, n)
<1>1. rest \in Seq(TrailRows) /\ Len(rest) \in Nat
  BY RestTyped, LenProperties
<1> HIDE DEF rest
<1>2. SubSeq(rest, 1, IF Len(rest) < TrailPage THEN Len(rest) ELSE TrailPage)
        \in Seq(TrailRows)
  BY <1>1, TrailAssumption
<1> QED
  BY <1>2 DEF rest, Trail!PageOf

LEMMA PageRows ==
  ASSUME chain \in Seq(TrailRows), Ordered(chain), NEW n \in 0 .. Len(chain),
         Linked(chain, n), NEW batch, batch = Trail!PageOf(n)
  PROVE  /\ Len(batch) \in 0 .. Len(chain) - n
         /\ \A i \in 1 .. Len(batch) : batch[i] = chain[n + i]
         /\ batch = SubSeq(chain, n + 1, n + Len(batch))
         /\ Len(batch) < TrailPage => n + Len(batch) = Len(chain)
         /\ ~(Len(Trail!After(chain, n)) > TrailPage) => n + Len(batch) = Len(chain)
<1> DEFINE rest == SubSeq(chain, n + 1, Len(chain))
           size == IF Len(rest) < TrailPage THEN Len(rest) ELSE TrailPage
<1>1. Trail!After(chain, n) = rest
  BY Rest
<1>2. /\ Len(chain) \in Nat /\ rest \in Seq(TrailRows) /\ Len(rest) = Len(chain) - n
      /\ \A i \in 1 .. Len(rest) : rest[i] = chain[n + i]
  BY LenProperties
<1> HIDE DEF rest
<1>3. size \in 0 .. Len(rest) /\ (size < TrailPage => size = Len(rest))
      /\ (~(Len(rest) > TrailPage) => size = Len(rest))
  <2>1. Len(rest) \in Nat /\ TrailPage \in Nat
    BY <1>2, TrailAssumption
  <2> QED
    BY <2>1
<1>4. batch = SubSeq(rest, 1, size)
  BY <1>1 DEF Trail!PageOf
<1> HIDE DEF size
<1>5. Len(batch) = size /\ \A i \in 1 .. size : batch[i] = chain[n + i]
  BY <1>2, <1>3, <1>4
<1>6. batch = SubSeq(chain, n + 1, n + size)
  <2>1. CASE size = 0
    BY <2>1, <1>2, <1>4, SubSeqEmpty
  <2>2. CASE size > 0
    <3>1. n + 1 \in 1 .. Len(chain) /\ 1 \in 1 .. Len(chain) - (n + 1) + 1
          /\ size \in 1 .. Len(chain) - (n + 1) + 1 /\ Len(chain) \in 1 .. Len(chain)
      BY <2>2, <1>2, <1>3
    <3>2. SubSeq(rest, 1, size) = SubSeq(chain, n + 1 + 1 - 1, n + 1 + size - 1)
      BY <3>1, SubSeqOfSubSeq DEF rest
    <3> QED
      BY <3>1, <3>2, <1>2, <1>4
  <2> QED
    BY <1>3, <1>2, <2>1, <2>2
<1> QED
  BY <1>1, <1>2, <1>3, <1>5, <1>6

LEMMA ToldGrows ==
  ASSUME NEW rows \in Seq(TrailRows), NEW j \in 1 .. Len(rows)
  PROVE  /\ Append(Told(rows, j - 1), rows[j].event) = Told(rows, j)
         /\ Told(rows, j) \in Seq(TrailEvents) /\ Len(Told(rows, j)) = j
<1>1. Len(rows) \in Nat /\ \A i \in 1 .. Len(rows) : rows[i].event \in TrailEvents
  BY RowFields
<1>2. /\ Told(rows, j - 1) \in Seq(TrailEvents) /\ Len(Told(rows, j - 1)) = j - 1
      /\ Told(rows, j) \in Seq(TrailEvents) /\ Len(Told(rows, j)) = j
  BY <1>1 DEF Told
<1>3. \A i \in 1 .. j : Append(Told(rows, j - 1), rows[j].event)[i] = Told(rows, j)[i]
  BY <1>1, <1>2 DEF Told
<1> QED
  BY <1>1, <1>2, <1>3, AppendProperties, SeqEqual

\* A page that follows what was verified is what the triggers made, and no other.
LEMMA PageFollows ==
  ASSUME chain \in Seq(TrailRows), Ordered(chain), NEW n \in 0 .. Len(chain),
         Linked(chain, n), NEW batch, batch = Trail!PageOf(n),
         check.count = n, check.hash = Told(chain, n)
  PROVE  (\A i \in DOMAIN batch : Trail!Follows(batch, i)) <=> Linked(chain, n + Len(batch))
<1> DEFINE m == Len(batch)
<1>1. /\ m \in 0 .. Len(chain) - n
      /\ \A i \in 1 .. m : batch[i] = chain[n + i]
      /\ batch \in Seq(TrailRows) /\ DOMAIN batch = 1 .. m
      /\ Len(chain) \in Nat
  <2>1. n \in Nat
    BY LenProperties
  <2> QED
    BY <2>1, PageRows, PageTyped, LenProperties
<1> HIDE DEF m
\* What a row of the batch has to carry on.
<1>2. ASSUME NEW i \in 1 .. m, i = 1 \/ chain[n + i - 1].hash = Told(chain, n + i - 1)
      PROVE  Trail!Follows(batch, i) <=>
               /\ chain[n + i].sequence = n + i
               /\ chain[n + i].previous = Told(chain, n + i - 1)
               /\ chain[n + i].hash = Told(chain, n + i)
  <2> DEFINE previous == IF i = 1 THEN check.hash ELSE batch[i - 1].hash
  <2>1. previous = Told(chain, n + i - 1)
    <3>1. CASE i = 1
      BY <3>1
    <3>2. CASE i # 1
      BY <3>2, <1>1, <1>2
    <3> QED
      BY <3>1, <3>2
  <2>2. Append(Told(chain, n + i - 1), chain[n + i].event) = Told(chain, n + i)
    <3>1. n + i \in 1 .. Len(chain)
      BY <1>1
    <3> QED
      BY <3>1, ToldGrows
  <2>3. Trail!Follows(batch, i) <=>
          /\ batch[i].sequence = n + i
          /\ batch[i].previous = previous
          /\ batch[i].hash = Append(previous, batch[i].event)
    BY DEF Trail!Follows
  <2> QED
    BY <1>1, <2>1, <2>2, <2>3
<1>3. ASSUME Linked(chain, n + m), NEW i \in 1 .. m PROVE Trail!Follows(batch, i)
  <2>1. n + i \in 1 .. n + m /\ (i = 1 \/ n + i - 1 \in 1 .. n + m)
    BY <1>1
  <2> QED
    BY <1>2, <1>3, <2>1 DEF Linked
<1>4. ASSUME \A i \in 1 .. m : Trail!Follows(batch, i) PROVE Linked(chain, n + m)
  <2> DEFINE Link(j) == /\ chain[j].sequence = j
                        /\ chain[j].previous = Told(chain, j - 1)
                        /\ chain[j].hash = Told(chain, j)
             S == {j \in 1 .. n + m : ~Link(j)}
  <2>1. SUFFICES ASSUME S # {} PROVE FALSE
    BY DEF Linked
  <2>2. PICK j \in S : \A k \in S : j <= k
    <3>1. S \in SUBSET Nat
      OBVIOUS
    <3> HIDE DEF S
    <3> QED
      BY <2>1, <3>1, LeastNumber
  <2>3. j > n
    BY <2>2 DEF Linked
  <2>4. j - n \in 1 .. m /\ (j - n = 1 \/ j - 1 \in 1 .. n + m)
    BY <1>1, <2>2, <2>3
  <2>5. j - n = 1 \/ Link(j - 1)
    BY <2>2, <2>4, <1>1
  <2>6. PICK i \in 1 .. m : i = j - n /\ n + i = j /\ n + i - 1 = j - 1
    BY <1>1, <2>4
  <2>7. i = 1 \/ chain[n + i - 1].hash = Told(chain, n + i - 1)
    BY <2>5, <2>6
  <2>8. Link(j)
    BY <1>2, <1>4, <2>6, <2>7
  <2> QED
    BY <2>2, <2>8
<1> QED
  BY <1>1, <1>3, <1>4 DEF m

\* The kinds of records are told apart by their steps.
LEMMA TrailKinds ==
  /\ \A k \in Checks : k.step \in {"pages", "checkpoint"} /\ k # TrailIdle
  /\ \A k \in Verdicts : k.step = "done" /\ k # TrailIdle
  /\ \A w \in Walks : w.step \in {"pages", "done"} /\ w # TrailIdle
  /\ \A a \in Appends : a.step = "append" /\ a # TrailIdle
  /\ \A a \in Commits : a.step = "commit" /\ a # TrailIdle
  /\ \A a \in Rejects : a.step = "reject" /\ a # TrailIdle
  /\ TrailIdle.step = "idle" /\ Trail!Idle = TrailIdle
  BY DEF Checks, Verdicts, Walks, Appends, Commits, Rejects, TrailIdle, Trail!Idle

LEMMA VerifyPageStep ==
  ASSUME TrailInv, Trail!VerifyPage
  PROVE  check' \in Checks /\ ChecksSound'
<1> DEFINE batch == Trail!PageOf(check.last)
           ok == \A i \in DOMAIN batch : Trail!Follows(batch, i)
           end == IF batch = <<>> THEN [sequence |-> check.last, hash |-> check.hash]
                  ELSE batch[Len(batch)]
<1>1. /\ check' = [check EXCEPT
           !.valid = @ /\ ok, !.count = @ + Len(batch), !.last = end.sequence,
           !.hash = end.hash,
           !.step = IF Len(batch) < TrailPage THEN "checkpoint" ELSE "pages"]
      /\ check.step = "pages" /\ UNCHANGED <<chain, damaged>>
  BY DEF Trail!VerifyPage
<1>2. /\ check \in Checks /\ check.valid \in BOOLEAN /\ check.intact \in BOOLEAN
      /\ check.count \in Nat /\ check.last \in Nat /\ check.hash \in Seq(TrailEvents)
      /\ chain \in Seq(TrailRows) /\ Ordered(chain) /\ Len(chain) \in Nat
  BY <1>1, TrailKinds DEF TrailInv, TrailTyped, Checks
<1>3. batch \in Seq(TrailRows) /\ Len(batch) \in Nat
  BY <1>2, PageTyped, LenProperties
<1>4. /\ batch = <<>> => Len(batch) = 0 /\ end.sequence = check.last /\ end.hash = check.hash
      /\ batch # <<>> => /\ Len(batch) \in 1 .. Len(batch)
                       /\ end.sequence = batch[Len(batch)].sequence
                       /\ end.hash = batch[Len(batch)].hash
  BY <1>3, EmptySeq
<1>5. end.sequence \in Nat /\ end.hash \in Seq(TrailEvents)
  BY <1>2, <1>3, <1>4, RowFields
<1> HIDE DEF end, ok, batch
<1>6. ok \in BOOLEAN
  BY DEF ok
<1>7. /\ check' \in Checks
      /\ check'.valid = (check.valid /\ ok) /\ check'.count = check.count + Len(batch)
      /\ check'.last = end.sequence /\ check'.hash = end.hash
      /\ check'.intact = check.intact
      /\ check'.step = IF Len(batch) < TrailPage THEN "checkpoint" ELSE "pages"
  <2>1. PICK valid \in BOOLEAN : valid = (check.valid /\ ok)
    BY <1>2, <1>6
  <2>2. PICK step \in {"pages", "checkpoint"} :
          step = IF Len(batch) < TrailPage THEN "checkpoint" ELSE "pages"
    OBVIOUS
  <2>3. PICK count \in Nat : count = check.count + Len(batch)
    BY <1>2, <1>3
  <2>4. PICK last \in Nat, hash \in Seq(TrailEvents) : last = end.sequence /\ hash = end.hash
    BY <1>5
  <2>5. PICK k \in Checks : k = check
    BY <1>2
  <2>6. PICK new : new = [k EXCEPT !.valid = valid, !.count = count, !.last = last,
                                  !.hash = hash, !.step = step]
    OBVIOUS
  <2>7. check' = new
    BY <1>1, <2>1, <2>2, <2>3, <2>4, <2>5, <2>6, Zenon
  <2>8. /\ new \in Checks
        /\ new.valid = valid /\ new.count = count /\ new.last = last /\ new.hash = hash
        /\ new.step = step /\ new.intact = k.intact
    BY <2>6 DEF Checks
  <2> QED
    BY <2>1, <2>2, <2>3, <2>4, <2>5, <2>7, <2>8, Zenon
<1>8. ASSUME ~damaged \/ (~check.intact /\ check.valid)
      PROVE  /\ Len(batch) \in 0 .. Len(chain) - check.count
             /\ ok <=> Linked(chain, check.count + Len(batch))
             /\ Len(batch) < TrailPage => check.count + Len(batch) = Len(chain)
             /\ ok => /\ end.sequence = check.count + Len(batch)
                      /\ end.hash = Told(chain, check.count + Len(batch))
  <2>1. /\ check.last = check.count /\ check.count \in 0 .. Len(chain)
        /\ Linked(chain, check.count) /\ check.hash = Told(chain, check.count)
    BY <1>2, <1>8 DEF TrailInv, ChecksSound, Claims
  <2>2. /\ Len(batch) \in 0 .. Len(chain) - check.count
        /\ \A i \in 1 .. Len(batch) : batch[i] = chain[check.count + i]
        /\ Len(batch) < TrailPage => check.count + Len(batch) = Len(chain)
    BY <1>2, <2>1, PageRows DEF batch
  <2>3. ok <=> Linked(chain, check.count + Len(batch))
    BY <1>2, <2>1, PageFollows DEF ok, batch
  <2>4. ASSUME ok
        PROVE  /\ end.sequence = check.count + Len(batch)
               /\ end.hash = Told(chain, check.count + Len(batch))
    <3>1. CASE batch = <<>>
      BY <3>1, <1>4, <2>1
    <3>2. CASE batch # <<>>
      <4>1. /\ check.count + Len(batch) \in 1 .. check.count + Len(batch)
            /\ batch[Len(batch)] = chain[check.count + Len(batch)]
        BY <3>2, <1>2, <1>3, <1>4, <2>2
      <4> QED
        BY <3>2, <1>4, <2>3, <2>4, <4>1 DEF Linked
    <3> QED
      BY <3>1, <3>2
  <2> QED
    BY <2>2, <2>3, <2>4
<1>9. ~damaged => check'.valid
  <2> SUFFICES ASSUME ~damaged PROVE ok /\ check.valid
    BY <1>7
  <2>1. /\ Len(batch) \in 0 .. Len(chain) - check.count
        /\ ok <=> Linked(chain, check.count + Len(batch))
    BY <1>8
  <2>2. Linked(chain, check.count + Len(batch))
    BY <1>2, <2>1 DEF TrailInv, Whole, Linked
  <2> QED
    BY <1>2, <2>1, <2>2 DEF TrailInv, ChecksSound
<1>10. ASSUME ~damaged \/ (~check'.intact /\ check'.valid)
       PROVE  /\ check'.last = check'.count /\ check'.count <= Len(chain)
              /\ Linked(chain, check'.count) /\ check'.hash = Told(chain, check'.count)
              /\ check'.step = "checkpoint" => Linked(chain, Len(chain))
  <2>1. ok /\ (~damaged \/ (~check.intact /\ check.valid))
    BY <1>7, <1>9, <1>10
  <2> QED
    BY <1>2, <1>7, <1>8, <2>1
<1> QED
  BY <1>1, <1>2, <1>7, <1>9, <1>10 DEF ChecksSound, Claims, TrailInv

LEMMA VerdictStep ==
  ASSUME TrailInv, Trail!VerifyCheckpoint
  PROVE  check' \in Verdicts /\ VerdictsSound'
<1> DEFINE covered == IF checkpoints = <<>> THEN <<>> ELSE Trail!Latest.head
<1>1. /\ check' = [step |-> "done", verdict |-> check.valid /\ Trail!CheckpointValid,
                  intact |-> check.intact, covered |-> covered]
      /\ check.step = "checkpoint" /\ UNCHANGED <<chain, damaged>>
  BY DEF Trail!VerifyCheckpoint
<1>2. /\ check \in Checks /\ check.valid \in BOOLEAN /\ check.intact \in BOOLEAN
      /\ chain \in Seq(TrailRows) /\ Len(chain) \in Nat /\ DOMAIN chain = 1 .. Len(chain)
  BY <1>1, TrailKinds DEF TrailInv, TrailTyped, Checks
<1>3. checkpoints # <<>> =>
        /\ Len(checkpoints) \in 1 .. Len(checkpoints)
        /\ Trail!Latest = checkpoints[Len(checkpoints)]
        /\ Trail!Latest.head \in Seq(TrailEvents)
  <2>1. checkpoints \in Seq([sequence : Nat, head : Seq(TrailEvents)])
    BY DEF TrailInv, TrailTyped
  <2>2. checkpoints # <<>> => Len(checkpoints) \in 1 .. Len(checkpoints)
    BY <2>1, EmptySeq
  <2>3. checkpoints # <<>> =>
          checkpoints[Len(checkpoints)] \in [sequence : Nat, head : Seq(TrailEvents)]
    BY <2>1, <2>2, ElementOfSeq
  <2> QED
    BY <2>2, <2>3 DEF Trail!Latest
<1>4. covered \in Seq(TrailEvents)
  BY <1>3
<1>5. PICK verdict \in BOOLEAN : verdict = (check.valid /\ Trail!CheckpointValid)
  BY <1>2 DEF Trail!CheckpointValid
<1>6. /\ check' \in Verdicts /\ check'.verdict = verdict /\ check'.intact = check.intact
      /\ check'.covered = covered
  <2>1. check' = [step |-> "done", verdict |-> verdict, intact |-> check.intact,
                  covered |-> covered]
    BY <1>1, <1>5, Zenon
  <2> HIDE DEF covered
  <2> QED
    BY <1>2, <1>4, <2>1 DEF Verdicts
<1>7. ~damaged => verdict
  <2> SUFFICES ASSUME ~damaged PROVE check.valid /\ Trail!CheckpointValid
    BY <1>5
  <2>1. check.valid
    BY <1>2 DEF TrailInv, ChecksSound
  <2>2. checkpoints # <<>> =>
          \E i \in DOMAIN chain : chain[i].sequence = Trail!Latest.sequence
                               /\ chain[i].hash = Trail!Latest.head
    BY <1>2, <1>3 DEF TrailInv, Pinned, Whole, Linked
  <2> QED
    BY <2>1, <2>2 DEF Trail!CheckpointValid
<1>8. ASSUME verdict, ~check.intact
      PROVE  /\ Len(covered) <= Len(chain)
             /\ \A i \in 1 .. Len(covered) : chain[i].event = covered[i]
  <2>1. check.valid /\ Trail!CheckpointValid
    BY <1>5, <1>8
  <2>2. Linked(chain, Len(chain))
    BY <1>1, <1>2, <1>8, <2>1 DEF TrailInv, ChecksSound, Claims
  <2>3. CASE checkpoints = <<>>
    BY <2>3, <1>2
  <2>4. CASE checkpoints # <<>>
    <3>1. PICK i \in 1 .. Len(chain) : chain[i].hash = covered
      BY <2>1, <2>4, <1>2 DEF Trail!CheckpointValid
    <3>2. covered = Told(chain, i) /\ Len(covered) = i
      BY <1>2, <2>2, <3>1, ToldGrows DEF Linked
    <3> QED
      BY <1>2, <3>2 DEF Told
  <2> QED
    BY <2>3, <2>4
<1>9. ~check.intact => damaged
  BY <1>2 DEF TrailInv, ChecksSound
<1> QED
  BY <1>1, <1>6, <1>7, <1>8, <1>9 DEF VerdictsSound

LEMMA StartVerifyStep ==
  ASSUME TrailInv, Trail!StartVerify
  PROVE  check' \in Checks /\ ChecksSound'
<1>1. /\ check' = [step |-> "pages", valid |-> TRUE, count |-> 0, last |-> 0, hash |-> <<>>,
                  intact |-> ~damaged]
      /\ UNCHANGED <<chain, damaged>>
  BY DEF Trail!StartVerify
<1>2. PICK intact \in BOOLEAN : intact = (~damaged)
  OBVIOUS
<1>3. /\ check' \in Checks /\ check'.valid /\ check'.count = 0 /\ check'.last = 0
      /\ check'.hash = <<>> /\ check'.intact = intact /\ check'.step = "pages"
  <2>1. check' = [step |-> "pages", valid |-> TRUE, count |-> 0, last |-> 0, hash |-> <<>>,
                  intact |-> intact]
    BY <1>1, <1>2, Zenon
  <2> QED
    BY <2>1 DEF Checks
<1>4. Linked(chain, 0) /\ Told(chain, 0) = <<>> /\ Len(chain) \in Nat
  BY DEF Linked, Told, TrailInv, TrailTyped
<1>5. /\ check'.last = check'.count /\ check'.count <= Len(chain)
      /\ Linked(chain, check'.count) /\ check'.hash = Told(chain, check'.count)
      /\ check'.step # "checkpoint"
  BY <1>3, <1>4
<1>6. ~check'.intact => damaged
  BY <1>2, <1>3
<1> QED
  BY <1>1, <1>3, <1>5, <1>6 DEF ChecksSound, Claims

LEMMA StartWalkStep ==
  ASSUME TrailInv, Trail!StartWalk
  PROVE  walk' \in Walks /\ WalkSound'
<1>1. /\ walk' = [step |-> "pages", after |-> 0, shown |-> <<>>, due |-> chain]
      /\ chain \in Seq(TrailRows) /\ Len(chain) \in Nat /\ UNCHANGED <<chain, damaged>>
  BY DEF Trail!StartWalk, TrailInv, TrailTyped
<1>2. /\ walk' \in Walks /\ walk'.after = 0 /\ walk'.shown = <<>> /\ walk'.due = chain
      /\ walk'.step = "pages"
  BY <1>1 DEF Walks
<1>3. SubSeq(chain, 1, 0) = <<>>
  BY SubSeqEmpty
<1> QED
  BY <1>1, <1>2, <1>3 DEF WalkSound

LEMMA ListStep ==
  ASSUME TrailInv, Trail!ListAuditEvents
  PROVE  walk' \in Walks /\ WalkSound'
<1> DEFINE batch == Trail!PageOf(walk.after)
           more == Len(Trail!After(chain, walk.after)) > TrailPage
<1>1. /\ walk' = [walk EXCEPT !.shown = @ \o batch, !.step = IF more THEN "pages" ELSE "done",
                             !.after = IF batch = <<>> THEN @ ELSE batch[Len(batch)].sequence]
      /\ walk.step = "pages" /\ UNCHANGED <<chain, damaged>>
  BY DEF Trail!ListAuditEvents
<1>2. /\ walk \in Walks /\ walk.after \in Nat /\ walk.shown \in Seq(TrailRows)
      /\ walk.due \in Seq(TrailRows)
      /\ chain \in Seq(TrailRows) /\ Ordered(chain) /\ Len(chain) \in Nat
  BY <1>1, TrailKinds DEF TrailInv, TrailTyped, Walks
<1>3. batch \in Seq(TrailRows) /\ Len(batch) \in Nat
  BY <1>2, PageTyped, LenProperties
<1>4. batch # <<>> => Len(batch) \in 1 .. Len(batch)
  BY <1>3, EmptySeq
<1>5. PICK given \in Seq(TrailRows), step \in {"pages", "done"}, after \in Nat :
        /\ given = walk.shown \o batch
        /\ step = IF more THEN "pages" ELSE "done"
        /\ after = IF batch = <<>> THEN walk.after ELSE batch[Len(batch)].sequence
  <2>1. walk.shown \o batch \in Seq(TrailRows)
    BY <1>2, <1>3, ConcatProperties
  <2>2. (IF batch = <<>> THEN walk.after ELSE batch[Len(batch)].sequence) \in Nat
    BY <1>2, <1>3, <1>4, RowFields
  <2> HIDE DEF batch, more
  <2> QED
    BY <2>1, <2>2
<1> HIDE DEF batch, more
<1>6. PICK w \in Walks : w = walk
  BY <1>2
<1>7. walk' = [w EXCEPT !.shown = given, !.step = step, !.after = after]
  BY <1>1, <1>5, <1>6, Zenon
<1>8. /\ walk' \in Walks /\ walk'.shown = given /\ walk'.step = step /\ walk'.after = after
      /\ walk'.due = walk.due
  BY <1>5, <1>6, <1>7 DEF Walks
<1>9. ASSUME ~damaged
      PROVE  /\ after = Len(given) /\ Len(given) <= Len(chain)
             /\ given = SubSeq(chain, 1, Len(given))
             /\ step = "done" => Len(given) = Len(chain)
  <2>1. PICK n \in 0 .. Len(chain) : n = walk.after /\ n = Len(walk.shown)
                                    /\ walk.shown = SubSeq(chain, 1, n)
    BY <1>1, <1>2, <1>9, TrailKinds DEF TrailInv, WalkSound
  <2>2. Linked(chain, n) /\ Linked(chain, Len(chain))
    BY <1>2, <1>9 DEF TrailInv, Whole, Linked
  <2>3. /\ Len(batch) \in 0 .. Len(chain) - n
        /\ \A i \in 1 .. Len(batch) : batch[i] = chain[n + i]
        /\ batch = SubSeq(chain, n + 1, n + Len(batch))
        /\ ~more => n + Len(batch) = Len(chain)
    BY <1>2, <2>1, <2>2, PageRows DEF batch, more
  <2>4. given = SubSeq(chain, 1, n + Len(batch)) /\ Len(given) = n + Len(batch)
    <3>1. /\ 1 \in 1 .. Len(chain) + 1 /\ n \in 1 - 1 .. Len(chain)
          /\ n + Len(batch) \in n .. Len(chain)
      BY <1>2, <2>1, <2>3
    <3>2. SubSeq(chain, 1, n) \o SubSeq(chain, n + 1, n + Len(batch))
            = SubSeq(chain, 1, n + Len(batch))
      BY <1>2, <3>1, ConcatAdjacentSubSeq
    <3>3. Len(walk.shown \o batch) = Len(walk.shown) + Len(batch)
      BY <1>2, <1>3, ConcatProperties
    <3> QED
      BY <1>5, <2>1, <2>3, <3>2, <3>3
  <2>5. after = n + Len(batch)
    <3>1. CASE batch = <<>>
      BY <3>1, <1>5, <2>1
    <3>2. CASE batch # <<>>
      <4>1. n + Len(batch) \in 1 .. Len(chain) /\ batch[Len(batch)] = chain[n + Len(batch)]
        BY <3>2, <1>4, <2>1, <2>3
      <4> QED
        BY <3>2, <4>1, <1>5, <2>2 DEF Linked
    <3> QED
      BY <3>1, <3>2
  <2> QED
    BY <1>2, <1>5, <2>3, <2>4, <2>5
<1>10. ~damaged => Len(walk.due) <= Len(chain)
  BY <1>1, <1>2, TrailKinds DEF TrailInv, WalkSound
<1> QED
  BY <1>1, <1>8, <1>9, <1>10 DEF WalkSound

\* What readers have seen stays as it is while the chain grows.
LEMMA ReadersKept ==
  ASSUME TrailInv, UNCHANGED <<check, walk, damaged>>, NEW e \in TrailEvents,
         chain' = chain \/ chain' = Append(chain, Trail!Chained(chain, e))
  PROVE  WalkSound' /\ ChecksSound' /\ VerdictsSound'
<1>1. CASE chain' = chain
  BY <1>1 DEF TrailInv, WalkSound, ChecksSound, VerdictsSound, Claims
<1>2. CASE chain' = Append(chain, Trail!Chained(chain, e))
  <2>1. /\ chain' \in Seq(TrailRows) /\ Len(chain') = Len(chain) + 1 /\ Len(chain) \in Nat
        /\ \A i \in 1 .. Len(chain) : chain'[i] = chain[i]
        /\ \A n \in 0 .. Len(chain) : Told(chain', n) = Told(chain, n)
        /\ \A n \in 0 .. Len(chain) : Linked(chain, n) => Linked(chain', n)
        /\ Linked(chain, Len(chain)) => Linked(chain', Len(chain'))
    <3>1. chain \in Seq(TrailRows) /\ Ordered(chain)
      BY DEF TrailInv, TrailTyped
    <3>2. PICK new : new = chain'
      OBVIOUS
    <3>3. new = Append(chain, Trail!Chained(chain, e))
      BY <1>2, <3>2
    <3>4. Grown(chain, e, new)
      BY <3>1, <3>3, Growth
    <3> QED
      BY <3>1, <3>2, <3>4 DEF Grown
  <2>2. ChecksSound'
    <3>1. check \in Checks => check.count \in Nat
      BY DEF Checks
    <3> QED
      BY <2>1, <3>1 DEF TrailInv, ChecksSound, Claims
  <2>3. VerdictsSound'
    <3>1. check \in Verdicts => Len(check.covered) \in Nat
      BY LenProperties DEF Verdicts
    <3> QED
      BY <2>1, <3>1 DEF TrailInv, VerdictsSound
  <2>4. WalkSound'
    <3> SUFFICES ASSUME walk # TrailIdle, ~damaged
                 PROVE  /\ walk.after = Len(walk.shown) /\ Len(walk.shown) <= Len(chain')
                        /\ walk.shown = SubSeq(chain', 1, Len(walk.shown))
                        /\ Len(walk.due) <= Len(chain')
                        /\ walk.step = "done" => Len(walk.due) <= Len(walk.shown)
      BY DEF WalkSound
    <3>1. Len(walk.shown) \in Nat /\ Len(walk.due) \in Nat
      BY LenProperties DEF TrailInv, TrailTyped, Walks
    <3>2. PICK n \in 0 .. Len(chain) : n = Len(walk.shown)
      BY <3>1 DEF TrailInv, WalkSound
    <3>3. SubSeq(chain', 1, n) = SubSeq(chain, 1, n)
      BY <2>1
    <3> QED
      BY <2>1, <3>1, <3>2, <3>3 DEF TrailInv, WalkSound
  <2> QED
    BY <2>2, <2>3, <2>4
<1> QED
  BY <1>1, <1>2

--------------------------------------------------------------------------------
LEMMA CallFields ==
  /\ \A a \in Appends : /\ a.id \in Nat /\ a.kind \in Trail!Kinds /\ a.attempt \in Nat
                        /\ a.snapshot \in Seq(TrailRows)
  /\ \A a \in Commits : /\ a.id \in Nat /\ a.kind \in Trail!Kinds /\ a.attempt \in Nat
                        /\ a.row \in TrailRows
  /\ \A a \in Rejects : a.id \in Nat /\ a.kind \in Trail!Kinds
  BY DEF Appends, Commits, Rejects

LEMMA StaleKept ==
  ASSUME NEW rows \in Seq(TrailRows), NEW e, NEW new, Grown(rows, e, new),
         NEW saw \in Seq(TrailRows), Stale(saw, rows)
  PROVE  Stale(saw, new)
<1>1. Len(rows) \in Nat /\ Len(saw) \in 0 .. Len(rows) /\ saw = SubSeq(rows, 1, Len(saw))
  BY LenProperties DEF Stale
<1>2. SubSeq(new, 1, Len(saw)) = SubSeq(rows, 1, Len(saw))
  BY <1>1 DEF Grown
<1>3. CASE Len(saw) < Len(rows)
  <2>1. Len(saw) + 1 \in 1 .. Len(rows)
    BY <1>1, <1>3
  <2>2. new[Len(saw) + 1] = rows[Len(saw) + 1] /\ Len(saw) <= Len(new)
    BY <1>1, <2>1 DEF Grown
  <2> QED
    BY <1>1, <1>2, <1>3, <2>2 DEF Stale
<1>4. CASE Len(saw) = Len(rows)
  <2>1. saw = rows
    BY <1>1, <1>4
  <2> QED
    BY <1>1, <1>2, <2>1 DEF Grown, Stale
<1> QED
  BY <1>1, <1>3, <1>4

\* The chain as it is.
LEMMA StaleStart ==
  ASSUME NEW rows \in Seq(TrailRows)
  PROVE  Stale(rows, rows)
  BY LenProperties DEF Stale

LEMMA CallsTyped ==
  ASSUME TrailTyped, NEW c \in Transactions, NEW new \in TrailCalls,
         auditCalls' = [auditCalls EXCEPT ![c] = new]
  PROVE  /\ auditCalls' \in [Transactions -> TrailCalls]
         /\ auditCalls'[c] = new
         /\ \A d \in Transactions : d # c => auditCalls'[d] = auditCalls[d]
  BY DEF TrailTyped

Becomes(c, new) == auditCalls' = [auditCalls EXCEPT ![c] = new]

\* A step of one call that leaves the chain as it is.
LEMMA CallMoves ==
  ASSUME TrailInv, NEW c \in Transactions, NEW new \in TrailCalls,
         Becomes(c, new),
         UNCHANGED <<chain, checkpoints, mutated, damaged, check, walk>>,
         losses' \in Nat, begun' \in Nat, begun' >= begun,
         trailLock' \in Transactions \union {"nobody"},
         trailLock' = c <=> new.step = "commit",
         \A d \in Transactions : d # c => (trailLock' = d <=> trailLock = d),
         new.step = "append" => Stale(new.snapshot, chain),
         new.step = "commit" =>
           new.row = Trail!Chained(chain, Trail!Event(new.id, new.kind, "succeeded")),
         new # TrailIdle =>
           /\ new.id \in 1 .. begun'
           /\ \A d \in Transactions : d # c /\ auditCalls[d] # TrailIdle => auditCalls[d].id # new.id,
         new.step \in {"append", "commit"} => Untold(new.id)
  PROVE  TrailInv'
<1>1. /\ auditCalls' \in [Transactions -> TrailCalls]
      /\ auditCalls'[c] = new
      /\ \A d \in Transactions : d # c => auditCalls'[d] = auditCalls[d]
  BY CallsTyped DEF TrailInv, Becomes
<1>2. TrailTyped'
  BY <1>1 DEF TrailInv, TrailTyped
<1>3. Ordered(chain)' /\ Whole' /\ Pinned' /\ WalkSound' /\ ChecksSound' /\ VerdictsSound'
  BY DEF TrailInv, Ordered, Whole, Linked, Told, Pinned, WalkSound, ChecksSound, VerdictsSound, Claims
<1>4. Snapshots'
  BY <1>1 DEF TrailInv, Snapshots, Stale, LastOf
<1>5. Prepared'
  <2> SUFFICES ASSUME NEW d \in Transactions, auditCalls'[d].step = "commit"
               PROVE  auditCalls'[d].row = Trail!Chained(chain,
                        Trail!Event(auditCalls'[d].id, auditCalls'[d].kind, "succeeded"))
    BY DEF Prepared, Trail!Chained, Trail!Event, Trail!HeadHash
  <2> QED
    BY <1>1 DEF TrailInv, Prepared
<1>6. Identified'
  <2>1. \A d \in Transactions : auditCalls'[d] # TrailIdle => auditCalls'[d].id \in 1 .. begun'
    BY <1>1 DEF TrailInv, TrailTyped, Identified
  <2>2. \A d, f \in Transactions :
          d # f /\ auditCalls'[d] # TrailIdle /\ auditCalls'[f] # TrailIdle =>
            auditCalls'[d].id # auditCalls'[f].id
    BY <1>1 DEF TrailInv, Identified
  <2>3. /\ \A i \in 1 .. Len(chain) : chain[i].event.id \in 1 .. begun'
        /\ mutated \subseteq 1 .. begun'
    BY DEF TrailInv, TrailTyped, Identified
  <2> QED
    BY <2>1, <2>2, <2>3 DEF Identified
<1>7. Undecided'
  BY <1>1 DEF TrailInv, Undecided, Untold
<1>8. Once'
  <2> SUFFICES ASSUME ~damaged, NEW id \in 1 .. begun'
               PROVE  id \in mutated <=>
                        \E i \in 1 .. Len(chain) : /\ chain[i].event.id = id
                          /\ chain[i].event.kind = "change" /\ chain[i].event.outcome = "succeeded"
    BY DEF TrailInv, Once
  <2>1. CASE id \in 1 .. begun
    BY <2>1 DEF TrailInv, Once
  <2>2. CASE id \notin 1 .. begun
    BY <2>2 DEF TrailInv, Identified
  <2> QED
    BY <2>1, <2>2
<1> QED
  BY <1>2, <1>3, <1>4, <1>5, <1>6, <1>7, <1>8 DEF TrailInv

\* A step of one call that adds a row.
LEMMA ChainMoves ==
  ASSUME TrailInv, NEW c \in Transactions, auditCalls[c] # TrailIdle,
         NEW new \in TrailCalls, new.step \in {"idle", "reject"},
         Becomes(c, new),
         new # TrailIdle => new.id = auditCalls[c].id,
         NEW e \in TrailEvents, e.id = auditCalls[c].id,
         e.outcome = "succeeded" => auditCalls[c].step = "commit",
         chain' = Append(chain, Trail!Chained(chain, e)),
         mutated' = IF e.kind = "change" /\ e.outcome = "succeeded"
                    THEN mutated \union {e.id} ELSE mutated,
         checkpoints' \in {checkpoints,
           Append(checkpoints, [sequence |-> Trail!Chained(chain, e).sequence,
                                head |-> Trail!Chained(chain, e).hash])},
         UNCHANGED <<begun, damaged, check, walk>>,
         losses' \in Nat, trailLock' = "nobody", trailLock \in {c, "nobody"}
  PROVE  TrailInv'
<1> DEFINE row == Trail!Chained(chain, e)
<1>1. /\ auditCalls' \in [Transactions -> TrailCalls]
      /\ auditCalls'[c] = new
      /\ \A d \in Transactions : d # c => auditCalls'[d] = auditCalls[d]
  BY CallsTyped DEF TrailInv, Becomes
<1>2. PICK rows : rows = chain'
  OBVIOUS
<1>3. Grown(chain, e, rows) /\ chain \in Seq(TrailRows) /\ Len(chain) \in Nat
  <2>1. chain \in Seq(TrailRows) /\ Ordered(chain)
    BY DEF TrailInv, TrailTyped
  <2>2. rows = Append(chain, Trail!Chained(chain, e))
    BY <1>2
  <2> QED
    BY <2>1, <2>2, Growth, LenProperties
<1>4. /\ chain' \in Seq(TrailRows) /\ Len(chain') = Len(chain) + 1
      /\ \A i \in 1 .. Len(chain) : chain'[i] = chain[i]
      /\ chain'[Len(chain) + 1].event = e /\ chain'[Len(chain) + 1] = row
      /\ Ordered(chain')
      /\ Linked(chain, Len(chain)) => Linked(chain', Len(chain'))
  <2>1. row \in TrailRows
    BY <1>3, ChainedRow
  <2> QED
    BY <1>2, <1>3, <2>1, AppendProperties DEF Grown
<1>5. /\ row.sequence \in Nat /\ row.hash \in Seq(TrailEvents)
      /\ Linked(chain, Len(chain)) => row.sequence = Len(chain) + 1
  <2>1. row \in TrailRows /\ row.sequence = LastOf(chain) + 1
    BY <1>3, ChainedRow
  <2> HIDE DEF row
  <2> QED
    BY <1>3, <2>1 DEF Grown, TrailRows, Trail!Rows, TrailEvents
<1> HIDE DEF row
<1>6. \A d \in Transactions : d # c => auditCalls[d].step # "commit"
  BY TrailAssumption DEF TrailInv, TrailTyped
<1>7. new.step # "commit" /\ new.step # "append"
  OBVIOUS
<1>8. TrailTyped'
  <2>1. checkpoints' \in Seq([sequence : Nat, head : Seq(TrailEvents)])
    <3>1. PICK p \in [sequence : Nat, head : Seq(TrailEvents)] :
            p = [sequence |-> row.sequence, head |-> row.hash]
      BY <1>5
    <3>2. checkpoints' = checkpoints \/ checkpoints' = Append(checkpoints, p)
      BY <3>1 DEF row
    <3>3. checkpoints \in Seq([sequence : Nat, head : Seq(TrailEvents)])
      BY DEF TrailInv, TrailTyped
    <3>4. Append(checkpoints, p) \in Seq([sequence : Nat, head : Seq(TrailEvents)])
      BY <3>1, <3>3, AppendProperties
    <3> QED
      BY <3>2, <3>3, <3>4
  <2>2. \A d \in Transactions : trailLock' = d <=> auditCalls'[d].step = "commit"
    BY <1>1, <1>6, <1>7, TrailAssumption
  <2> QED
    BY <1>1, <1>4, <2>1, <2>2 DEF TrailInv, TrailTyped
<1>9. Snapshots'
  <2> SUFFICES ASSUME NEW d \in Transactions, auditCalls'[d].step = "append"
               PROVE  Stale(auditCalls'[d].snapshot, rows)
    BY <1>2 DEF Snapshots, Stale, LastOf
  <2>1. d # c /\ auditCalls'[d] = auditCalls[d] /\ auditCalls[d].step = "append"
    BY <1>1, <1>7
  <2>2. auditCalls[d] \in Appends /\ auditCalls[d].snapshot \in Seq(TrailRows)
    BY <2>1, TrailKinds, CallFields DEF TrailInv, TrailTyped, TrailCalls
  <2>3. Stale(auditCalls[d].snapshot, chain)
    BY <2>1 DEF TrailInv, Snapshots
  <2> QED
    BY <1>3, <2>1, <2>2, <2>3, StaleKept
<1>10. Prepared'
  BY <1>1, <1>6, <1>7 DEF Prepared
<1>11. e.id \in 1 .. begun
  BY DEF TrailInv, Identified
<1>12. Identified'
  <2>1. /\ \A d \in Transactions : auditCalls'[d] # TrailIdle => auditCalls'[d].id \in 1 .. begun
        /\ \A d, f \in Transactions :
             d # f /\ auditCalls'[d] # TrailIdle /\ auditCalls'[f] # TrailIdle =>
               auditCalls'[d].id # auditCalls'[f].id
    BY <1>1 DEF TrailInv, Identified
  <2>2. \A i \in 1 .. Len(chain') : chain'[i].event.id \in 1 .. begun
    BY <1>3, <1>4, <1>11 DEF TrailInv, Identified
  <2>3. mutated' \subseteq 1 .. begun
    BY <1>11 DEF TrailInv, Identified
  <2> QED
    BY <2>1, <2>2, <2>3 DEF Identified
<1>13. Undecided'
  <2> SUFFICES ASSUME NEW d \in Transactions, auditCalls'[d].step \in {"append", "commit"}
               PROVE  /\ auditCalls'[d].id \notin mutated'
                      /\ \A i \in 1 .. Len(chain') :
                           chain'[i].event.id = auditCalls'[d].id =>
                             chain'[i].event.outcome # "succeeded"
    BY DEF Undecided, Untold
  <2>1. d # c /\ auditCalls'[d] = auditCalls[d]
    BY <1>1, <1>7
  <2>2. auditCalls[d] # TrailIdle /\ auditCalls[d].id # e.id
    BY <2>1, TrailKinds DEF TrailInv, Identified
  <2>3. /\ auditCalls[d].id \notin mutated
        /\ \A i \in 1 .. Len(chain) :
             chain[i].event.id = auditCalls[d].id => chain[i].event.outcome # "succeeded"
    BY <2>1 DEF TrailInv, Undecided, Untold
  <2>4. \A i \in 1 .. Len(chain') : i \in 1 .. Len(chain) \/ i = Len(chain) + 1
    BY <1>3, <1>4
  <2> QED
    BY <1>4, <2>1, <2>2, <2>3, <2>4
<1>14. Whole'
  BY <1>4 DEF TrailInv, Whole
<1>15. Once'
  <2> SUFFICES ASSUME ~damaged PROVE Once'
    BY DEF Once
  <2>1. e.outcome = "succeeded" => Untold(e.id)
    BY DEF TrailInv, Undecided
  <2>2. ASSUME NEW i \in 1 .. Len(chain'), NEW j \in 1 .. Len(chain'),
               chain'[i].event.id = chain'[j].event.id, chain'[i].event.outcome = "succeeded",
               chain'[j].event.outcome = "succeeded"
        PROVE  i = j
    <3>1. i \in 1 .. Len(chain) \/ i = Len(chain) + 1
      BY <1>3, <1>4
    <3>2. j \in 1 .. Len(chain) \/ j = Len(chain) + 1
      BY <1>3, <1>4
    <3> QED
      BY <1>4, <2>1, <2>2, <3>1, <3>2 DEF TrailInv, Once, Untold
  <2>3. ASSUME NEW id \in 1 .. begun
        PROVE  id \in mutated' <=>
                 \E i \in 1 .. Len(chain') : /\ chain'[i].event.id = id
                   /\ chain'[i].event.kind = "change" /\ chain'[i].event.outcome = "succeeded"
    <3>1. id \in mutated <=>
            \E i \in 1 .. Len(chain) : /\ chain[i].event.id = id
              /\ chain[i].event.kind = "change" /\ chain[i].event.outcome = "succeeded"
      BY DEF TrailInv, Once
    <3>2. (\E i \in 1 .. Len(chain') : /\ chain'[i].event.id = id
             /\ chain'[i].event.kind = "change" /\ chain'[i].event.outcome = "succeeded")
          <=> \/ \E i \in 1 .. Len(chain) : /\ chain[i].event.id = id
                   /\ chain[i].event.kind = "change" /\ chain[i].event.outcome = "succeeded"
              \/ e.id = id /\ e.kind = "change" /\ e.outcome = "succeeded"
      BY <1>3, <1>4
    <3> QED
      BY <3>1, <3>2
  <2> QED
    BY <2>2, <2>3 DEF Once
<1>16. Pinned'
  <2> SUFFICES ASSUME ~damaged, NEW k \in 1 .. Len(checkpoints')
               PROVE  /\ checkpoints'[k].sequence \in 1 .. Len(chain')
                      /\ chain'[checkpoints'[k].sequence].hash = checkpoints'[k].head
    BY DEF Pinned
  <2>1. checkpoints \in Seq([sequence : Nat, head : Seq(TrailEvents)])
        /\ Len(checkpoints) \in Nat
    BY LenProperties DEF TrailInv, TrailTyped
  <2>2. CASE k \in 1 .. Len(checkpoints) /\ checkpoints'[k] = checkpoints[k]
    BY <1>3, <1>4, <2>2 DEF TrailInv, Pinned
  <2>3. CASE checkpoints'[k] = [sequence |-> row.sequence, head |-> row.hash]
    BY <1>3, <1>4, <1>5, <2>3 DEF TrailInv, Whole
  <2>4. \/ k \in 1 .. Len(checkpoints) /\ checkpoints'[k] = checkpoints[k]
        \/ checkpoints'[k] = [sequence |-> row.sequence, head |-> row.hash]
    <3>1. PICK p \in [sequence : Nat, head : Seq(TrailEvents)] :
            p = [sequence |-> row.sequence, head |-> row.hash]
      BY <1>5
    <3>2. checkpoints' = checkpoints \/ checkpoints' = Append(checkpoints, p)
      BY <3>1 DEF row
    <3>3. CASE checkpoints' = Append(checkpoints, p)
      <4>1. /\ Len(checkpoints') = Len(checkpoints) + 1
            /\ \A i \in 1 .. Len(checkpoints) : checkpoints'[i] = checkpoints[i]
            /\ checkpoints'[Len(checkpoints) + 1] = p
        BY <2>1, <3>1, <3>3, AppendProperties
      <4>2. k \in 1 .. Len(checkpoints) \/ k = Len(checkpoints) + 1
        BY <2>1, <4>1
      <4> QED
        BY <3>1, <4>1, <4>2
    <3> QED
      BY <3>2, <3>3
  <2> QED
    BY <2>2, <2>3, <2>4
<1>17. WalkSound' /\ ChecksSound' /\ VerdictsSound'
  BY ReadersKept
<1> QED
  BY <1>4, <1>8, <1>9, <1>10, <1>12, <1>13, <1>14, <1>15, <1>16, <1>17 DEF TrailInv

LEMMA ReadMoves ==
  ASSUME TrailInv,
         UNCHANGED <<chain, checkpoints, mutated, auditCalls, begun, trailLock, losses, damaged>>,
         check' \in {TrailIdle} \union Checks \union Verdicts,
         walk' \in {TrailIdle} \union Walks,
         WalkSound', ChecksSound', VerdictsSound'
  PROVE  TrailInv'
<1>1. TrailTyped' /\ Ordered(chain)'
  BY DEF TrailInv, TrailTyped, Ordered
<1>2. Snapshots'
  BY DEF TrailInv, Snapshots, Stale, LastOf
<1>3. Prepared'
  BY DEF TrailInv, Prepared, Trail!Chained, Trail!Event, Trail!HeadHash
<1>4. Identified' /\ Undecided'
  BY DEF TrailInv, Identified, Undecided, Untold
<1>5. Whole' /\ Once' /\ Pinned'
  BY DEF TrailInv, Whole, Linked, Told, Once, Pinned
<1> QED
  BY <1>1, <1>2, <1>3, <1>4, <1>5 DEF TrailInv

\* A call is refused: its rejection is recorded when it was to change an invitation.
LEMMA Refused ==
  ASSUME TrailInv, NEW c \in Transactions, Trail!Refuse(c),
         auditCalls[c].step \in {"append", "commit"}
  PROVE  \E new \in TrailCalls : /\ Becomes(c, new)
                                 /\ new.step \in {"idle", "reject"}
                                 /\ new # TrailIdle => new.id = auditCalls[c].id
<1>1. PICK new : new = IF auditCalls[c].kind = "change"
                       THEN [step |-> "reject", id |-> auditCalls[c].id,
                             kind |-> auditCalls[c].kind]
                       ELSE TrailIdle
  OBVIOUS
<1>2. Becomes(c, new)
  BY <1>1 DEF Trail!Refuse, Becomes, Trail!Idle, TrailIdle
<1>3. auditCalls[c].id \in Nat /\ auditCalls[c].kind \in Trail!Kinds
  BY TrailKinds, CallFields DEF TrailInv, TrailTyped, TrailCalls
<1>4. CASE new = TrailIdle
  BY <1>2, <1>4 DEF TrailCalls, TrailIdle
<1>5. CASE new = [step |-> "reject", id |-> auditCalls[c].id, kind |-> auditCalls[c].kind]
  <2>1. new \in Rejects /\ new.step = "reject" /\ new.id = auditCalls[c].id
    BY <1>3, <1>5 DEF Rejects
  <2> QED
    BY <1>2, <2>1 DEF TrailCalls
<1> QED
  BY <1>1, <1>4, <1>5

LEMMA RefusedKeeps ==
  ASSUME TrailInv, NEW c \in Transactions, Trail!Refuse(c),
         auditCalls[c].step \in {"append", "commit"},
         UNCHANGED <<chain, checkpoints, mutated, begun, check, walk, losses, damaged>>,
         trailLock' = IF trailLock = c THEN "nobody" ELSE trailLock
  PROVE  TrailInv'
<1>1. PICK new \in TrailCalls : /\ Becomes(c, new)
                                /\ new.step \in {"idle", "reject"}
                                /\ new # TrailIdle => new.id = auditCalls[c].id
  BY Refused
<1>2. /\ begun \in Nat /\ losses \in Nat
      /\ trailLock' \in Transactions \union {"nobody"} /\ trailLock' # c
      /\ \A d \in Transactions : d # c => (trailLock' = d <=> trailLock = d)
  BY TrailAssumption DEF TrailInv, TrailTyped
<1>3. /\ auditCalls[c] # TrailIdle
      /\ auditCalls[c].id \in 1 .. begun
      /\ \A d \in Transactions :
           d # c /\ auditCalls[d] # TrailIdle => auditCalls[d].id # auditCalls[c].id
  BY TrailKinds DEF TrailInv, Identified
<1> QED
  BY <1>1, <1>2, <1>3, CallMoves

LEMMA BeginKeeps ==
  ASSUME TrailInv, NEW c \in Transactions, NEW kind \in Trail!Kinds, Trail!BeginCall(c, kind)
  PROVE  TrailInv'
<1>1. PICK new : new = [step |-> "append", id |-> begun', kind |-> kind, attempt |-> 1,
                        snapshot |-> chain]
  OBVIOUS
<1>2. /\ Becomes(c, new) /\ begun' = begun + 1 /\ auditCalls[c] = TrailIdle
      /\ UNCHANGED <<chain, checkpoints, mutated, trailLock, check, walk, losses, damaged>>
  BY <1>1 DEF Trail!BeginCall, Becomes, TrailIdle, Trail!Idle
<1>3. /\ begun \in Nat /\ losses \in Nat /\ chain \in Seq(TrailRows)
      /\ trailLock \in Transactions \union {"nobody"} /\ trailLock # c
  BY <1>2, TrailKinds DEF TrailInv, TrailTyped
<1>4. new \in TrailCalls /\ new.step = "append" /\ new.id = begun + 1 /\ new.snapshot = chain
  BY <1>1, <1>2, <1>3 DEF TrailCalls, Appends
<1>5. /\ \A d \in Transactions : auditCalls[d] # TrailIdle => auditCalls[d].id \in 1 .. begun
      /\ Untold(begun + 1)
  BY <1>3 DEF TrailInv, Identified, Untold
<1>6. Stale(new.snapshot, chain)
  BY <1>3, <1>4, StaleStart
<1> QED
  BY <1>2, <1>3, <1>4, <1>5, <1>6, CallMoves

\* A sequence is free only behind the chain: the trigger that gets one has seen all of it.
LEMMA FreeIsFresh ==
  ASSUME NEW saw \in Seq(TrailRows), chain \in Seq(TrailRows), Stale(saw, chain),
         NEW e \in TrailEvents, Trail!SequenceIsFree(Trail!Chained(saw, e))
  PROVE  saw = chain
<1>1. Len(chain) \in Nat /\ DOMAIN chain = 1 .. Len(chain) /\ Len(saw) \in Nat
  BY LenProperties
<1>2. \A i \in 1 .. Len(chain) : chain[i].sequence # LastOf(saw) + 1
  BY <1>1, ChainedRow DEF Trail!SequenceIsFree
<1>3. Len(saw) = Len(chain)
  <2>1. Len(saw) < Len(chain) => Len(saw) + 1 \in 1 .. Len(chain)
    BY <1>1
  <2>2. Len(saw) <= Len(chain)
    BY DEF Stale
  <2>3. Len(saw) < Len(chain) => chain[Len(saw) + 1].sequence = LastOf(saw) + 1
    BY DEF Stale
  <2> QED
    BY <1>1, <1>2, <2>1, <2>2, <2>3
<1> QED
  BY <1>1, <1>3 DEF Stale

LEMMA AppendKeeps ==
  ASSUME TrailInv, NEW c \in Transactions, Trail!AppendEvent(c)
  PROVE  TrailInv'
<1> DEFINE e == Trail!Event(auditCalls[c].id, auditCalls[c].kind, "succeeded")
           row == Trail!Chained(auditCalls[c].snapshot, e)
<1>1. /\ auditCalls[c].step = "append" /\ trailLock = "nobody"
      /\ UNCHANGED <<chain, checkpoints, mutated, begun, check, walk, losses, damaged>>
      /\ IF Trail!SequenceIsFree(row)
         THEN /\ trailLock' = c
              /\ auditCalls' = [auditCalls EXCEPT ![c] =
                   [step |-> "commit", id |-> auditCalls[c].id, kind |-> auditCalls[c].kind,
                    attempt |-> auditCalls[c].attempt, row |-> row]]
         ELSE (Trail!Retry(c) \/ Trail!Refuse(c)) /\ UNCHANGED trailLock
  BY DEF Trail!AppendEvent, Trail!Nobody
<1>2. /\ auditCalls[c] # TrailIdle /\ auditCalls[c].id \in Nat
      /\ auditCalls[c].kind \in Trail!Kinds /\ auditCalls[c].attempt \in Nat
      /\ auditCalls[c].snapshot \in Seq(TrailRows)
  BY <1>1, TrailKinds, CallFields DEF TrailInv, TrailTyped, TrailCalls
<1>3. /\ auditCalls[c].id \in 1 .. begun /\ Untold(auditCalls[c].id)
      /\ \A d \in Transactions :
           d # c /\ auditCalls[d] # TrailIdle => auditCalls[d].id # auditCalls[c].id
      /\ Stale(auditCalls[c].snapshot, chain)
  BY <1>1, <1>2 DEF TrailInv, Identified, Undecided, Snapshots
<1>4. chain \in Seq(TrailRows) /\ begun \in Nat /\ losses \in Nat
  BY DEF TrailInv, TrailTyped
<1>5. e \in TrailEvents
  BY <1>2 DEF Trail!Event, TrailEvents, Trail!Events
<1> HIDE DEF e, row
<1>6. CASE Trail!SequenceIsFree(row)
  <2>1. auditCalls[c].snapshot = chain
    BY <1>2, <1>3, <1>4, <1>5, <1>6, FreeIsFresh DEF row
  <2>2. row = Trail!Chained(chain, e) /\ row \in TrailRows
    BY <1>4, <1>5, <2>1, ChainedRow DEF row
  <2>3. PICK new : new = [step |-> "commit", id |-> auditCalls[c].id,
                          kind |-> auditCalls[c].kind, attempt |-> auditCalls[c].attempt,
                          row |-> row]
    OBVIOUS
  <2>4. Becomes(c, new) /\ trailLock' = c
    BY <1>1, <1>6, <2>3 DEF Becomes
  <2>5. /\ new \in TrailCalls /\ new.step = "commit" /\ new.id = auditCalls[c].id
        /\ new.row = Trail!Chained(chain, Trail!Event(new.id, new.kind, "succeeded"))
    BY <1>2, <2>2, <2>3 DEF TrailCalls, Commits, e
  <2>6. \A d \in Transactions : d # c => (trailLock' = d <=> trailLock = d)
    BY <1>1, <2>4, TrailAssumption
  <2> QED
    BY <1>1, <1>3, <1>4, <2>4, <2>5, <2>6, CallMoves
<1>7. CASE ~Trail!SequenceIsFree(row) /\ Trail!Retry(c)
  <2>1. PICK new : new = [step |-> "append", id |-> auditCalls[c].id,
                          kind |-> auditCalls[c].kind, attempt |-> auditCalls[c].attempt + 1,
                          snapshot |-> chain]
    OBVIOUS
  <2>2. Becomes(c, new) /\ trailLock' = trailLock
    BY <1>1, <1>7, <2>1 DEF Becomes, Trail!Retry
  <2>3. new \in TrailCalls /\ new.step = "append" /\ new.id = auditCalls[c].id
        /\ new.snapshot = chain
    BY <1>2, <1>4, <2>1 DEF TrailCalls, Appends
  <2>4. Stale(new.snapshot, chain)
    BY <1>4, <2>3, StaleStart
  <2>5. trailLock \in Transactions \union {"nobody"} /\ trailLock # c
    BY <1>1, TrailAssumption
  <2> QED
    BY <1>1, <1>3, <1>4, <2>2, <2>3, <2>4, <2>5, CallMoves
<1>8. CASE ~Trail!SequenceIsFree(row) /\ Trail!Refuse(c)
  <2>1. trailLock' = IF trailLock = c THEN "nobody" ELSE trailLock
    BY <1>1, <1>8, TrailAssumption
  <2> QED
    BY <1>1, <1>8, <2>1, RefusedKeeps
<1> QED
  BY <1>1, <1>6, <1>7, <1>8

LEMMA AbortKeeps ==
  ASSUME TrailInv, NEW c \in Transactions, Trail!AbortCall(c)
  PROVE  TrailInv'
  BY RefusedKeeps DEF Trail!AbortCall, Trail!Releases, Trail!Nobody

LEMMA CommittedKeeps ==
  ASSUME TrailInv, NEW c \in Transactions, Trail!Committed(c), losses' \in Nat,
         NEW new \in TrailCalls, Becomes(c, new), new.step \in {"idle", "reject"},
         new # TrailIdle => new.id = auditCalls[c].id
  PROVE  TrailInv'
<1>1. /\ auditCalls[c].step = "commit" /\ chain' = Append(chain, auditCalls[c].row)
      /\ checkpoints' = Trail!Checkpointed(c)
      /\ mutated' = IF auditCalls[c].kind = "change" THEN mutated \union {auditCalls[c].id}
                    ELSE mutated
      /\ trailLock' = "nobody" /\ UNCHANGED <<begun, check, walk, damaged>>
  BY DEF Trail!Committed, Trail!Nobody
<1>2. auditCalls[c].id \in Nat /\ auditCalls[c].kind \in Trail!Kinds /\ auditCalls[c] # TrailIdle
  BY <1>1, TrailKinds, CallFields DEF TrailInv, TrailTyped, TrailCalls
<1>3. PICK e : e = Trail!Event(auditCalls[c].id, auditCalls[c].kind, "succeeded")
  OBVIOUS
<1>8. /\ e \in TrailEvents /\ e.id = auditCalls[c].id /\ e.kind = auditCalls[c].kind
      /\ e.outcome = "succeeded"
  BY <1>2, <1>3 DEF TrailEvents, Trail!Events, Trail!Event
<1>4. auditCalls[c].row = Trail!Chained(chain, e)
  BY <1>1, <1>3 DEF TrailInv, Prepared
<1>5. checkpoints' \in {checkpoints,
        Append(checkpoints, [sequence |-> Trail!Chained(chain, e).sequence,
                             head |-> Trail!Chained(chain, e).hash])}
  BY <1>1, <1>4 DEF Trail!Checkpointed
<1>6. trailLock \in {c, "nobody"}
  BY <1>1 DEF TrailInv, TrailTyped
<1>7. chain' = Append(chain, Trail!Chained(chain, e))
  BY <1>1, <1>4
<1> QED
  BY <1>1, <1>2, <1>5, <1>6, <1>7, <1>8, ChainMoves

LEMMA CommitKeeps ==
  ASSUME TrailInv, NEW c \in Transactions, Trail!Commit(c) \/ Trail!CommitUnanswered(c)
  PROVE  TrailInv'
<1>1. Trail!Committed(c) /\ losses' \in Nat
  BY DEF Trail!Commit, Trail!CommitUnanswered, TrailInv, TrailTyped
<1>2. CASE Trail!Commit(c)
  <2>1. Becomes(c, TrailIdle) /\ TrailIdle \in TrailCalls /\ TrailIdle.step = "idle"
    BY <1>2 DEF Trail!Commit, Becomes, Trail!Idle, TrailIdle, TrailCalls
  <2> QED
    BY <1>1, <2>1, CommittedKeeps
<1>3. CASE Trail!CommitUnanswered(c)
  <2>1. Trail!Refuse(c) /\ auditCalls[c].step = "commit"
    BY <1>3 DEF Trail!CommitUnanswered, Trail!Committed
  <2> QED
    BY <1>1, <2>1, Refused, CommittedKeeps
<1> QED
  BY <1>2, <1>3

LEMMA RejectedKeeps ==
  ASSUME TrailInv, NEW c \in Transactions, Trail!RejectedAudit(c)
  PROVE  TrailInv'
<1>1. /\ auditCalls[c].step = "reject" /\ trailLock = "nobody"
      /\ UNCHANGED <<checkpoints, mutated, begun, trailLock, check, walk, losses, damaged>>
      /\ chain' \in {chain, Append(chain,
           Trail!Chained(chain, Trail!Event(auditCalls[c].id, "change", "rejected")))}
  BY DEF Trail!RejectedAudit, Trail!Nobody
<1>2. Becomes(c, TrailIdle) /\ TrailIdle \in TrailCalls /\ TrailIdle.step = "idle"
  BY DEF Trail!RejectedAudit, Becomes, Trail!Idle, TrailIdle, TrailCalls
<1>3. /\ auditCalls[c] # TrailIdle /\ auditCalls[c].id \in Nat
      /\ begun \in Nat /\ losses \in Nat /\ trailLock # c
  BY <1>1, TrailKinds, CallFields, TrailAssumption DEF TrailInv, TrailTyped, TrailCalls
<1>4. CASE chain' = chain
  BY <1>1, <1>2, <1>3, <1>4, CallMoves
<1>5. CASE chain' = Append(chain,
             Trail!Chained(chain, Trail!Event(auditCalls[c].id, "change", "rejected")))
  <2>1. PICK e : e = Trail!Event(auditCalls[c].id, "change", "rejected")
    OBVIOUS
  <2>2. e \in TrailEvents /\ e.id = auditCalls[c].id /\ e.outcome = "rejected"
    BY <1>3, <2>1 DEF TrailEvents, Trail!Events, Trail!Event, Trail!Kinds
  <2> QED
    BY <1>1, <1>2, <1>3, <1>5, <2>1, <2>2, ChainMoves
<1> QED
  BY <1>1, <1>4, <1>5

\* What a restore leaves is in the order of the sequences, with events of the same calls.
Left(new) ==
  /\ new \in Seq(TrailRows) /\ Ordered(new)
  /\ \A j \in 1 .. Len(new) : \E k \in 1 .. Len(chain) : new[j].event.id = chain[k].event.id

\* Rows that stand, in this order, for rows of the chain.
LEMMA Selection ==
  ASSUME chain \in Seq(TrailRows), Ordered(chain), NEW new \in Seq(TrailRows),
         NEW of \in [1 .. Len(new) -> 1 .. Len(chain)],
         \A j, k \in 1 .. Len(new) : j < k => of[j] < of[k],
         \A j \in 1 .. Len(new) : /\ new[j].sequence = chain[of[j]].sequence
                                  /\ new[j].event.id = chain[of[j]].event.id
  PROVE  Left(new)
<1>1. \A i \in 1 .. Len(new) : new[i].sequence >= 1
  BY DEF Ordered
<1>2. \A j, k \in 1 .. Len(new) : j < k => new[j].sequence < new[k].sequence
  BY DEF Ordered
<1> QED
  BY <1>1, <1>2 DEF Left, Ordered

\* One row is missing.
Cut(i) == SubSeq(chain, 1, i - 1) \o SubSeq(chain, i + 1, Len(chain))
LEMMA CutChain ==
  ASSUME chain \in Seq(TrailRows), Ordered(chain), NEW i \in 1 .. Len(chain),
         NEW new, new = Cut(i)
  PROVE  Left(new)
<1>0. Len(chain) \in Nat /\ \A k \in 1 .. Len(chain) : chain[k] \in TrailRows
  BY RowFields
<1>1. PICK head, tail :
        head = SubSeq(chain, 1, i - 1) /\ tail = SubSeq(chain, i + 1, Len(chain))
  OBVIOUS
<1>2. /\ head \in Seq(TrailRows) /\ Len(head) = i - 1
      /\ \A k \in 1 .. i - 1 : head[k] = chain[k]
  BY <1>0, <1>1
<1>3. /\ tail \in Seq(TrailRows) /\ Len(tail) = Len(chain) - i
      /\ \A k \in 1 .. Len(chain) - i : tail[k] = chain[i + k]
  <2>1. \A k \in i + 1 .. Len(chain) : chain[k] \in TrailRows
    BY <1>0
  <2>2. /\ SubSeq(chain, i + 1, Len(chain)) \in Seq(TrailRows)
        /\ Len(SubSeq(chain, i + 1, Len(chain)))
             = IF i + 1 <= Len(chain) THEN Len(chain) - (i + 1) + 1 ELSE 0
        /\ \A k \in 1 .. Len(chain) - (i + 1) + 1 :
             SubSeq(chain, i + 1, Len(chain))[k] = chain[i + 1 + k - 1]
    BY <1>0, <2>1, SubSeqProperties
  <2> QED
    BY <1>0, <1>1, <2>2
<1>4. /\ new \in Seq(TrailRows) /\ Len(new) = Len(head) + Len(tail)
      /\ \A k \in 1 .. Len(head) + Len(tail) :
           new[k] = IF k <= Len(head) THEN head[k] ELSE tail[k - Len(head)]
  <2>1. new = head \o tail
    BY <1>1 DEF Cut
  <2>2. /\ head \o tail \in Seq(TrailRows) /\ Len(head \o tail) = Len(head) + Len(tail)
        /\ \A k \in 1 .. Len(head) + Len(tail) :
             (head \o tail)[k] = IF k <= Len(head) THEN head[k] ELSE tail[k - Len(head)]
    BY <1>2, <1>3, ConcatProperties
  <2> QED
    BY <2>1, <2>2, Zenon
<1>5. /\ new \in Seq(TrailRows) /\ Len(new) = Len(chain) - 1
      /\ \A k \in 1 .. Len(new) : new[k] = IF k < i THEN chain[k] ELSE chain[k + 1]
  <2>2. Len(new) = Len(chain) - 1 /\ Len(chain) \in Nat
    BY <1>0, <1>2, <1>3, <1>4
  <2>3. ASSUME NEW k \in 1 .. Len(new)
        PROVE  new[k] = IF k < i THEN chain[k] ELSE chain[k + 1]
    <3>1. k \in 1 .. Len(head) + Len(tail)
      BY <1>2, <1>3, <2>2
    <3>2. new[k] = IF k <= Len(head) THEN head[k] ELSE tail[k - Len(head)]
      BY <1>4, <3>1
    <3>3. CASE k < i
      BY <1>2, <2>2, <3>2, <3>3
    <3>4. CASE k >= i
      <4>1. k - (i - 1) \in 1 .. Len(chain) - i /\ i + (k - (i - 1)) = k + 1
        BY <2>2, <3>4
      <4>2. tail[k - (i - 1)] = chain[k + 1]
        BY <1>3, <4>1
      <4> QED
        BY <1>2, <2>2, <3>2, <3>4, <4>2
    <3> QED
      BY <2>2, <3>3, <3>4
  <2> QED
    BY <1>4, <2>2, <2>3
<1>6. PICK of : of = [k \in 1 .. Len(new) |-> IF k < i THEN k ELSE k + 1]
  OBVIOUS
<1>7. of \in [1 .. Len(new) -> 1 .. Len(chain)]
  BY <1>0, <1>5, <1>6
<1>8. \A j, k \in 1 .. Len(new) : j < k => of[j] < of[k]
  BY <1>0, <1>5, <1>6
<1> QED
  BY <1>5, <1>6, <1>7, <1>8, Selection

LEMMA SequenceOf ==
  ASSUME NEW S, NEW f, NEW n \in Nat, \A k \in 1 .. n : f[k] \in S
  PROVE  [k \in 1 .. n |-> f[k]] \in Seq(S)
  OBVIOUS

LEMMA DamagedChain ==
  ASSUME chain \in Seq(TrailRows), Ordered(chain), NEW i \in 1 .. Len(chain),
         NEW new \in {SubSeq(chain, 1, i - 1),
                      SubSeq(chain, 1, i - 1) \o SubSeq(chain, i + 1, Len(chain)),
                      [chain EXCEPT ![i].event = Trail!Altered(i)],
                      Trail!Rechained(chain, i, Trail!Altered(i))}
  PROVE  Left(new)
<1>1. /\ Len(chain) \in Nat /\ DOMAIN chain = 1 .. Len(chain)
      /\ \A k \in 1 .. Len(chain) :
           /\ chain[k] \in TrailRows /\ chain[k].sequence \in Nat
           /\ chain[k].event \in TrailEvents /\ chain[k].event.id \in Nat
           /\ chain[k].hash \in Seq(TrailEvents)
  BY RowFields
<1>2. \A k \in 1 .. Len(chain) :
        /\ Trail!Altered(k) \in TrailEvents /\ Trail!Altered(k).id = chain[k].event.id
  <2>1. \A e \in TrailEvents : e.kind \in Trail!Kinds
    BY DEF TrailEvents, Trail!Events
  <2> QED
    BY <1>1, <2>1 DEF Trail!Altered, Trail!Event, TrailEvents, Trail!Events
<1>3. CASE new = SubSeq(chain, 1, i - 1)
  <2>1. /\ new \in Seq(TrailRows) /\ Len(new) = i - 1
        /\ \A k \in 1 .. i - 1 : new[k] = chain[k]
    BY <1>1, <1>3
  <2>2. PICK of : of = [k \in 1 .. Len(new) |-> k]
    OBVIOUS
  <2>3. of \in [1 .. Len(new) -> 1 .. Len(chain)]
    BY <1>1, <2>1, <2>2
  <2> QED
    BY <2>1, <2>2, <2>3, Selection
<1>4. CASE new = SubSeq(chain, 1, i - 1) \o SubSeq(chain, i + 1, Len(chain))
  BY <1>4, CutChain DEF Cut
<1>5. CASE new = [chain EXCEPT ![i].event = Trail!Altered(i)]
  <2>1. PICK e \in TrailEvents : e = Trail!Altered(i) /\ e.id = chain[i].event.id
    BY <1>2
  <2>2. PICK row : row = [chain[i] EXCEPT !.event = e]
    OBVIOUS
  <2>3. row \in TrailRows /\ row.event = e /\ row.sequence = chain[i].sequence
    BY <1>1, <2>2 DEF TrailRows, Trail!Rows, TrailEvents
  <2>4. new = [chain EXCEPT ![i] = row]
    BY <1>5, <2>1, <2>2, Zenon
  <2>5. /\ new \in Seq(TrailRows) /\ Len(new) = Len(chain) /\ new[i] = row
        /\ \A k \in 1 .. Len(chain) : k # i => new[k] = chain[k]
    BY <1>1, <2>3, <2>4, ExceptSeq
  <2>6. PICK of : of = [k \in 1 .. Len(new) |-> k]
    OBVIOUS
  <2>7. of \in [1 .. Len(new) -> 1 .. Len(chain)]
    BY <1>1, <2>5, <2>6
  <2>8. \A k \in 1 .. Len(new) : /\ new[k].sequence = chain[k].sequence
                                 /\ new[k].event.id = chain[k].event.id
    BY <2>1, <2>3, <2>5
  <2> QED
    BY <2>5, <2>6, <2>7, <2>8, Selection
<1>6. CASE new = Trail!Rechained(chain, i, Trail!Altered(i))
  <2>1. PICK e \in TrailEvents : e = Trail!Altered(i) /\ e.id = chain[i].event.id
    BY <1>2
  <2> DEFINE eventOf(k) == IF k = i THEN e ELSE chain[k].event
             Again(k) == [event |-> eventOf(k), sequence |-> chain[k].sequence,
                          previous |-> [n \in 1 .. k - 1 |-> eventOf(n)],
                          hash |-> [n \in 1 .. k |-> eventOf(n)]]
  <2>2. new = [k \in 1 .. Len(chain) |-> IF k < i THEN chain[k] ELSE Again(k)]
    BY <1>1, <1>6, <2>1 DEF Trail!Rechained
  <2>3. \A k \in 1 .. Len(chain) : eventOf(k) \in TrailEvents /\ eventOf(k).id = chain[k].event.id
    BY <1>1, <2>1
  <2> HIDE DEF eventOf
  <2>4. ASSUME NEW k \in 1 .. Len(chain)
        PROVE  Again(k) \in TrailRows /\ Again(k).event = eventOf(k)
               /\ Again(k).sequence = chain[k].sequence
    <3>1. PICK previous : previous = [n \in 1 .. k - 1 |-> eventOf(n)]
      OBVIOUS
    <3>2. PICK hash : hash = [n \in 1 .. k |-> eventOf(n)]
      OBVIOUS
    <3>3. previous \in Seq(TrailEvents) /\ hash \in Seq(TrailEvents)
      <4>1. PICK f : f = [n \in 1 .. Len(chain) |-> eventOf(n)]
        OBVIOUS
      <4>2. k \in Nat /\ \A n \in 1 .. k : f[n] = eventOf(n) /\ f[n] \in TrailEvents
        BY <1>1, <2>3, <4>1
      <4>3. previous = [n \in 1 .. k - 1 |-> f[n]] /\ hash = [n \in 1 .. k |-> f[n]]
        BY <3>1, <3>2, <4>2
      <4>4. /\ [n \in 1 .. k |-> f[n]] \in Seq(TrailEvents)
            /\ [n \in 1 .. k - 1 |-> f[n]] \in Seq(TrailEvents)
        <5>1. k - 1 \in Nat /\ \A n \in 1 .. k - 1 : f[n] \in TrailEvents
          BY <4>2
        <5> QED
          BY <4>2, <5>1, SequenceOf
      <4> QED
        BY <4>3, <4>4
    <3>4. Again(k) = [event |-> eventOf(k), sequence |-> chain[k].sequence,
                      previous |-> previous, hash |-> hash]
      BY <3>1, <3>2
    <3> HIDE DEF Again
    <3> QED
      BY <1>1, <2>3, <3>3, <3>4 DEF TrailRows, Trail!Rows, TrailEvents
  <2> HIDE DEF Again
  <2>5. /\ new \in Seq(TrailRows) /\ Len(new) = Len(chain)
        /\ \A k \in 1 .. Len(chain) : /\ new[k].sequence = chain[k].sequence
                                      /\ new[k].event.id = chain[k].event.id
    BY <1>1, <2>2, <2>3, <2>4
  <2>6. PICK of : of = [k \in 1 .. Len(new) |-> k]
    OBVIOUS
  <2>7. of \in [1 .. Len(new) -> 1 .. Len(chain)]
    BY <1>1, <2>5, <2>6
  <2> QED
    BY <2>5, <2>6, <2>7, Selection
<1> QED
  BY <1>3, <1>4, <1>5, <1>6

LEMMA DamageKeeps ==
  ASSUME TrailInv, Trail!Damage
  PROVE  TrailInv'
<1>1. /\ losses > 0 /\ losses' = losses - 1 /\ ~damaged /\ damaged' = TRUE
      /\ \A c \in Transactions : auditCalls[c] = TrailIdle
      /\ UNCHANGED <<checkpoints, mutated, auditCalls, begun, trailLock, check, walk>>
  BY DEF Trail!Damage, Trail!Idle, TrailIdle
<1>2. chain \in Seq(TrailRows) /\ Ordered(chain) /\ DOMAIN chain = 1 .. Len(chain)
  BY LenProperties DEF TrailInv, TrailTyped
<1>3. PICK new : new = chain'
  OBVIOUS
<1>4. Left(new)
  <2>1. PICK i \in 1 .. Len(chain) :
          new \in {SubSeq(chain, 1, i - 1),
                   SubSeq(chain, 1, i - 1) \o SubSeq(chain, i + 1, Len(chain)),
                   [chain EXCEPT ![i].event = Trail!Altered(i)],
                   Trail!Rechained(chain, i, Trail!Altered(i))}
    BY <1>2, <1>3, Zenon DEF Trail!Damage
  <2> QED
    BY <1>2, <2>1, DamagedChain
<1>5. TrailTyped' /\ Ordered(chain)'
  BY <1>1, <1>3, <1>4 DEF TrailInv, TrailTyped, Left, Ordered
<1>6. Snapshots' /\ Prepared' /\ Undecided'
  BY <1>1, TrailKinds DEF Snapshots, Prepared, Undecided
<1>7. Identified'
  <2>1. \A j \in 1 .. Len(chain') : chain'[j].event.id \in 1 .. begun
    BY <1>3, <1>4 DEF Left, TrailInv, Identified
  <2> QED
    BY <1>1, <2>1 DEF TrailInv, Identified
<1>8. Whole' /\ Once' /\ Pinned' /\ WalkSound'
  BY <1>1 DEF Whole, Once, Pinned, WalkSound
<1>9. ChecksSound'
  <2>1. check \in Checks => check.intact
    BY <1>1 DEF TrailInv, ChecksSound
  <2> QED
    BY <1>1, <2>1 DEF ChecksSound, Claims
<1>10. VerdictsSound'
  <2>1. check \in Verdicts => check.intact
    BY <1>1 DEF TrailInv, VerdictsSound
  <2> QED
    BY <1>1, <2>1 DEF VerdictsSound
<1> QED
  BY <1>5, <1>6, <1>7, <1>8, <1>9, <1>10 DEF TrailInv

LEMMA TrailStarts == ASSUME Trail!Init PROVE TrailInv
<1>1. /\ chain = <<>> /\ checkpoints = <<>> /\ mutated = {} /\ begun = 0
      /\ auditCalls = [c \in Transactions |-> TrailIdle]
      /\ trailLock = "nobody" /\ check = TrailIdle /\ walk = TrailIdle
      /\ losses = MaxLosses /\ damaged = FALSE
  BY DEF Trail!Init, Trail!Idle, TrailIdle, Trail!Nobody
<1>2. Len(chain) = 0 /\ Len(checkpoints) = 0
  BY <1>1
<1>3. TrailTyped
  <2>1. auditCalls \in [Transactions -> TrailCalls]
    BY <1>1 DEF TrailCalls
  <2>2. \A c \in Transactions : trailLock = c <=> auditCalls[c].step = "commit"
    BY <1>1, TrailAssumption, TrailKinds
  <2>3. chain \in Seq(TrailRows) /\ checkpoints \in Seq([sequence : Nat, head : Seq(TrailEvents)])
    BY <1>1
  <2> QED
    BY <1>1, <2>1, <2>2, <2>3, TrailAssumption DEF TrailTyped
<1>4. check \notin Checks /\ check \notin Verdicts
  BY <1>1, TrailKinds
<1> QED
  BY <1>1, <1>2, <1>3, <1>4, TrailKinds
  DEF TrailInv, Ordered, Snapshots, Prepared, Identified, Undecided, Whole, Linked, Once,
      Pinned, WalkSound, ChecksSound, VerdictsSound

LEMMA TrailStep == ASSUME TrailInv, Trail!Next PROVE TrailInv'
<1>1. CASE \E c \in Transactions, kind \in Trail!Kinds : Trail!BeginCall(c, kind)
  BY <1>1, BeginKeeps
<1>2. CASE \E c \in Transactions :
             \/ Trail!AppendEvent(c) \/ Trail!AbortCall(c) \/ Trail!Commit(c)
             \/ Trail!CommitUnanswered(c) \/ Trail!RejectedAudit(c)
  BY <1>2, AppendKeeps, AbortKeeps, CommitKeeps, RejectedKeeps
<1>3. TrailTyped /\ WalkSound /\ ChecksSound /\ VerdictsSound
  BY DEF TrailInv
<1>4. UNCHANGED <<walk, chain, damaged>> => WalkSound'
  BY <1>3 DEF WalkSound
<1>5. UNCHANGED <<check, chain, damaged>> => ChecksSound' /\ VerdictsSound'
  BY <1>3 DEF ChecksSound, VerdictsSound, Claims, Linked, Told
<1>6. CASE Trail!StartVerify \/ Trail!VerifyPage
  <2>1. check' \in Checks /\ ChecksSound'
    BY <1>6, StartVerifyStep, VerifyPageStep
  <2>2. VerdictsSound'
    BY <2>1, TrailKinds DEF VerdictsSound
  <2>3. UNCHANGED <<chain, checkpoints, mutated, auditCalls, begun, trailLock, walk, losses,
                    damaged>>
    BY <1>6 DEF Trail!StartVerify, Trail!VerifyPage
  <2> QED
    BY <1>3, <1>4, <2>1, <2>2, <2>3, ReadMoves DEF TrailTyped
<1>7. CASE Trail!VerifyCheckpoint
  <2>1. check' \in Verdicts /\ VerdictsSound'
    BY <1>7, VerdictStep
  <2>2. ChecksSound'
    BY <2>1, TrailKinds DEF ChecksSound
  <2>3. UNCHANGED <<chain, checkpoints, mutated, auditCalls, begun, trailLock, walk, losses,
                    damaged>>
    BY <1>7 DEF Trail!VerifyCheckpoint
  <2> QED
    BY <1>3, <1>4, <2>1, <2>2, <2>3, ReadMoves DEF TrailTyped
<1>8. CASE Trail!StartWalk \/ Trail!ListAuditEvents
  <2>1. walk' \in Walks /\ WalkSound'
    BY <1>8, StartWalkStep, ListStep
  <2>2. UNCHANGED <<chain, checkpoints, mutated, auditCalls, begun, trailLock, check, losses,
                    damaged>>
    BY <1>8 DEF Trail!StartWalk, Trail!ListAuditEvents
  <2> QED
    BY <1>3, <1>5, <2>1, <2>2, ReadMoves DEF TrailTyped
<1>9. CASE Trail!Damage
  BY <1>9, DamageKeeps
<1> QED
  BY <1>1, <1>2, <1>6, <1>7, <1>8, <1>9 DEF Trail!Next

--------------------------------------------------------------------------------
(* What follows *)

LEMMA TrailTypeOK == ASSUME TrailInv PROVE Trail!TypeOK
<1>1. /\ chain \in Seq(Trail!Rows) /\ trailLock \in Transactions \union {Trail!Nobody}
      /\ checkpoints \in Seq([sequence : Nat, head : Seq(Trail!Events)])
      /\ \A c \in Transactions : trailLock = c <=> auditCalls[c].step = "commit"
  BY DEF TrailInv, TrailTyped, Trail!Nobody, TrailRows, TrailEvents
<1>2. \A c \in Transactions : auditCalls[c].step \in {"idle", "append", "commit", "reject"}
  BY TrailKinds DEF TrailInv, TrailTyped, TrailCalls
<1>3. check.step \in {"idle", "pages", "checkpoint", "done"}
  BY TrailKinds DEF TrailInv, TrailTyped
<1>4. walk.step \in {"idle", "pages", "done"}
  BY TrailKinds DEF TrailInv, TrailTyped
<1> QED
  BY <1>1, <1>2, <1>3, <1>4 DEF Trail!TypeOK

\* A row that carries on the rows before it is the one a trigger makes of them.
LEMMA LinkedRow ==
  ASSUME NEW rows \in Seq(TrailRows), Linked(rows, Len(rows)), NEW i \in 1 .. Len(rows)
  PROVE  rows[i] = Trail!Chained(SubSeq(rows, 1, i - 1), rows[i].event)
<1>1. PICK before : before = SubSeq(rows, 1, i - 1)
  OBVIOUS
<1>2. /\ Len(rows) \in Nat /\ before \in Seq(TrailRows) /\ Len(before) = i - 1
      /\ \A k \in 1 .. i - 1 : before[k] = rows[k]
  BY <1>1, LenProperties
<1>3. rows[i] \in TrailRows /\ rows[i].event \in TrailEvents
  BY <1>2, RowFields
<1>4. /\ rows[i].sequence = i /\ rows[i].previous = Told(rows, i - 1)
      /\ rows[i].hash = Told(rows, i)
      /\ Append(Told(rows, i - 1), rows[i].event) = Told(rows, i)
  BY ToldGrows DEF Linked
<1>5. LastOf(before) = i - 1 /\ Trail!HeadHash(before) = Told(rows, i - 1)
  <2>1. CASE i = 1
    <3>1. before = <<>>
      BY <1>2, <2>1, EmptySeq
    <3> QED
      BY <2>1, <3>1 DEF LastOf, Trail!HeadHash, Told
  <2>2. CASE i # 1
    <3>1. before # <<>> /\ before[Len(before)] = rows[i - 1] /\ i - 1 \in 1 .. Len(rows)
      BY <1>2, <2>2
    <3> QED
      BY <1>2, <3>1 DEF LastOf, Trail!HeadHash, Linked
  <2> QED
    BY <2>1, <2>2
<1>5a. PICK e \in TrailEvents : e = rows[i].event
  BY <1>3
<1>6. PICK new : new = Trail!Chained(before, e)
  OBVIOUS
<1>7. /\ new \in TrailRows /\ new.event = rows[i].event /\ new.sequence = i
      /\ new.previous = Told(rows, i - 1) /\ new.hash = Told(rows, i)
  <2>1. /\ new \in TrailRows /\ new.event = e /\ new.sequence = LastOf(before) + 1
        /\ new.previous = Trail!HeadHash(before)
        /\ new.hash = Append(Trail!HeadHash(before), e)
    BY <1>2, <1>6, ChainedRow
  <2> QED
    BY <1>4, <1>5, <1>5a, <2>1
<1>8. \A a \in TrailRows : a = [event |-> a.event, sequence |-> a.sequence,
                                previous |-> a.previous, hash |-> a.hash]
  BY DEF TrailRows, Trail!Rows
<1>9. rows[i] = new
  BY <1>3, <1>4, <1>7, <1>8, Zenon
<1> QED
  BY <1>1, <1>5a, <1>6, <1>9

LEMMA TrailChain == ASSUME TrailInv PROVE Trail!OneChain
<1>1. chain \in Seq(TrailRows) /\ DOMAIN chain = 1 .. Len(chain) /\ DOMAIN checkpoints = 1 .. Len(checkpoints)
  BY LenProperties DEF TrailInv, TrailTyped
<1>2. ASSUME ~damaged, NEW i \in DOMAIN chain
      PROVE  chain[i] = Trail!Chained(SubSeq(chain, 1, i - 1), chain[i].event)
  BY <1>1, <1>2, LinkedRow DEF TrailInv, Whole
<1>3. ASSUME ~damaged, NEW k \in DOMAIN checkpoints
      PROVE  chain[checkpoints[k].sequence].hash = checkpoints[k].head
  BY <1>1, <1>3 DEF TrailInv, Pinned
<1> QED
  BY <1>2, <1>3 DEF Trail!OneChain

LEMMA TrailRecords == ASSUME TrailInv PROVE Trail!RecordedOnce
<1>1. DOMAIN chain = 1 .. Len(chain)
  BY LenProperties DEF TrailInv, TrailTyped
<1> QED
  BY <1>1 DEF TrailInv, Once, Trail!RecordedOnce

LEMMA TrailWalks == ASSUME TrailInv PROVE Trail!WalkIsComplete
<1>1. SUFFICES ASSUME walk.step = "done", ~damaged
               PROVE  /\ Len(walk.shown) >= Len(walk.due)
                      /\ walk.shown = SubSeq(chain, 1, Len(walk.shown))
  BY DEF Trail!WalkIsComplete
<1>2. walk \in Walks
  BY <1>1, TrailKinds DEF TrailInv, TrailTyped
<1>3. Len(walk.shown) \in Nat /\ Len(walk.due) \in Nat
  BY <1>2, LenProperties DEF Walks
<1> QED
  BY <1>1, <1>2, <1>3, TrailKinds DEF TrailInv, WalkSound

LEMMA TrailVerdicts == ASSUME TrailInv PROVE Trail!VerdictIsSound
<1>1. SUFFICES ASSUME check.step = "done"
               PROVE  /\ ~damaged => check.verdict
                      /\ check.verdict /\ ~check.intact =>
                           /\ Len(check.covered) <= Len(chain)
                           /\ \A i \in DOMAIN check.covered : chain[i].event = check.covered[i]
  BY DEF Trail!VerdictIsSound
<1>2. check \in Verdicts
  BY <1>1, TrailKinds DEF TrailInv, TrailTyped
<1>3. DOMAIN check.covered = 1 .. Len(check.covered)
  BY <1>2, LenProperties DEF Verdicts
<1> QED
  BY <1>1, <1>2, <1>3 DEF TrailInv, VerdictsSound

LEMMA TrailStutters == ASSUME TrailInv, UNCHANGED trailVars PROVE TrailInv'
<1>1. WalkSound'
  BY DEF trailVars, TrailInv, WalkSound
<1>2. ChecksSound' /\ VerdictsSound'
  BY DEF trailVars, TrailInv, ChecksSound, VerdictsSound, Claims, Linked, Told
<1> QED
  BY <1>1, <1>2, ReadMoves DEF trailVars, TrailInv, TrailTyped

--------------------------------------------------------------------------------
(* The parts as MCServices composes them                                         *)

LEMMA PartSteps ==
  ASSUME MCNext
  PROVE  /\ Presence!Next \/ UNCHANGED presenceVars
         /\ Trail!Next \/ UNCHANGED trailVars
         /\ Vault!Next \/ UNCHANGED credentialVars
         /\ UNCHANGED part
  BY DEF MCNext, Only

LEMMA PresenceInvariant == MCSpec => []PresenceInv
<1>1. MCInit => PresenceInv
  BY PresenceStarts DEF MCInit
<1>2. PresenceInv /\ [MCNext]_MCVars => PresenceInv'
  <2>1. ASSUME PresenceInv, UNCHANGED presenceVars PROVE PresenceInv'
    BY <2>1, PresenceStutters
  <2>2. UNCHANGED MCVars => UNCHANGED presenceVars
    BY DEF MCVars
  <2> QED
    BY <2>1, <2>2, PartSteps, PresenceStep
<1> QED
  BY <1>1, <1>2, PTL DEF MCSpec

\* For any number of owners, viewers and views, any interval and any lifetime: a status is
\* one that its owner announced in time, however heartbeats, views, outages and the two ends
\* of a presence overlap, and announcements keep their distance.
THEOREM PresenceAlwaysKept == MCSpec => []PresenceKept
<1>1. PresenceInv => PresenceKept
  BY DEF PresenceInv, PresenceKept
<1> QED
  BY <1>1, PresenceInvariant, PTL

LEMMA TrailInvariant == MCSpec => []TrailInv
<1>1. MCInit => TrailInv
  BY TrailStarts DEF MCInit
<1>2. TrailInv /\ [MCNext]_MCVars => TrailInv'
  <2>1. ASSUME TrailInv, UNCHANGED trailVars PROVE TrailInv'
    BY <2>1, TrailStutters
  <2>2. UNCHANGED MCVars => UNCHANGED trailVars
    BY DEF MCVars
  <2> QED
    BY <2>1, <2>2, PartSteps, TrailStep
<1> QED
  BY <1>1, <1>2, PTL DEF MCSpec

\* For any number of transactions, attempts and lost answers and any size of a page: the
\* events are one chain with one event for every change, an export misses nothing that was
\* there before it, and a verification neither cries wolf nor passes a chain that is not the
\* one of the checkpoint.
THEOREM AuditAlwaysKept == MCSpec => []AuditKept
<1>1. TrailInv => AuditKept
  BY TrailTypeOK, TrailChain, TrailRecords, TrailWalks, TrailVerdicts DEF AuditKept
<1> QED
  BY <1>1, TrailInvariant, PTL

--------------------------------------------------------------------------------
(* The vault: no two records of one account or operation, and a selection that   *)
(* was asked for                                                                 *)

VaultIdle == [step |-> "idle"]
VaultEmpty == [kind |-> "empty"]
VaultCorrupt == [kind |-> "corrupt"]
Asked == [asked : Vault!Commands, step : {"records", "ready", "point", "clear"}, next : Nat]
VaultEntries == {VaultEmpty, VaultCorrupt} \union Vault!Records

VaultTyped ==
  /\ vault \in [1 .. MaxAccounts -> VaultEntries]
  /\ selection \in 0 .. MaxAccounts + 1
  /\ expired \subseteq Vault!Records
  /\ command \in {VaultIdle} \union Asked

\* Two slots with records differ in account and operation.
Apart ==
  \A s, t \in 1 .. MaxAccounts :
    s # t /\ vault[s] \in Vault!Records /\ vault[t] \in Vault!Records =>
      vault[s].account # vault[t].account /\ vault[s].operation # vault[t].operation

\* A command that is ready has repaired the selection; one that writes the selection
\* was asked to, and names a slot of that account.
Pointed(s) == s \in Vault!Occupied /\ Vault!Asks(vault[s].account)
Selecting ==
  command \in Asked =>
    /\ command.step = "ready" => selection = 0 \/ selection \in Vault!Occupied
    /\ command.step = "point" => command.next = 0 \/ Pointed(command.next)

VaultInv == VaultTyped /\ Apart /\ Selecting

LEMMA VaultKinds ==
  /\ Vault!Empty = VaultEmpty /\ Vault!Corrupt = VaultCorrupt /\ Vault!Idle = VaultIdle
  /\ Vault!Slots = 1 .. MaxAccounts
  /\ VaultIdle \notin Asked /\ VaultIdle.step = "idle"
  /\ VaultEmpty \notin Vault!Records /\ VaultCorrupt \notin Vault!Records
  /\ Vault!None = 0 /\ Vault!Unreadable = MaxAccounts + 1
<1>1. \A r \in Vault!Records : r.kind = "record"
  BY DEF Vault!Records
<1>2. VaultEmpty.kind = "empty" /\ VaultCorrupt.kind = "corrupt"
  BY DEF VaultEmpty, VaultCorrupt
<1>3. VaultEmpty \notin Vault!Records /\ VaultCorrupt \notin Vault!Records
  BY <1>1, <1>2
<1>4. (\A c \in Asked : c.step # "idle") /\ VaultIdle.step = "idle"
  BY DEF Asked, VaultIdle
<1> QED
  BY <1>3, <1>4 DEF Vault!Empty, VaultEmpty, Vault!Corrupt, VaultCorrupt, Vault!Idle, VaultIdle,
     Vault!Slots, Vault!None, Vault!Unreadable

\* The slots with a record.
LEMMA VaultFacts ==
  ASSUME VaultTyped
  PROVE  /\ \A s : s \in Vault!Occupied <=> s \in 1 .. MaxAccounts /\ vault[s] \in Vault!Records
         /\ \A a, s : s \in Vault!SlotsOf(a) <=> s \in Vault!Occupied /\ vault[s].account = a
         /\ \A r, s : s \in Vault!Repeated(r) <=>
                        s \in Vault!Occupied /\ vault[s].operation = r.operation
         /\ \A s \in Vault!Occupied :
              vault[s].account \in Accounts /\ vault[s].operation \in Operations
BY VaultKinds DEF Vault!Occupied, Vault!Holds, Vault!SlotsOf, Vault!Repeated, Vault!Records

LEMMA FirstSlot ==
  ASSUME NEW S \in SUBSET (1 .. MaxAccounts), S # {}
  PROVE  Vault!First(S) \in S
<1>1. S \in SUBSET Nat
  BY VaultAssumption
<1>2. PICK n \in S : \A k \in S : n <= k
  BY <1>1, LeastNumber
<1> QED
  BY <1>2, Zenon DEF Vault!First

LEMMA VaultStarts == Vault!Init => VaultInv
<1> SUFFICES ASSUME Vault!Init PROVE VaultInv
  OBVIOUS
<1>1. vault = [s \in 1 .. MaxAccounts |-> VaultEmpty]
  BY VaultKinds DEF Vault!Init
<1>2. selection = 0 /\ expired = {} /\ command = VaultIdle
  BY VaultKinds DEF Vault!Init
<1>3. VaultTyped
  BY <1>1, <1>2, VaultAssumption DEF VaultTyped, VaultEntries
<1>4. Apart
  BY <1>1, VaultKinds DEF Apart
<1>5. Selecting
  BY <1>2, VaultKinds DEF Selecting
<1> QED
  BY <1>3, <1>4, <1>5 DEF VaultInv

LEMMA VaultStutters ==
  ASSUME VaultInv, UNCHANGED credentialVars
  PROVE  VaultInv'
<1>1. /\ vault' = vault /\ selection' = selection /\ expired' = expired /\ command' = command
  BY DEF credentialVars
<1>2. Vault!Occupied' = Vault!Occupied
  BY <1>1 DEF Vault!Occupied, Vault!Holds
<1>3. \A s : Pointed(s)' = Pointed(s)
  BY <1>1, <1>2 DEF Pointed, Vault!Asks
<1> QED
  BY <1>1, <1>2, <1>3 DEF VaultInv, VaultTyped, Apart, Selecting

--------------------------------------------------------------------------------
\* Of the slots one becomes e, which is not a record that is elsewhere.
Sets(s, e) == vault' = [vault EXCEPT ![s] = e]
Foreigner(s, e) ==
  e \in Vault!Records => \A t \in 1 .. MaxAccounts : t # s /\ vault[t] \in Vault!Records =>
    vault[t].account # e.account /\ vault[t].operation # e.operation

LEMMA OneSlot ==
  ASSUME VaultInv, NEW s \in 1 .. MaxAccounts, NEW e \in VaultEntries, Sets(s, e), Foreigner(s, e)
  PROVE  /\ vault' \in [1 .. MaxAccounts -> VaultEntries] /\ Apart' /\ vault'[s] = e
         /\ \A t \in 1 .. MaxAccounts : t # s => vault'[t] = vault[t]
<1>1. vault' \in [1 .. MaxAccounts -> VaultEntries] /\ vault'[s] = e
        /\ \A t \in 1 .. MaxAccounts : t # s => vault'[t] = vault[t]
  BY DEF VaultInv, VaultTyped, Sets
<1>2. Apart'
  <2> SUFFICES ASSUME NEW x \in 1 .. MaxAccounts, NEW y \in 1 .. MaxAccounts, x # y,
                      vault'[x] \in Vault!Records, vault'[y] \in Vault!Records
               PROVE  vault'[x].account # vault'[y].account
                        /\ vault'[x].operation # vault'[y].operation
    BY DEF Apart
  <2>1. CASE x = s
    BY <1>1, <2>1 DEF Foreigner
  <2>2. CASE y = s
    BY <1>1, <2>2 DEF Foreigner
  <2>3. CASE x # s /\ y # s
    BY <1>1, <2>3 DEF VaultInv, Apart
  <2> QED
    BY <2>1, <2>2, <2>3
<1> QED
  BY <1>1, <1>2

\* What a step does to the selected account.
SelectionSound == Vault!Selected' \in {Vault!Selected, "none"} \/ Vault!Asks(Vault!Selected')

LEMMA SoundBecause ==
  ASSUME VaultInv, vault' \in [1 .. MaxAccounts -> VaultEntries],
         \/ selection' = selection /\ selection \notin Vault!Occupied'
         \/ selection' = selection /\ selection \in Vault!Occupied /\ vault'[selection] = vault[selection]
         \/ selection' = selection /\ selection \in Vault!Occupied /\ vault'[selection] \in Vault!Records
              /\ vault'[selection].account = vault[selection].account
         \/ selection' \notin 1 .. MaxAccounts
         \/ vault' = vault /\ Pointed(selection')
  PROVE  SelectionSound
<1>1. \A s : s \in Vault!Occupied <=> s \in 1 .. MaxAccounts /\ vault[s] \in Vault!Records
  BY VaultFacts DEF VaultInv
<1>2. \A s : s \in Vault!Occupied' <=> s \in 1 .. MaxAccounts /\ vault'[s] \in Vault!Records
  BY VaultKinds DEF Vault!Occupied, Vault!Holds
<1> QED
  BY <1>1, <1>2 DEF SelectionSound, Vault!Selected, Pointed

LEMMA SameSelection ==
  ASSUME VaultInv, vault' = vault, selection' = selection
  PROVE  SelectionSound
<1>1. Vault!Occupied' = Vault!Occupied
  BY DEF Vault!Occupied, Vault!Holds
<1> QED
  BY <1>1 DEF SelectionSound, Vault!Selected

\* A slot that is emptied selects nobody.
LEMMA Emptied ==
  ASSUME VaultInv, selection' = selection, NEW s \in 1 .. MaxAccounts, NEW e,
         e \notin Vault!Records, vault' \in [1 .. MaxAccounts -> VaultEntries], vault'[s] = e,
         \A t \in 1 .. MaxAccounts : t # s => vault'[t] = vault[t]
  PROVE  SelectionSound
<1>1. \A t : t \in Vault!Occupied <=> t \in 1 .. MaxAccounts /\ vault[t] \in Vault!Records
  BY VaultFacts DEF VaultInv
<1>2. \A t : t \in Vault!Occupied' <=> t \in 1 .. MaxAccounts /\ vault'[t] \in Vault!Records
  BY VaultKinds DEF Vault!Occupied, Vault!Holds
<1> QED
  BY <1>1, <1>2, SoundBecause

\* A command that ends, or that has not come to the selection.
LEMMA Reading ==
  ASSUME VaultInv, vault' \in [1 .. MaxAccounts -> VaultEntries], Apart',
         selection' \in 0 .. MaxAccounts + 1, expired' \subseteq Vault!Records,
         \/ command' = VaultIdle
         \/ command' \in Asked /\ command'.step \in {"records", "clear"}
  PROVE  VaultInv'
BY VaultKinds DEF VaultInv, VaultTyped, Selecting

LEMMA Points ==
  ASSUME VaultInv, vault' \in [1 .. MaxAccounts -> VaultEntries], Apart',
         UNCHANGED <<selection, expired>>, command \in Asked,
         NEW s \in 0 .. MaxAccounts, Vault!Point(s),
         s = 0 \/ (s \in Vault!Occupied' /\ Vault!Asks(vault'[s].account))
  PROVE  VaultInv'
<1>1. CASE command' = VaultIdle
  BY <1>1, Reading DEF VaultInv, VaultTyped
<1>2. CASE command' = [command EXCEPT !.step = "point", !.next = s]
  <2>1. /\ command' \in Asked /\ command'.step = "point" /\ command'.next = s
        /\ command'.asked = command.asked
    <3>1. s \in Nat
      BY VaultAssumption
    <3> QED
      BY <1>2, <3>1 DEF Asked
  <2>2. \A a : Vault!Asks(a) <=> Vault!Asks(a)'
    BY <2>1, VaultKinds DEF Vault!Asks
  <2>3. Selecting'
    BY <2>1, <2>2 DEF Selecting, Pointed
  <2> QED
    BY <2>1, <2>3 DEF VaultInv, VaultTyped
<1> QED
  BY <1>1, <1>2, VaultKinds DEF Vault!Point

LEMMA Begins ==
  ASSUME VaultInv, NEW c \in Vault!Commands, Vault!Begin(c)
  PROVE  VaultInv' /\ SelectionSound
<1>1. UNCHANGED <<vault, selection, expired>>
  BY DEF Vault!Begin
<1>2. command' \in Asked /\ command'.step \in {"records", "clear"}
  <2> DEFINE first == IF c.name = "clear" THEN "clear" ELSE "records"
  <2>1. command' = [asked |-> c, step |-> first, next |-> 1]
    BY DEF Vault!Begin
  <2>2. first \in {"records", "clear"}
    OBVIOUS
  <2> HIDE DEF first
  <2> QED
    BY <2>1, <2>2 DEF Asked
<1>3. Apart'
  BY <1>1 DEF VaultInv, Apart
<1> QED
  BY <1>1, <1>2, <1>3, Reading, SameSelection DEF VaultInv, VaultTyped

LEMMA ReadsSlot ==
  ASSUME VaultInv, Vault!ReadSlot
  PROVE  VaultInv' /\ SelectionSound
<1> DEFINE s == command.next
<1>1. command \in Asked /\ command.step = "records" /\ s \in 1 .. MaxAccounts
  BY VaultKinds DEF VaultInv, VaultTyped, Vault!ReadSlot
<1>2. UNCHANGED <<selection, expired>>
  BY DEF Vault!ReadSlot
<1>3. CASE command' = VaultIdle /\ vault' = vault
  <2>1. Apart'
    BY <1>3 DEF VaultInv, Apart
  <2> QED
    BY <1>2, <1>3, <2>1, Reading, SameSelection DEF VaultInv, VaultTyped
<1>4. CASE /\ command' = [command EXCEPT !.next = s + 1]
           /\ vault' = IF vault[s] \in expired THEN [vault EXCEPT ![s] = VaultEmpty] ELSE vault
  <2>1. command' \in Asked /\ command'.step = "records"
    BY <1>1, <1>4, VaultAssumption DEF Asked
  <2>2. CASE vault' = vault
    <3>1. Apart'
      BY <2>2 DEF VaultInv, Apart
    <3> QED
      BY <1>2, <2>1, <2>2, <3>1, Reading, SameSelection DEF VaultInv, VaultTyped
  <2>3. CASE Sets(s, VaultEmpty)
    <3>1. VaultEmpty \in VaultEntries /\ Foreigner(s, VaultEmpty)
      BY VaultKinds DEF VaultEntries, Foreigner
    <3>2. /\ vault' \in [1 .. MaxAccounts -> VaultEntries] /\ Apart' /\ vault'[s] = VaultEmpty
          /\ \A t \in 1 .. MaxAccounts : t # s => vault'[t] = vault[t]
      BY <1>1, <2>3, <3>1, OneSlot
    <3>3. SelectionSound
      BY <1>1, <1>2, <3>2, VaultKinds, Emptied
    <3> QED
      BY <1>2, <2>1, <3>2, <3>3, Reading DEF VaultInv, VaultTyped
  <2> QED
    BY <1>4, <2>2, <2>3 DEF Sets
<1> QED
  BY <1>3, <1>4, VaultKinds DEF Vault!ReadSlot

LEMMA RepairsSelection ==
  ASSUME VaultInv, Vault!RepairSelection
  PROVE  VaultInv' /\ SelectionSound
<1>1. command \in Asked /\ UNCHANGED <<vault, expired>>
  BY VaultKinds DEF VaultInv, VaultTyped, Vault!RepairSelection
<1>2. command' = [command EXCEPT !.step = "ready"]
  BY DEF Vault!RepairSelection
<1>3. command' \in Asked /\ command'.step = "ready"
  BY <1>1, <1>2 DEF Asked
<1>4. selection' = Vault!Repaired
  BY DEF Vault!RepairSelection
<1>5. Vault!Occupied' = Vault!Occupied
  BY <1>1 DEF Vault!Occupied, Vault!Holds
<1>6. selection' = 0 \/ (selection' = selection /\ selection \in Vault!Occupied)
  BY <1>4, VaultKinds DEF Vault!Repaired
<1>7. SelectionSound
  <2>1. CASE selection' = 0
    BY <2>1, <1>1, SoundBecause DEF VaultInv, VaultTyped
  <2>2. CASE selection' = selection
    BY <2>2, <1>1, SameSelection
  <2> QED
    BY <1>6, <2>1, <2>2
<1>8. Selecting'
  BY <1>3, <1>5, <1>6 DEF Selecting
<1>9. VaultTyped' /\ Apart'
  BY <1>1, <1>3, <1>6, VaultAssumption DEF VaultInv, VaultTyped, Apart
<1> QED
  BY <1>7, <1>8, <1>9 DEF VaultInv

\* What a command asks for.
LEMMA AskedFor ==
  ASSUME command \in Asked
  PROVE  /\ Vault!Ready("store") => /\ command.asked.record \in Vault!Records
                                    /\ command.asked.select \in BOOLEAN
                                    /\ command.asked.select =>
                                         Vault!Asks(command.asked.record.account)
         /\ Vault!Ready("select") => Vault!Asks(command.asked.account)
<1>1. command # Vault!Idle
  BY VaultKinds
<1>2. command.asked \in Vault!Commands
  BY DEF Asked
<1>3. Vault!Ready("store") => command.asked \in [name : {"store"}, record : Vault!Records, select : BOOLEAN]
  BY <1>2 DEF Vault!Commands, Vault!Ready
<1> QED
  BY <1>1, <1>3 DEF Vault!Asks, Vault!Ready

LEMMA Looks ==
  ASSUME VaultInv, Vault!List \/ Vault!StoreAgain \/ Vault!Select
  PROVE  VaultInv' /\ SelectionSound
<1>1. command \in Asked /\ UNCHANGED <<vault, selection, expired>>
  BY VaultKinds DEF VaultInv, VaultTyped, Vault!List, Vault!StoreAgain, Vault!Select, Vault!Ready
<1>2. vault' \in [1 .. MaxAccounts -> VaultEntries] /\ Apart'
  BY <1>1 DEF VaultInv, VaultTyped, Apart
<1>3. Vault!Occupied' = Vault!Occupied
  BY <1>1 DEF Vault!Occupied, Vault!Holds
<1>4. SelectionSound
  BY <1>1, SameSelection
<1>5. CASE command' = VaultIdle
  BY <1>1, <1>2, <1>4, <1>5, Reading DEF VaultInv, VaultTyped
<1>6. ASSUME NEW s \in 1 .. MaxAccounts, Vault!Point(s), Pointed(s)
      PROVE  VaultInv'
  BY <1>1, <1>2, <1>3, <1>6, Points, VaultAssumption DEF Pointed
<1>7. CASE Vault!StoreAgain
  <2> DEFINE again == Vault!Repeated(command.asked.record)
             s == Vault!First(again)
  <2>1. again \in SUBSET (1 .. MaxAccounts) /\ again # {}
    BY <1>7, VaultFacts DEF VaultInv, Vault!StoreAgain
  <2>2. s \in again
    BY <2>1, FirstSlot
  <2>3. CASE vault[s] = command.asked.record /\ command.asked.select /\ Vault!Point(s)
    <3>1. Vault!Asks(vault[s].account)
      BY <1>1, <1>7, <2>3, AskedFor DEF Vault!StoreAgain
    <3>2. Pointed(s)
      BY <2>2, <3>1, VaultFacts DEF VaultInv, Pointed
    <3> QED
      BY <1>4, <1>6, <2>1, <2>2, <2>3, <3>2
  <2> QED
    BY <1>5, <1>7, <2>3, VaultKinds DEF Vault!StoreAgain
<1>8. CASE Vault!Select
  <2> DEFINE found == Vault!SlotsOf(command.asked.account)
             s == Vault!First(found)
  <2>1. CASE found # {} /\ Vault!Point(s)
    <3>1. found \in SUBSET (1 .. MaxAccounts)
      BY VaultFacts DEF VaultInv
    <3>2. s \in found
      BY <2>1, <3>1, FirstSlot
    <3>3. Pointed(s)
      BY <1>1, <1>8, <3>2, VaultFacts, AskedFor DEF VaultInv, Pointed, Vault!Select
    <3> QED
      BY <1>4, <1>6, <2>1, <3>1, <3>2, <3>3
  <2> QED
    BY <1>5, <1>8, <2>1, VaultKinds DEF Vault!Select
<1> QED
  BY <1>5, <1>7, <1>8, VaultKinds DEF Vault!List

LEMMA Stores ==
  ASSUME VaultInv, Vault!StoreRecord
  PROVE  VaultInv' /\ SelectionSound
<1> DEFINE r == command.asked.record
           free == Vault!SlotFor(r.account)
           s == Vault!First(free)
<1>1. command \in Asked /\ Vault!Ready("store") /\ UNCHANGED <<selection, expired>>
  BY VaultKinds DEF VaultInv, VaultTyped, Vault!StoreRecord, Vault!Ready
<1>2. /\ r \in Vault!Records /\ Vault!Repeated(r) = {}
      /\ command.asked.select => Vault!Asks(r.account)
  BY <1>1, AskedFor DEF Vault!StoreRecord
<1> HIDE DEF r
<1>3. CASE command' = VaultIdle /\ vault' = vault
  <2>1. Apart'
    BY <1>3 DEF VaultInv, Apart
  <2> QED
    BY <1>1, <1>3, <2>1, Reading, SameSelection DEF VaultInv, VaultTyped
<1>4. CASE /\ free # {} /\ Sets(s, r)
           /\ command' = VaultIdle \/ (command.asked.select /\ Vault!Point(s))
  <2>1. free \in SUBSET (1 .. MaxAccounts)
    BY VaultFacts, VaultKinds DEF VaultInv, Vault!SlotFor
  <2>2. s \in free /\ s \in 1 .. MaxAccounts
    BY <1>4, <2>1, FirstSlot
  <2>3. \/ s \in Vault!Occupied /\ vault[s].account = r.account
        \/ s \notin Vault!Occupied /\ Vault!SlotsOf(r.account) = {}
    BY <2>2, VaultFacts DEF VaultInv, Vault!SlotFor
  <2> HIDE DEF free, s
  <2>4. Foreigner(s, r)
    <3> SUFFICES ASSUME NEW t \in 1 .. MaxAccounts, t # s, vault[t] \in Vault!Records
                 PROVE  vault[t].account # r.account /\ vault[t].operation # r.operation
      BY DEF Foreigner
    <3>1. t \in Vault!Occupied
      BY VaultFacts DEF VaultInv
    <3>2. vault[t].operation # r.operation
      BY <1>2, <3>1, VaultFacts DEF VaultInv
    <3>3. vault[t].account # r.account
      BY <2>2, <2>3, <3>1, VaultFacts DEF VaultInv, Apart
    <3> QED
      BY <3>2, <3>3
  <2>5. r \in VaultEntries
    BY <1>2 DEF VaultEntries
  <2>6. /\ vault' \in [1 .. MaxAccounts -> VaultEntries] /\ Apart' /\ vault'[s] = r
        /\ \A t \in 1 .. MaxAccounts : t # s => vault'[t] = vault[t]
    BY <1>4, <2>2, <2>4, <2>5, OneSlot
  <2>7. s \in Vault!Occupied'
    BY <1>2, <2>2, <2>6, VaultKinds DEF Vault!Occupied, Vault!Holds
  <2>8. VaultInv'
    <3>1. CASE command' = VaultIdle
      BY <1>1, <2>6, <3>1, Reading DEF VaultInv, VaultTyped
    <3>2. CASE command.asked.select /\ Vault!Point(s)
      <4>1. s \in 0 .. MaxAccounts /\ Vault!Asks(vault'[s].account)
        BY <1>2, <2>2, <2>6, <3>2, VaultAssumption
      <4> QED
        BY <1>1, <2>6, <2>7, <3>2, <4>1, Points
    <3> QED
      BY <1>4, <3>1, <3>2
  <2>9. SelectionSound
    <3>1. selection = 0 \/ selection \in Vault!Occupied
      BY <1>1 DEF VaultInv, Selecting, Vault!Ready
    <3>2. CASE selection = 0
      <4>1. selection' \notin 1 .. MaxAccounts
        BY <1>1, <3>2
      <4> QED
        BY <2>6, <4>1, SoundBecause
    <3>3. CASE selection \in Vault!Occupied /\ selection # s
      <4>1. vault'[selection] = vault[selection]
        BY <2>6, <3>3, VaultFacts DEF VaultInv
      <4> QED
        BY <1>1, <2>6, <3>3, <4>1, SoundBecause
    <3>4. CASE selection \in Vault!Occupied /\ selection = s
      <4>1. vault'[selection] \in Vault!Records /\ vault'[selection].account = vault[selection].account
        BY <1>2, <2>3, <2>6, <3>4
      <4> QED
        BY <1>1, <2>6, <3>4, <4>1, SoundBecause
    <3> QED
      BY <3>1, <3>2, <3>3, <3>4
  <2> QED
    BY <2>8, <2>9
<1> QED
  BY <1>3, <1>4, VaultKinds DEF Vault!StoreRecord, Sets, r

LEMMA RemovesAccount ==
  ASSUME VaultInv, Vault!Remove
  PROVE  VaultInv' /\ SelectionSound
<1> DEFINE found == Vault!SlotsOf(command.asked.account)
           s == Vault!First(found)
<1>1. command \in Asked /\ UNCHANGED <<selection, expired>>
  BY VaultKinds DEF VaultInv, VaultTyped, Vault!Remove, Vault!Ready
<1>2. CASE command' = VaultIdle /\ vault' = vault
  <2>1. Apart'
    BY <1>2 DEF VaultInv, Apart
  <2> QED
    BY <1>1, <1>2, <2>1, Reading, SameSelection DEF VaultInv, VaultTyped
<1>3. CASE /\ found # {} /\ Sets(s, VaultEmpty)
           /\ command' = VaultIdle \/ Vault!Point(0)
  <2>1. found \in SUBSET (1 .. MaxAccounts)
    BY VaultFacts DEF VaultInv
  <2>2. s \in 1 .. MaxAccounts
    BY <1>3, <2>1, FirstSlot
  <2> HIDE DEF s
  <2>3. VaultEmpty \in VaultEntries /\ Foreigner(s, VaultEmpty)
    BY VaultKinds DEF VaultEntries, Foreigner
  <2>4. /\ vault' \in [1 .. MaxAccounts -> VaultEntries] /\ Apart' /\ vault'[s] = VaultEmpty
        /\ \A t \in 1 .. MaxAccounts : t # s => vault'[t] = vault[t]
    BY <1>3, <2>2, <2>3, OneSlot
  <2>5. SelectionSound
    BY <1>1, <2>2, <2>4, VaultKinds, Emptied
  <2>6. CASE command' = VaultIdle
    BY <1>1, <2>4, <2>5, <2>6, Reading DEF VaultInv, VaultTyped
  <2>7. CASE Vault!Point(0)
    BY <1>1, <2>4, <2>5, <2>7, Points, VaultAssumption
  <2> QED
    BY <1>3, <2>6, <2>7
<1> QED
  BY <1>2, <1>3, VaultKinds DEF Vault!Remove, Sets

LEMMA WritesSelection ==
  ASSUME VaultInv, Vault!WriteActive
  PROVE  VaultInv' /\ SelectionSound
<1>1. command \in Asked /\ command.step = "point" /\ UNCHANGED <<vault, expired>>
  BY VaultKinds DEF VaultInv, VaultTyped, Vault!WriteActive
<1>2. command' = VaultIdle /\ selection' \in {command.next, MaxAccounts + 1}
  BY VaultKinds DEF Vault!WriteActive
<1>3. command.next = 0 \/ Pointed(command.next)
  BY <1>1 DEF VaultInv, Selecting
<1>4. Pointed(command.next) => command.next \in 1 .. MaxAccounts
  BY VaultFacts DEF VaultInv, Pointed
<1>5. selection' \in 0 .. MaxAccounts + 1
  BY <1>2, <1>3, <1>4, VaultAssumption
<1>6. vault' \in [1 .. MaxAccounts -> VaultEntries] /\ Apart'
  BY <1>1 DEF VaultInv, VaultTyped, Apart
<1>7. selection' \notin 1 .. MaxAccounts \/ Pointed(selection')
  BY <1>2, <1>3, VaultAssumption
<1>8. SelectionSound
  BY <1>1, <1>6, <1>7, SoundBecause
<1> QED
  BY <1>1, <1>2, <1>5, <1>6, <1>8, Reading DEF VaultInv, VaultTyped

LEMMA Clears ==
  ASSUME VaultInv, Vault!ClearSlot \/ Vault!ClearActive
  PROVE  VaultInv' /\ SelectionSound
<1>1. command \in Asked /\ command.step = "clear" /\ UNCHANGED expired
  BY VaultKinds DEF VaultInv, VaultTyped, Vault!ClearSlot, Vault!ClearActive
<1>2. CASE Vault!ClearSlot
  <2> DEFINE s == command.next
  <2>1. /\ s \in 1 .. MaxAccounts /\ UNCHANGED selection
        /\ vault' = vault \/ Sets(s, VaultEmpty)
    BY <1>2, VaultKinds, Zenon DEF Vault!ClearSlot, Sets
  <2>2. command' \in Asked /\ command'.step = "clear"
    <3>1. command' = [command EXCEPT !.next = @ + 1]
      BY <1>2 DEF Vault!ClearSlot
    <3> QED
      BY <1>1, <3>1 DEF Asked
  <2>3. CASE vault' = vault
    <3>1. Apart'
      BY <2>3 DEF VaultInv, Apart
    <3> QED
      BY <1>1, <2>1, <2>2, <2>3, <3>1, Reading, SameSelection DEF VaultInv, VaultTyped
  <2>4. CASE Sets(s, VaultEmpty)
    <3>1. VaultEmpty \in VaultEntries /\ Foreigner(s, VaultEmpty)
      BY VaultKinds DEF VaultEntries, Foreigner
    <3>2. /\ vault' \in [1 .. MaxAccounts -> VaultEntries] /\ Apart' /\ vault'[s] = VaultEmpty
          /\ \A t \in 1 .. MaxAccounts : t # s => vault'[t] = vault[t]
      BY <2>1, <2>4, <3>1, OneSlot
    <3>3. SelectionSound
      BY <2>1, <3>2, VaultKinds, Emptied
    <3> QED
      BY <1>1, <2>1, <2>2, <3>2, <3>3, Reading DEF VaultInv, VaultTyped
  <2> QED
    BY <2>1, <2>3, <2>4
<1>3. CASE Vault!ClearActive
  <2>1. vault' = vault /\ command' = VaultIdle /\ selection' \in {selection, 0}
    BY <1>3, VaultKinds DEF Vault!ClearActive
  <2>2. vault' \in [1 .. MaxAccounts -> VaultEntries] /\ Apart'
    BY <2>1 DEF VaultInv, VaultTyped, Apart
  <2>3. SelectionSound
    <3>1. CASE selection' = selection
      BY <2>1, <3>1, SameSelection
    <3>2. CASE selection' = 0
      BY <2>2, <3>2, SoundBecause
    <3> QED
      BY <2>1, <3>1, <3>2
  <2>4. selection' \in 0 .. MaxAccounts + 1
    BY <2>1, VaultAssumption DEF VaultInv, VaultTyped
  <2> QED
    BY <1>1, <2>1, <2>2, <2>3, <2>4, Reading DEF VaultInv, VaultTyped
<1> QED
  BY <1>2, <1>3

LEMMA Outside ==
  ASSUME VaultInv,
         Vault!Abort \/ \E s \in 1 .. MaxAccounts : Vault!Expire(s) \/ Vault!Damage(s)
  PROVE  VaultInv' /\ SelectionSound
<1>1. CASE Vault!Abort
  <2>1. UNCHANGED <<vault, selection, expired>> /\ command' = VaultIdle
    BY <1>1, VaultKinds DEF Vault!Abort
  <2>2. Apart'
    BY <2>1 DEF VaultInv, Apart
  <2> QED
    BY <2>1, <2>2, Reading, SameSelection DEF VaultInv, VaultTyped
<1>2. ASSUME NEW s \in 1 .. MaxAccounts, Vault!Expire(s)
      PROVE  VaultInv' /\ SelectionSound
  <2>1. UNCHANGED <<vault, selection, command>> /\ expired' \subseteq Vault!Records
    BY <1>2 DEF VaultInv, VaultTyped, Vault!Expire, Vault!Holds
  <2>2. Vault!Occupied' = Vault!Occupied
    BY <2>1 DEF Vault!Occupied, Vault!Holds
  <2>3. \A t : Pointed(t)' = Pointed(t)
    BY <2>1, <2>2 DEF Pointed, Vault!Asks
  <2>4. VaultTyped' /\ Apart' /\ Selecting'
    BY <2>1, <2>2, <2>3 DEF VaultInv, VaultTyped, Apart, Selecting
  <2> QED
    BY <2>1, <2>4, SameSelection DEF VaultInv
<1>3. ASSUME NEW s \in 1 .. MaxAccounts, Vault!Damage(s)
      PROVE  VaultInv' /\ SelectionSound
  <2>1. /\ UNCHANGED <<selection, expired>> /\ command' = VaultIdle
        /\ Sets(s, VaultCorrupt)
    BY <1>3, VaultKinds DEF Vault!Damage, Sets
  <2>2. VaultCorrupt \in VaultEntries /\ Foreigner(s, VaultCorrupt)
    BY VaultKinds DEF VaultEntries, Foreigner
  <2>3. /\ vault' \in [1 .. MaxAccounts -> VaultEntries] /\ Apart' /\ vault'[s] = VaultCorrupt
        /\ \A t \in 1 .. MaxAccounts : t # s => vault'[t] = vault[t]
    BY <2>1, <2>2, OneSlot
  <2>4. SelectionSound
    BY <2>1, <2>3, VaultKinds, Emptied
  <2> QED
    BY <2>1, <2>3, <2>4, Reading DEF VaultInv, VaultTyped
<1> QED
  BY <1>1, <1>2, <1>3

LEMMA VaultStep ==
  ASSUME VaultInv, Vault!Next
  PROVE  VaultInv' /\ SelectionSound
BY Begins, ReadsSlot, RepairsSelection, Looks, Stores, RemovesAccount, WritesSelection, Clears,
   Outside, VaultKinds DEF Vault!Next, Vault!Running

--------------------------------------------------------------------------------
LEMMA VaultTypeOK ==
  ASSUME VaultInv
  PROVE  Vault!TypeOK /\ Vault!NeverCorruptsItself
<1>1. Vault!TypeOK
  BY VaultKinds, VaultAssumption DEF VaultInv, VaultTyped, VaultEntries, Asked, Vault!TypeOK
<1>2. Vault!NeverCorruptsItself
  BY VaultKinds, VaultFacts, VaultAssumption
     DEF VaultInv, Apart, Vault!NeverCorruptsItself, Vault!Duplicate, Vault!Holds
<1> QED
  BY <1>1, <1>2

LEMMA VaultInvariant == MCSpec => []VaultInv
<1>1. MCInit => VaultInv
  BY VaultStarts DEF MCInit
<1>2. VaultInv /\ [MCNext]_MCVars => VaultInv'
  <2>1. MCNext => Vault!Next \/ UNCHANGED credentialVars
    BY PartSteps
  <2>2. UNCHANGED MCVars => UNCHANGED credentialVars
    BY DEF MCVars
  <2> QED
    BY <2>1, <2>2, VaultStep, VaultStutters
<1> QED
  BY <1>1, <1>2, PTL DEF MCSpec

\* For any number of slots, accounts and operations: whichever writes of the keychain are
\* lost or interrupted, no two records are of one account or one operation, and no account
\* becomes the selected one but by a command that asks for it.
THEOREM CredentialsAlwaysKept == MCSpec => CredentialsKept
<1>1. VaultInv => (part = "credentials" => Vault!TypeOK /\ Vault!NeverCorruptsItself)
  BY VaultTypeOK
<1>2. VaultInv /\ [MCNext]_MCVars => [SelectionSound]_(Vault!vars)
  <2>1. MCNext => Vault!Next \/ UNCHANGED credentialVars
    BY PartSteps
  <2>2. UNCHANGED credentialVars => UNCHANGED Vault!vars
    BY DEF credentialVars, Vault!vars
  <2>3. UNCHANGED MCVars => UNCHANGED credentialVars
    BY DEF MCVars
  <2> QED
    BY <2>1, <2>2, <2>3, VaultStep
<1>3. MCSpec => [](part = "credentials" => Vault!TypeOK /\ Vault!NeverCorruptsItself)
  BY <1>1, VaultInvariant, PTL
<1>4. MCSpec => [][SelectionSound]_(Vault!vars)
  BY <1>2, VaultInvariant, PTL DEF MCSpec
<1>5. MCSpec => Vault!SelectionIsAsked
  BY <1>4, PTL DEF Vault!SelectionIsAsked, SelectionSound
<1> QED
  BY <1>3, <1>5 DEF CredentialsKept

================================================================================
