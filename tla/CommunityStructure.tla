--------------------------- MODULE CommunityStructure ---------------------------
(***************************************************************************)
(* The rows that shape a community: its name, its content limits, its      *)
(* categories and its spaces (CommunityService in                          *)
(* packages/domain/src/index.ts over packages/postgres/src/index.ts), with *)
(* editors who send the version they last saw and a reader who walks       *)
(* through the pages of spaces.  Every command is one serializable         *)
(* transaction.  An editor is somebody enforce() lets manage; names, slow  *)
(* modes and the values of limits are free: only the version of their row  *)
(* tells that they changed.                                                *)
(***************************************************************************)
EXTENDS Integers, FiniteSets, FiniteSetsExt

CONSTANTS
  Editors,
  Categories, Spaces, \* identifiers: positive numbers, in the order of PostgreSQL
  CountLimit,         \* how many spaces createTextSpace() counts (100)
  PageSize,
  MaxPosition, MaxWrites \* bounds of the model

None == 0
Absent == [version |-> 0]

VARIABLES
  community,  \* the row: archived and version
  limits,     \* the row of the content limits, Absent before the first
  category,   \* the row of each category, or Absent
  space,      \* the row of each space, or Absent
  seen,       \* the row an editor has on its screen
  walk        \* the pages of spaces a reader has got
vars == <<community, limits, category, space, seen, walk>>

Idle == [step |-> "idle", position |-> 0, id |-> None, got |-> {}, twice |-> FALSE, kept |-> {}]
NothingSeen == [kind |-> "nothing", id |-> None, row |-> Absent]

Init ==
  /\ community = [archived |-> FALSE, version |-> 1]
  /\ limits = Absent
  /\ category = [k \in Categories |-> Absent]
  /\ space = [s \in Spaces |-> Absent]
  /\ seen = [e \in Editors |-> NothingSeen]
  /\ walk = Idle

--------------------------------------------------------------------------------
(* What is listed *)

Writes ==
  community.version + limits.version + MapThenSumSet(LAMBDA k : category[k].version, Categories)
    + MapThenSumSet(LAMBDA s : space[s].version, Spaces)

ActiveCategories == {k \in Categories : category[k] # Absent /\ ~category[k].archived}
Hidden(s) == space[s].category # None /\ space[s].category \notin ActiveCategories
Listed(s) == space[s] # Absent /\ ~space[s].archived /\ ~Hidden(s)
ListedSpaces == {s \in Spaces : Listed(s)}

\* A category a space may join.
Joinable(k) == k = None \/ k \in ActiveCategories

\* What requests answer: a list in which a client finds its row, unless the community is
\* archived, and its limits, which are those of a new one as long as there is no row.
DefaultLimits == [version |-> 1]
ContentLimits == IF limits = Absent THEN DefaultLimits ELSE limits
Listings ==
  {[kind |-> "community", id |-> None, row |-> community]}
    \union {[kind |-> "category", id |-> k, row |-> category[k]] : k \in ActiveCategories}
    \union {[kind |-> "space", id |-> s, row |-> space[s]] : s \in ListedSpaces}
Shown ==
  {[kind |-> "limits", id |-> None, row |-> ContentLimits]}
    \union IF community.archived THEN {} ELSE Listings

\* The reader's walk goes on beside what is written: the spaces that are still where
\* they were are those it has to find (history).
Observed ==
  [walk EXCEPT !.kept = {s \in @ : Listed(s)' /\ space'[s].position = space[s].position}]

--------------------------------------------------------------------------------
(* Commands *)

Read(e) ==
  /\ \E shown \in Shown : seen' = [seen EXCEPT ![e] = shown]
  /\ UNCHANGED <<community, limits, category, space, walk>>

NewCategory == [position |-> Cardinality(ActiveCategories), archived |-> FALSE, version |-> 1]
CreateCategory(k) ==
  /\ ~community.archived /\ category[k] = Absent
  /\ category' = [category EXCEPT ![k] = NewCategory]
  /\ UNCHANGED <<community, limits, space, seen, walk>>

\* A column that is not given keeps its value; what is archived stays so.
ChangedCategory(row, position, archive) ==
  [position |-> position, archived |-> row.archived \/ archive, version |-> row.version + 1]
UpdateCategory(e) ==
  \E k \in Categories, position \in 0 .. MaxPosition, archive \in BOOLEAN :
    /\ seen[e].kind = "category" /\ seen[e].id = k
    /\ category[k].version = seen[e].row.version
    /\ category' = [category EXCEPT ![k] = ChangedCategory(@, position, archive)]
    /\ UNCHANGED <<community, limits, space, seen>>
    /\ walk' = Observed

CountedSpaces == Min({CountLimit, Cardinality(ListedSpaces)})
NewSpace(k) == [category |-> k, position |-> CountedSpaces, archived |-> FALSE, version |-> 1]
CreateTextSpace(s) ==
  \E k \in Categories \union {None} :
    /\ ~community.archived /\ space[s] = Absent /\ Joinable(k)
    /\ space' = [space EXCEPT ![s] = NewSpace(k)]
    /\ UNCHANGED <<community, limits, category, seen, walk>>

SameVersion(s, version) == space[s].version = version
ChangedSpace(row, k, position, archive) ==
  [category |-> k, position |-> position, archived |-> row.archived \/ archive,
   version |-> row.version + 1]
UpdateSpace(e) ==
  \E s \in Spaces, k \in Categories \union {None}, position \in 0 .. MaxPosition,
     archive \in BOOLEAN :
    /\ seen[e].kind = "space" /\ seen[e].id = s /\ Joinable(k)
    /\ SameVersion(s, seen[e].row.version)
    /\ space' = [space EXCEPT ![s] = ChangedSpace(@, k, position, archive)]
    /\ UNCHANGED <<community, limits, category, seen>>
    /\ walk' = Observed

\* The name and the archive: a row that is archived is written no more.
CommunityIs(version) == ~community.archived /\ community.version = version
UpdateCommunity(e) ==
  /\ seen[e].kind = "community" /\ CommunityIs(seen[e].row.version)
  /\ community' = [community EXCEPT !.version = @ + 1]
  /\ UNCHANGED <<limits, category, space, seen, walk>>
ArchiveCommunity(e) ==
  /\ seen[e].kind = "community" /\ CommunityIs(seen[e].row.version)
  /\ community' = [archived |-> TRUE, version |-> community.version + 1]
  /\ UNCHANGED <<limits, category, space, seen, walk>>

\* The first limits are inserted, and only without a version; later ones need theirs.
\* Neither looks at the archive of the community.
InsertLimits ==
  /\ limits = Absent /\ limits' = [version |-> 1]
  /\ UNCHANGED <<community, category, space, seen, walk>>
LimitsAccepted(version) == limits # Absent /\ limits.version = version
ReplaceLimits(e) ==
  /\ seen[e].kind = "limits" /\ LimitsAccepted(seen[e].row.version)
  /\ limits' = [version |-> limits.version + 1]
  /\ UNCHANGED <<community, category, space, seen, walk>>

--------------------------------------------------------------------------------
(* The reader *)

\* Every page looks at the community first; without it the walk is over.
StartWalk ==
  /\ walk.step = "idle" /\ ~community.archived
  /\ walk' = [Idle EXCEPT !.step = "reading", !.position = -1, !.kept = ListedSpaces]
  /\ UNCHANGED <<community, limits, category, space, seen>>

Before(a, b) ==
  \/ space[a].position < space[b].position
  \/ space[a].position = space[b].position /\ a < b
\* (mutant) the page goes on behind the position alone
AfterPosition(s) == space[s].position > walk.position
After(s) ==
  \/ space[s].position > walk.position
  \/ space[s].position = walk.position /\ s > walk.id
Rest == {s \in ListedSpaces : After(s)}
PageOf == {s \in Rest : Cardinality({r \in Rest : Before(r, s)}) < PageSize}

ListSpaces ==
  /\ walk.step = "reading"
  /\ IF community.archived
     THEN walk' = Idle
     ELSE LET last == CHOOSE s \in PageOf : \A r \in PageOf \ {s} : Before(r, s)
              next == [walk EXCEPT !.got = @ \union PageOf,
                                   !.twice = @ \/ PageOf \cap walk.got \cap walk.kept # {}]
          IN walk' = IF PageOf = Rest
                     THEN [next EXCEPT !.step = "complete"]
                     ELSE [next EXCEPT !.position = space[last].position, !.id = last]
  /\ UNCHANGED <<community, limits, category, space, seen>>
EndWalk ==
  /\ walk.step = "complete" /\ walk' = Idle
  /\ UNCHANGED <<community, limits, category, space, seen>>

\* What each group of routes may do.
WriteCategories ==
  \/ \E k \in Categories : CreateCategory(k)
  \/ \E e \in Editors : UpdateCategory(e)
WriteSpaces ==
  \/ \E s \in Spaces : CreateTextSpace(s)
  \/ \E e \in Editors : UpdateSpace(e)
WriteCommunity == \E e \in Editors : UpdateCommunity(e) \/ ArchiveCommunity(e)
WriteLimits == InsertLimits \/ \E e \in Editors : ReplaceLimits(e)
Next ==
  \/ Writes < MaxWrites /\ (WriteCategories \/ WriteSpaces \/ WriteCommunity \/ WriteLimits)
  \/ \E e \in Editors : Read(e)
  \/ StartWalk \/ ListSpaces \/ EndWalk
Spec == Init /\ [][Next]_vars

--------------------------------------------------------------------------------
(* Properties *)

TypeOK ==
  /\ community \in [archived : BOOLEAN, version : Nat] /\ limits \in [version : Nat]
  /\ \A k \in Categories : category[k] = Absent \/ category[k].position \in Nat
  /\ \A s \in Spaces :
       space[s] = Absent \/ space[s].category \in {k \in Categories : category[k] # Absent}
                                                \union {None}
  /\ walk.got \subseteq Spaces /\ walk.step \in {"idle", "reading", "complete"}

Keys ==
  {<<"limits", None>>, <<"community", None>>}
    \union ({"category"} \X Categories) \union ({"space"} \X Spaces)
Row(key) ==
  CASE key[1] = "category" -> category[key[2]]
    [] key[1] = "space" -> space[key[2]]
    [] key[1] = "community" -> community
    [] OTHER -> limits

\* Positions are shared, since they are counted and archives leave holes
\* (domain/index.ts:1839, 1879).  A walk through the pages nevertheless finds every
\* space that stayed where it was, and finds it once.
WalkIsComplete ==
  /\ walk.step = "complete" => walk.kept \subseteq walk.got
  /\ ~walk.twice

\* An editor replaces no row but the one on its screen, whatever was written since
\* (the versioned updates of postgres/index.ts).
RowsAreSeen ==
  \A key \in Keys :
    Row(key) # Absent /\ Row(key)' # Row(key)
      => \E e \in Editors : seen[e] = [kind |-> key[1], id |-> key[2], row |-> Row(key)]
ReplacesWhatWasSeen == [][RowsAreSeen]_vars

\* What a socket may subscribe to (authorizeSpaceSubscription()) is in a community that
\* still exists: docs/architecture/realtime-events.md:48 says that the archival of a
\* resource removes access.  It does not for the archive of the community.
Subscribable(s) == Listed(s)
ArchiveEndsAccess == \A s \in Spaces : Subscribable(s) => ~community.archived

\* A client that sends back the version it was told is not refused while nobody else
\* writes.  It is: the limits of a new community are told to be version 1, and have no row.
ToldVersionIsAccepted ==
  \A e \in Editors :
    seen[e] = [kind |-> "limits", id |-> None, row |-> ContentLimits]
      => LimitsAccepted(seen[e].row.version)

================================================================================
