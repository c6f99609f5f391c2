------------------------------- MODULE Items -------------------------------
(***************************************************************************)
(* What a user owns: the items, the loadouts and the statistics, with the  *)
(* handlers under routes/game/item and leaderboard/setAvatarStatValues.go. *)
(*                                                                         *)
(* Each is one value of UserFile: a handler works on it inside             *)
(* WithReadWrite, so its change is one step here, and is saved in that     *)
(* step unless the handler panics half-way, which leaves the change in     *)
(* memory alone (UserFile says what a stop inside a save does).  Saving    *)
(* and loading go through JSON, and not all that is saved can be loaded.   *)
(*                                                                         *)
(* The ids of items and loadouts are drawn inside WithRng, whose mutex     *)
(* every draw of the server needs.  The loops that should draw again have  *)
(* the draw in their initialisation: with an id that is taken (or, for an  *)
(* item, below 100) they never end.                                        *)
(***************************************************************************)
EXTENDS ServerConstants, Naturals, Sequences, FiniteSets

CONSTANTS
  ItemIds,        \* the definitions of the game, one item of each per user
  Plain,          \* those whose definition has no attributes
  Places,         \* where an item can be: locations, or its charges
  LoadoutIds,     \* the ids that can be drawn
  Stats, Fixed,   \* the statistics, and those that a client may not set
  Amounts,
  Clients         \* the requests in progress

ASSUME ItemsAssumption == Plain \subseteq ItemIds /\ Fixed \subseteq Stats

VARIABLES
  items,          \* per item: place and attribute, as in memory
  itemsSaved,     \* the same in the file
  loadouts,       \* per id: what the loadout holds, in memory
  loadoutsSaved,
  loadoutsNil,    \* whether the user's loadouts could not be loaded
  stats, statsSaved,
  rng,            \* the request inside WithRng
  step,           \* where the requests are
  toldItems, toldLoadouts, toldStats, \* history: what the client was answered
  half,           \* history: the items that a panic left half changed, until told again
  again,          \* history: the statistics that were set when they were there already
  unlucky         \* history: an id was drawn that the loop around the draw refuses
                  \* since the server started

itemVars == <<items, itemsSaved, toldItems, half>>
loadoutVars == <<loadouts, loadoutsSaved, loadoutsNil, toldLoadouts>>
statVars == <<stats, statsSaved, toldStats, again>>
drawVars == <<rng, step, unlucky>>
belongings == <<itemVars, loadoutVars, statVars, drawVars>>

\* ItemMetadata: a nil map of attributes, or one with a value; "other" is nil for every
\* item that the defaults make, and stays so through the file.
NewItem(i) == [place |-> None, att |-> IF i \in Plain THEN "nil" ELSE None]

NoLoadouts == [l \in LoadoutIds |-> None]

ItemsInit ==
  /\ items = [i \in ItemIds |-> NewItem(i)]
  /\ itemsSaved = items
  /\ loadouts = NoLoadouts /\ loadoutsSaved = NoLoadouts /\ loadoutsNil = FALSE
  /\ stats = [s \in Stats |-> None]
  /\ statsSaved = stats
  /\ rng = None /\ step = [c \in Clients |-> "idle"]
  /\ toldItems = items /\ toldLoadouts = NoLoadouts /\ toldStats = stats
  /\ half = {} /\ again = {} /\ unlucky = FALSE

Waits(c) == step[c] = "idle"

\* Mutant: the change is answered, and not saved.
SaveItemsInMemory(new, done) ==
  /\ items' = new /\ UNCHANGED itemsSaved
  /\ toldItems' = [i \in ItemIds |-> IF i \in done THEN new[i] ELSE toldItems[i]]
  /\ half' = half \ done

\* A handler has changed items to new, and answers those in done.
SaveItems(new, done) ==
  /\ items' = new /\ itemsSaved' = new
  /\ toldItems' = [i \in ItemIds |-> IF i \in done THEN new[i] ELSE toldItems[i]]
  /\ half' = half \ done

\* A handler has panicked after it changed the items in touched.
PanicOn(new, touched) ==
  /\ items' = new
  /\ half' = half \cup touched
  /\ UNCHANGED <<itemsSaved, toldItems>>

\* DetachItems, and MoveItem without slots: each item that exists gets its place.
PlaceItems(c, its, p) ==
  /\ Waits(c)
  /\ SaveItems([i \in ItemIds |-> IF i \in its THEN [items[i] EXCEPT !.place = p] ELSE items[i]],
               its)
  /\ UNCHANGED <<loadoutVars, statVars, drawVars>>

\* MoveItem with a slot: UpdateOther writes to a nil map, at the first item.
MoveToSlot(c, i, p) ==
  /\ Waits(c)
  /\ PanicOn([items EXCEPT ![i].place = p], {i})
  /\ UNCHANGED <<loadoutVars, statVars, drawVars>>

\* UpdateItemAttributes for a list of items: UpdateAttribute writes to a nil map at the
\* first one without attributes, when those before it are done.
UpdateItemAttributes(c, its, a) ==
  LET panics == {k \in DOMAIN its : its[k] \in Plain}
      done == {its[k] : k \in {j \in DOMAIN its : \A l \in panics : j < l}}
      new == [i \in ItemIds |-> IF i \in done THEN [items[i] EXCEPT !.att = a] ELSE items[i]]
  IN
  /\ Waits(c)
  /\ IF panics = {} THEN SaveItems(new, done) ELSE PanicOn(new, done)
  /\ UNCHANGED <<loadoutVars, statVars, drawVars>>

\* CreateItemLoadout: the items it names are looked up first, in a section of their own;
\* items do not go away.
CreateItemLoadout(c) ==
  /\ Waits(c)
  /\ step' = [step EXCEPT ![c] = "draw"]
  /\ UNCHANGED <<itemVars, loadoutVars, statVars, rng, unlucky>>

StoreLoadout(l, p) ==
  /\ loadouts' = [loadouts EXCEPT ![l] = p]
  /\ loadoutsSaved' = loadouts'
  /\ toldLoadouts' = [toldLoadouts EXCEPT ![l] = p]
  /\ UNCHANGED loadoutsNil

\* Mutant: the mutex of the generator is kept.
NewItemLoadoutKeepsRng(c, p) ==
  /\ step[c] = "draw" /\ ~loadoutsNil /\ rng = None
  /\ \E l \in LoadoutIds :
       /\ rng' = c
       /\ IF loadouts[l] # None
          THEN unlucky' = TRUE /\ UNCHANGED <<step, loadoutVars>>
          ELSE StoreLoadout(l, p) /\ step' = [step EXCEPT ![c] = "idle"] /\ UNCHANGED unlucky
  /\ UNCHANGED <<itemVars, statVars>>

\* NewItemLoadout: an id is drawn once; if it is taken the loop spins, in WithRng and in
\* the section of the loadouts.
NewItemLoadout(c, p) ==
  /\ step[c] = "draw" /\ ~loadoutsNil /\ rng = None
  /\ \E l \in LoadoutIds :
       IF loadouts[l] # None
       THEN rng' = c /\ unlucky' = TRUE /\ UNCHANGED <<step, loadoutVars>>
       ELSE /\ StoreLoadout(l, p)
            /\ step' = [step EXCEPT ![c] = "idle"]
            /\ UNCHANGED <<rng, unlucky>>
  /\ UNCHANGED <<itemVars, statVars>>

\* The same on a user whose loadouts could not be loaded: the nil pointer panics.
NoLoadoutsPanic(c) ==
  /\ step[c] = "draw" /\ loadoutsNil
  /\ step' = [step EXCEPT ![c] = "idle"]
  /\ UNCHANGED <<itemVars, loadoutVars, statVars, rng, unlucky>>

\* UpdateItemLoadout, of a loadout that exists, when nobody spins in their section.
UpdateItemLoadout(c, l, p) ==
  /\ Waits(c) /\ ~loadoutsNil /\ loadouts[l] # None
  /\ ~\E d \in Clients : rng = d /\ step[d] = "draw"
  /\ StoreLoadout(l, p)
  /\ UNCHANGED <<itemVars, statVars, drawVars>>

\* Default: the items of a new user draw their ids as loadouts do, one mutex for all.
DrawItemId(c) ==
  /\ Waits(c) /\ rng = None
  /\ rng' = c /\ unlucky' = TRUE
  /\ step' = [step EXCEPT ![c] = "spin"]
  /\ UNCHANGED <<itemVars, loadoutVars, statVars>>

\* SetAvatarStatValues: a statistic that is new is added; of one that is there GetStat
\* gives a copy, whose new value the client is told.
SetAvatarStatValues(c, ss, v) ==
  LET set == ss \ Fixed
      new == {s \in set : stats[s] = None}
  IN
  /\ Waits(c) /\ set # {}
  /\ stats' = [s \in Stats |-> IF s \in new THEN v ELSE stats[s]]
  /\ statsSaved' = stats'
  /\ toldStats' = [s \in Stats |-> IF s \in set THEN v ELSE toldStats[s]]
  /\ again' = again \cup (set \ new)
  /\ UNCHANGED <<itemVars, loadoutVars, drawVars>>

\* The server starts again, and the user's values are read from the file.  The map of
\* loadouts has an interface as its element: JSON decodes it only if it is empty.
Reload ==
  /\ items' = itemsSaved
  /\ loadoutsNil' = (loadoutsSaved # NoLoadouts)
  /\ loadouts' = NoLoadouts
  /\ stats' = statsSaved
  /\ rng' = None /\ step' = [c \in Clients |-> "idle"] /\ unlucky' = FALSE
  /\ UNCHANGED <<itemsSaved, loadoutsSaved, statsSaved, toldItems, toldLoadouts, toldStats,
                 half, again>>

Lists == {<<i>> : i \in ItemIds} \cup (ItemIds \X ItemIds)

ItemsStep(c) ==
  \/ \E p \in Places :
       \/ \E its \in SUBSET ItemIds : PlaceItems(c, its, p)
       \/ \E i \in ItemIds : MoveToSlot(c, i, p)
       \/ NewItemLoadout(c, p)
       \/ \E l \in LoadoutIds : UpdateItemLoadout(c, l, p)
  \/ \E its \in Lists, a \in Amounts : UpdateItemAttributes(c, its, a)
  \/ CreateItemLoadout(c) \/ NoLoadoutsPanic(c) \/ DrawItemId(c)
  \/ \E ss \in SUBSET Stats, v \in Amounts : SetAvatarStatValues(c, ss, v)

ItemsNext == Reload \/ \E c \in Clients : ItemsStep(c)

\* A handler goes on once it has the generator: a sync.Mutex serves who waits for it.
ItemsFairness ==
  \A c \in Clients :
    SF_belongings((\E p \in Places : NewItemLoadout(c, p)) \/ NoLoadoutsPanic(c))

ItemsSpec == ItemsInit /\ [][ItemsNext]_belongings /\ ItemsFairness

-----------------------------------------------------------------------------
\* The items of a user, in memory or in the file: those of a definition without attributes
\* have a nil map.
ItemsOf(its) ==
  /\ its \in [ItemIds -> [place : Places \cup {None}, att : Amounts \cup {None, "nil"}]]
  /\ \A i \in ItemIds : its[i].att \in (IF i \in Plain THEN {"nil"} ELSE Amounts \cup {None})

ItemsTypeOK ==
  /\ ItemsOf(items) /\ ItemsOf(itemsSaved)
  /\ loadouts \in [LoadoutIds -> Places \cup {None}]
  /\ loadoutsSaved \in [LoadoutIds -> Places \cup {None}] /\ loadoutsNil \in BOOLEAN
  /\ stats \in [Stats -> Amounts \cup {None}] /\ statsSaved \in [Stats -> Amounts \cup {None}]
  /\ rng \in Clients \cup {None}
  /\ step \in [Clients -> {"idle", "draw", "spin"}]
  /\ half \subseteq ItemIds /\ again \subseteq Stats /\ unlucky \in BOOLEAN

\* What the client has been told it owns is what it will be told again, now and after the
\* server has started again: except for the items that a panic left half changed, for
\* the statistics set more than once, and for all of the loadouts once any has been saved
\* and loaded.
ToldIsKept ==
  /\ \A i \in ItemIds \ half : items[i] = toldItems[i] /\ itemsSaved[i] = toldItems[i]
  /\ \A s \in Stats \ again : stats[s] = toldStats[s] /\ statsSaved[s] = toldStats[s]
  /\ loadoutsSaved = toldLoadouts
  /\ loadouts = toldLoadouts \/ (loadoutsNil /\ loadoutsSaved # NoLoadouts)

\* Whoever draws an id gets one, unless somebody has drawn one that the loop refuses: from
\* then on nobody draws any, and logins, hosts and loadouts wait for ever.
DrawsEnd == \A c \in Clients : step[c] = "draw" ~> (step[c] = "idle" \/ unlucky)

=============================================================================
