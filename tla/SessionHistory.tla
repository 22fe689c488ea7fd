--------------------------- MODULE SessionHistory ---------------------------
(***************************************************************************)
(* One browser tab's session history, and what the app keeps in step with  *)
(* it: the rule of src/web/frontend/src/history.js that the app's Back and *)
(* the browser's are one act, the surfaces (useBackToClose) and the panels *)
(* (usePanelStack) of ui.jsx that take entries of their own, and the       *)
(* shell's popstate handler and arrow in App.jsx.                          *)
(*                                                                         *)
(* A push is done at once; back() and go() only ask, and the browser       *)
(* arrives at the entry in a turn of its own, with a popstate.             *)
(***************************************************************************)
EXTENDS Integers, Sequences, FiniteSets

CONSTANTS
  Screens,     \* addresses that are screens
  Shelf,       \* the list a detail screen's arrow falls back to
  Offered,     \* rows the dock's Back menu offers (5)
  TrailMax,    \* rows the trail keeps (24)
  MaxEntries,  \* bound: entries of the app's in the tab's history
  MaxSurfaces, \* bound: surfaces open over one another
  MaxSteps,    \* bound: steps inside a surface that Back takes back
  MaxPanels,   \* bound: panels on the stack
  MaxDocs      \* bound: times the app is loaded into an entry of its own

ASSUME HistoryAssumption ==
  /\ Shelf \in Screens
  /\ {Offered, TrailMax, MaxEntries, MaxDocs} \subseteq Nat \ {0}
  /\ {MaxSurfaces, MaxSteps, MaxPanels} \subseteq Nat

VARIABLES
  \* The browser: its entries with their history.state, the one the tab is on,
  \* and the traversals asked for and not made yet.
  entries, cur, going,
  \* The page.
  shown,       \* the screen the shell's tab and detail name
  surfaces,    \* open surfaces, oldest first; backStack is those that answer
  panels,      \* depth of the screen's panel stack
  \* sessionStorage.
  trail,       \* rows by serial, one each
  \* History, read by properties only.
  strayed,     \* a surface and its entry have parted, by one of the known doors
  mixed        \* a second document has written the trail

pageVars == <<shown, surfaces, panels>>
vars == <<entries, cur, going, pageVars, trail, strayed, mixed>>

\* What an entry's state holds (tpDepth, tpSeq, tpOverlayDepth, tpPanelDepth), its
\* document, and what pushed it.
Here == entries[cur]
Answering == Cardinality({i \in DOMAIN surfaces : surfaces[i].answers})
Top == surfaces[Len(surfaces)]
Quiet == going = <<>>

(***************************************************************************)
(* history.js: pushes, and the trail.                                      *)
(***************************************************************************)
Stamped == Here.seq + 1

\* The entry pushed from here, which the entries ahead make way for.
Push(e) ==
  /\ cur < MaxEntries
  /\ entries' = Append(SubSeq(entries, 1, cur), [e EXCEPT !.seq = Stamped])
  /\ cur' = cur + 1

keepTrail(rows) == rows             \* mutant: a push trims nothing
trimTrail(rows) == {r \in rows : r.seq < Stamped}

\* slice(-n) of the rows, which are kept in the order of their serials.
Latest(rows, n) == {r \in rows : Cardinality({q \in rows : q.seq > r.seq}) < n}

\* noteRoute at serial s: one row a serial, the oldest dropped.
Noted(rows, s, path) ==
  Latest({r \in rows : r.seq # s} \cup {[seq |-> s, path |-> path]}, TrailMax)

\* recentRoutes: the rows behind this entry, at most as many as are offered.
recentRoutes == Latest({r \in trail : r.seq < Here.seq}, Offered)

(***************************************************************************)
(* Traversals.                                                             *)
(***************************************************************************)
\* What back() or go() asks for: by how much, who, and the screen it should reach.
Ask(by, own, to) == [by |-> by, own |-> own, to |-> to]

\* A traversal asked for while another is under way is made after it or dropped
\* (usePanelStack's leaveTo tells of both).
Asked(asks) ==
  /\ Len(going \o asks) <= 2
  /\ \/ going' = going \o asks
     \/ /\ Len(going \o asks) = 2
        /\ going' = SubSeq(going \o asks, 1, 1)

\* A push or a traversal in the way of another.
Raced(asks) == Len(going \o asks) > 1

(***************************************************************************)
(* Surfaces: useBackToClose.                                               *)
(***************************************************************************)
OpenSurface ==
  /\ Len(surfaces) < MaxSurfaces
  /\ Push([Here EXCEPT !.over = Answering + 1, !.kind = "surface"])
  /\ trail' = trimTrail(trail)
  /\ surfaces' = Append(surfaces, [steps |-> 0, answers |-> TRUE])
  /\ strayed' = (strayed \/ ~Quiet)
  /\ UNCHANGED <<going, shown, panels, mixed>>

\* A sheet whose arrow steps goes a step further in: the phone's add surface, which
\* the shell's keys open and any other surface would cover.
StepIn ==
  /\ Len(surfaces) = 1
  /\ surfaces[1].steps < MaxSteps
  /\ surfaces' = [surfaces EXCEPT ![1].steps = @ + 1]
  /\ UNCHANGED <<entries, cur, going, shown, panels, trail, strayed, mixed>>

\* The cleanup of a surface that did not close by a pop gives its entry back.
GivesBackNothing(s) == <<>>         \* mutant: the marker is left behind
GivesBack(s) == IF s.answers /\ Here.over > 0 THEN <<Ask(-1, TRUE, shown)>> ELSE <<>>

CloseSurface ==
  /\ surfaces # <<>>
  /\ surfaces' = SubSeq(surfaces, 1, Len(surfaces) - 1)
  /\ Asked(GivesBack(Top))
  /\ strayed' = (strayed \/ Raced(GivesBack(Top)) \/ Here.kind # "surface")
  /\ UNCHANGED <<entries, cur, shown, panels, trail, mixed>>

\* backPop: everything deeper than the entry landed on runs its verb, which is a
\* step back where there is one and the way out otherwise.
Rank(i) == Cardinality({j \in 1..i : surfaces[j].answers})
OnlyTheTop(i, want) == i = Len(surfaces)    \* mutant: whatever it lands on
Deeper(i, want) == surfaces[i].answers /\ Rank(i) > want
BackPopOpen(want) ==                \* mutant: what the verb closed stays listed
  [i \in DOMAIN surfaces |->
     IF Deeper(i, want) THEN [steps |-> surfaces[i].steps - 1, answers |-> FALSE]
     ELSE surfaces[i]]
\* Only the first can step, so those that stay open are the first of them.
BackPop(want) ==
  LET open == {i \in DOMAIN surfaces : BackPopOpen(want)[i].steps >= 0}
  IN  SubSeq(BackPopOpen(want), 1, Cardinality(open))

(***************************************************************************)
(* Panels: usePanelStack.                                                  *)
(***************************************************************************)
\* open on an empty stack, or push.  A panel may arrive after a request, over
\* whatever was opened meanwhile.
PushPanel ==
  /\ panels < MaxPanels
  /\ Push([Here EXCEPT !.panel = panels + 1, !.kind = "panel"])
  /\ trail' = trimTrail(trail)
  /\ panels' = panels + 1
  /\ strayed' = (strayed \/ ~Quiet)
  /\ UNCHANGED <<going, shown, surfaces, mixed>>

PanelOnTop == panels > 0 /\ (surfaces = <<>> \/ Here.kind = "panel")

PanelBack ==
  /\ PanelOnTop
  /\ Asked(<<Ask(-1, TRUE, shown)>>)
  /\ strayed' = (strayed \/ ~Quiet)
  /\ UNCHANGED <<entries, cur, pageVars, trail, mixed>>

PanelClose ==
  /\ PanelOnTop
  /\ Asked(<<Ask(-panels, TRUE, shown)>>)
  /\ strayed' = (strayed \/ ~Quiet)
  /\ UNCHANGED <<entries, cur, pageVars, trail, mixed>>

(***************************************************************************)
(* The shell: go, goBack, the trail's menu, popstate.                      *)
(***************************************************************************)
Route(path) ==
  [path |-> path, depth |-> Here.depth + 1, seq |-> Stamped, over |-> 0, panel |-> 0,
   doc |-> Here.doc, kind |-> "route"]

\* pushRoute, which is refused where the address is the path already; the effect
\* then records the screen either way.
Refused(path) == path = Here.path

Navigate(path) ==
  IF Refused(path)
  THEN /\ trail' = Noted(trail, Here.seq, path)
       /\ UNCHANGED <<entries, cur>>
  ELSE /\ Push(Route(path))
       /\ trail' = Noted(trimTrail(trail), Stamped, path)

\* A surface or a panel is left with its entry in the history.
LeavesEntry(path) == ~Refused(path) /\ Here.kind # "route"

\* go, from the screen or from a surface, which closes as it navigates (the drawer,
\* a quote's link); a screen left takes its panels with it.  The goTo of sources.jsx,
\* a push with a popstate of its own, comes to the same from a page or a panel.
Go(path) ==
  /\ Navigate(path)
  /\ shown' = path
  /\ surfaces' = <<>>
  /\ panels' = IF path = shown THEN panels ELSE 0
  /\ LET asks == IF Refused(path) /\ surfaces # <<>> THEN GivesBack(Top) ELSE <<>>
     IN /\ Asked(asks)
        /\ strayed' = (strayed \/ ~Quiet \/ LeavesEntry(path) \/ Len(surfaces) > 1
                       \/ (asks # <<>> /\ Here.kind # "surface"))
  /\ UNCHANGED mixed

\* leaveTo: a panel hands over to the shell.
LeaveTo(path) ==
  /\ PanelOnTop /\ surfaces = <<>> /\ ~Refused(path)
  /\ cur < MaxEntries
  /\ entries' = Append([SubSeq(entries, 1, cur) EXCEPT ![cur].panel = 0], Route(path))
  /\ cur' = cur + 1
  /\ trail' = Noted(trimTrail(trail), Stamped, path)
  /\ shown' = path
  /\ panels' = 0
  /\ strayed' = TRUE
  /\ UNCHANGED <<going, surfaces, mixed>>

\* navigateBack, with nothing over the screen: the browser's Back where an entry of
\* ours is behind this one, and the fallback in its place otherwise.
canGoBack == Here.depth > 0
Arrow ==
  /\ surfaces = <<>> /\ panels = 0
  /\ shown # Shelf \/ canGoBack
  /\ IF canGoBack
     THEN /\ Asked(<<Ask(-1, TRUE, IF Here.kind = "route" THEN entries[cur - 1].path ELSE shown)>>)
          /\ strayed' = (strayed \/ ~Quiet)
          /\ UNCHANGED <<entries, cur, shown, trail>>
     ELSE /\ entries' = [entries EXCEPT ![cur].path = Shelf, ![cur].over = 0, ![cur].panel = 0]
          /\ shown' = Shelf
          /\ trail' = Noted(trail, Here.seq, Shelf)
          /\ strayed' = (strayed \/ ~Quiet \/ cur < Len(entries) \/ Here.kind # "route")
          /\ UNCHANGED <<cur, going>>
  /\ UNCHANGED <<surfaces, panels, mixed>>

\* The dock's Back, held: a row of its menu.
ByDepth(row) == Here.depth - Cardinality({r \in recentRoutes : r.seq < row.seq})
                                    \* mutant: screens counted, not entries
Distance(row) == Here.seq - row.seq
jumpBack(row) ==
  /\ surfaces = <<>> /\ panels = 0
  /\ canGoBack \/ shown # Shelf
  /\ Asked(<<Ask(-Distance(row), TRUE, row.path)>>)
  /\ strayed' = (strayed \/ ~Quiet)
  /\ UNCHANGED <<entries, cur, pageVars, trail, mixed>>

\* The name of the work on screen arrives, whatever is open over it by now.
TitleArrives ==
  /\ trail' = Noted(trail, Here.seq, shown)
  /\ UNCHANGED <<entries, cur, going, pageVars, strayed, mixed>>

(***************************************************************************)
(* The reader's own Back and Forward, and the browser.                     *)
(***************************************************************************)
\* (The gesture is the browser's own and waits for the one before it to be made.)
Gesture(by) ==
  /\ Quiet
  /\ cur + by \in DOMAIN entries
  /\ going' = <<Ask(by, FALSE, shown)>>
  /\ UNCHANGED <<entries, cur, pageVars, trail, strayed, mixed>>

\* The module state of a page that has just been loaded at an entry.
Loaded(e) ==
  /\ shown' = e.path
  /\ surfaces' = <<>>
  /\ panels' = 0
  /\ trail' = Noted(trail, e.seq, e.path)

\* A pop within the document: backPop, the panel stack, and onPop, which takes an
\* unchanged address for a surface or a panel closing.
alwaysOverlay(e) == TRUE            \* mutant: no pop is a navigation
popIsOverlay(e) == e.path = shown

Popped(e) ==
  /\ surfaces' = BackPop(e.over)
  /\ IF popIsOverlay(e)
     THEN /\ panels' = IF e.panel < panels THEN e.panel ELSE panels
          /\ going' = Tail(going)
          /\ UNCHANGED <<shown, trail>>
     ELSE /\ panels' = 0
          /\ shown' = e.path
          /\ trail' = Noted(trail, e.seq, e.path)
          \* the last unmount of a screen with panels walks back as far as it pushed
          /\ going' = Tail(going) \o
               (IF panels > 0 /\ e.panel > 0 THEN <<Ask(-panels, TRUE, e.path)>> ELSE <<>>)

\* A step back inside a sheet spends the sheet's entry.
OutlivesItsEntry(e) == \E i \in DOMAIN surfaces : Deeper(i, e.over) /\ surfaces[i].steps > 0

\* The browser makes the traversal at the head: out of range it does nothing, and
\* across documents it loads the page.
Traverse ==
  /\ ~Quiet
  /\ LET to == cur + Head(going).by IN
       IF to \notin DOMAIN entries
       THEN /\ going' = Tail(going)
            /\ UNCHANGED <<entries, cur, pageVars, trail, strayed, mixed>>
       ELSE /\ cur' = to
            /\ IF entries[to].doc = Here.doc
               THEN /\ Popped(entries[to])
                    /\ UNCHANGED mixed
               ELSE /\ Loaded(entries[to])
                    /\ going' = <<>>
                    /\ mixed' = TRUE
            /\ strayed' = (strayed \/ OutlivesItsEntry(entries[to])
                           \/ (entries[to].kind # "route"
                                 /\ (Head(going).by > 0 \/ entries[to].doc # Here.doc)))
            /\ UNCHANGED entries

Reload ==
  /\ Loaded(Here)
  /\ going' = <<>>
  /\ strayed' = (strayed \/ Here.kind # "route")
  /\ UNCHANGED <<entries, cur, mixed>>

\* The app loaded into an entry of its own: an address typed, a link from outside,
\* the round of a single sign-on, Account's Switch account.
FreshEntry(path) ==
  [path |-> path, depth |-> 0, seq |-> 0, over |-> 0, panel |-> 0,
   doc |-> entries[Len(entries)].doc + 1, kind |-> "route"]
FreshLoad(path) ==
  /\ cur < MaxEntries
  /\ entries[Len(entries)].doc < MaxDocs
  /\ entries' = Append(SubSeq(entries, 1, cur), FreshEntry(path))
  /\ cur' = cur + 1
  /\ Loaded(FreshEntry(path))
  /\ going' = <<>>
  /\ mixed' = TRUE
  /\ UNCHANGED strayed

(***************************************************************************)
(* Specification.                                                          *)
(***************************************************************************)
Init ==
  \E path \in Screens :
    /\ entries = <<[path |-> path, depth |-> 0, seq |-> 0, over |-> 0, panel |-> 0,
                    doc |-> 1, kind |-> "route"]>>
    /\ cur = 1
    /\ going = <<>>
    /\ shown = path
    /\ surfaces = <<>>
    /\ panels = 0
    /\ trail = {[seq |-> 0, path |-> path]}
    /\ strayed = FALSE
    /\ mixed = FALSE

Page ==
  \/ OpenSurface \/ StepIn \/ CloseSurface
  \/ PushPanel \/ PanelBack \/ PanelClose
  \/ Arrow \/ TitleArrives
  \/ \E path \in Screens : Go(path) \/ LeaveTo(path)
  \/ \E row \in recentRoutes : jumpBack(row)

Browser ==
  \/ Traverse \/ Reload
  \/ \E by \in {-1, 1} : Gesture(by)
  \/ \E path \in Screens : FreshLoad(path)

Next == Page \/ Browser

Spec == Init /\ [][Next]_vars

(***************************************************************************)
(* Properties.                                                             *)
(***************************************************************************)
Entry == [path : Screens, depth : 0..MaxEntries, seq : 0..MaxEntries,
          over : 0..MaxSurfaces, panel : 0..MaxPanels, doc : 1..MaxDocs,
          kind : {"route", "surface", "panel"}]

TypeOK ==
  /\ entries \in Seq(Entry)
  /\ Len(entries) \in 1..MaxEntries
  /\ cur \in DOMAIN entries
  /\ going \in Seq([by : (-MaxEntries)..MaxEntries, own : BOOLEAN, to : Screens])
  /\ Len(going) <= 2
  /\ shown \in Screens
  /\ surfaces \in Seq([steps : 0..MaxSteps, answers : BOOLEAN])
  /\ panels \in 0..MaxPanels
  /\ trail \subseteq [seq : 0..MaxEntries, path : Screens]
  /\ strayed \in BOOLEAN /\ mixed \in BOOLEAN

\* The screen drawn is the address's, whichever surfaces, panels, arrows, gestures
\* and loads led here: a pop taken for a dismissal never was a navigation.
AddressIsShown == shown = Here.path

\* Each row of the trail behind this entry is the right number of entries away from
\* the screen it names, so that a jump lands on it; rows of another document excepted.
TrailTells ==
  mixed \/ \A row \in recentRoutes :
             /\ Here.seq - row.seq \in 1..(cur - 1)
             /\ entries[cur - (Here.seq - row.seq)].path = row.path

\* What the app asks of the browser stays inside the app and reaches the screen it
\* was asked for, unless a push or another traversal got in between.
OwnTravelArrives ==
  strayed \/ \A i \in DOMAIN going :
    going[i].own => /\ cur + going[i].by \in DOMAIN entries
                    /\ entries[cur + going[i].by].doc = Here.doc
                    /\ mixed \/ entries[cur + going[i].by].path = going[i].to

\* With everything closed and nothing under way the tab stands on a screen's entry:
\* dialogs opened and closed, however it was done, leave no dead Back behind.
NoDeadEntry ==
  strayed \/ (Quiet /\ surfaces = <<>> /\ panels = 0 => Here.kind = "route")

\* A traversal's effect on what is open: one Back takes what is on top, and nothing
\* else; a surface or panel giving its own entry back takes nothing more.
TakesTheTop ==
  going # <<>> /\ ~strayed' /\ cur' = cur - 1 /\ entries' = entries /\ Head(going).by = -1
    => LET gone == Len(surfaces) - Len(surfaces') IN
         CASE Here.kind = "surface" -> gone = (IF Head(going).own THEN 0 ELSE 1)
                                       /\ panels' = panels /\ shown' = shown
           [] Here.kind = "panel"   -> gone = 0 /\ panels' = panels - 1 /\ shown' = shown
           [] OTHER                 -> gone = 0
BackTakesTheTop == [][TakesTheTop]_vars
=============================================================================
