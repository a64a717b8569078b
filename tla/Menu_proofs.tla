------------------------------ MODULE Menu_proofs ------------------------------
(***************************************************************************)
(* Proofs about Menu, for every set of options, pages, kinds of widgets and *)
(* choices.                                                                 *)
(***************************************************************************)
EXTENDS Menu, TLAPS

-----------------------------------------------------------------------------
(* Values under the widgets. *)

LEMMA OfferedValues ==
  ASSUME MenuAssumption
  PROVE  /\ Len(Offered) \in Nat /\ Len(Offered) > 0 /\ DOMAIN Offered = 1 .. Len(Offered)
         /\ \A i \in 1 .. Len(Offered) : Offered[i] \in Range(Offered)
         /\ Range(Offered) \subseteq Value
         /\ \A v \in Range(Offered) : Like[v] = v
         /\ \A v \in Value : Like[v] \in Value /\ Like[Like[v]] = Like[v]
  <1>1. Len(Offered) \in Nat /\ Len(Offered) > 0 /\ DOMAIN Offered = 1 .. Len(Offered)
        /\ \A i \in 1 .. Len(Offered) : Offered[i] \in Value
    BY DEF MenuAssumption
  <1>2. \A i \in 1 .. Len(Offered) : Offered[i] \in Range(Offered)
    BY <1>1 DEF Range
  <1>3. \A v \in Range(Offered) : v \in Value /\ Like[v] = v
    BY <1>1 DEF Range, MenuAssumption
  <1>4. \A v \in Value : Like[v] \in Value /\ Like[Like[v]] = Like[v]
    BY <1>3 DEF MenuAssumption
  <1> QED BY <1>1, <1>2, <1>3, <1>4

LEMMA PlaceOf ==
  ASSUME NEW s, NEW x \in Range(s)
  PROVE  Place(x, s) \in DOMAIN s /\ s[Place(x, s)] = x
  BY DEF Place, Range

(* What a click or the wheel makes of a value is a value that is offered.    *)
LEMMA OfferedByWidgets ==
  ASSUME MenuAssumption, NEW v
  PROVE  /\ TickLeft(v) \in Range(Offered) /\ TickRight(v) \in Range(Offered)
         /\ Toggled(v) \in Range(Offered)
         /\ \A d \in {-1, 1} : DetentsScrolled(v, d) \in Range(Offered)
  <1>1. /\ Len(Offered) \in Nat /\ Len(Offered) > 0 /\ DOMAIN Offered = 1 .. Len(Offered)
        /\ \A i \in 1 .. Len(Offered) : Offered[i] \in Range(Offered)
    BY OfferedValues
  <1>2. Head(Offered) = Offered[1] /\ Last(Offered) = Offered[Len(Offered)]
        /\ Head(Offered) \in Range(Offered) /\ Last(Offered) \in Range(Offered)
    BY <1>1 DEF Last
  <1>3. CASE v \in Range(Offered)
    <2>1. Place(v, Offered) \in 1 .. Len(Offered) /\ Offered[Place(v, Offered)] = v
      BY <1>1, <1>3, PlaceOf
    <2> DEFINE i == Place(v, Offered)
    <2> HIDE DEF i
    <2>2. i \in 1 .. Len(Offered) /\ Offered[i] = v
      BY <2>1 DEF i
    <2>3. v # Head(Offered) => i - 1 \in 1 .. Len(Offered)
      BY <1>1, <1>2, <2>2
    <2>4. v # Last(Offered) => i + 1 \in 1 .. Len(Offered)
      BY <1>1, <1>2, <2>2
    <2>5. \A d \in {-1, 1} : Clamped(i + d, 1, Len(Offered)) \in 1 .. Len(Offered)
      BY <1>1, <2>2 DEF Clamped
    <2>6. TickLeft(v) \in Range(Offered) /\ TickRight(v) \in Range(Offered)
      BY <1>1, <1>2, <1>3, <2>3, <2>4 DEF TickLeft, TickRight, IsOffered, i
    <2>7. \A d \in {-1, 1} : DetentsScrolled(v, d) \in Range(Offered)
      BY <1>1, <1>3, <2>5 DEF DetentsScrolled, IsOffered, i
    <2> QED BY <1>2, <2>6, <2>7 DEF Toggled
  <1>4. CASE v \notin Range(Offered)
    <2>1. \A d \in {-1, 1} : Clamped(1 + d, 1, Len(Offered)) \in 1 .. Len(Offered)
      BY <1>1 DEF Clamped
    <2> QED BY <1>1, <1>2, <1>4, <2>1 DEF TickLeft, TickRight, Toggled, IsOffered, DetentsScrolled
  <1> QED BY <1>3, <1>4

LEMMA ScrolledIsValue ==
  ASSUME MenuAssumption, NEW v \in Value, NEW d \in {-1, 1}
  PROVE  SliderScrolled(v, d) \in Value
  BY DEF MenuAssumption, SliderScrolled, Clamped, Value

(* The arrows lead from a page to a page. *)
LEMMA ArrowsStay ==
  ASSUME MenuAssumption, NEW p \in Page, NEW d \in {-1, 1}
  PROVE  pageAtOffset(p, d) \in Page
  <1> DEFINE n == Len(PageOrder)
             i == Place(p, PageOrder) - 1 + d
  <1>1. n \in Nat /\ DOMAIN PageOrder = 1 .. n /\ \A j \in 1 .. n : PageOrder[j] \in Page
    BY DEF MenuAssumption, Page, Range
  <1>2. Place(p, PageOrder) \in 1 .. n
    BY <1>1, PlaceOf DEF Page
  <1>3. n > 0 /\ i \in Int
    BY <1>1, <1>2
  <1> HIDE DEF n, i
  <1>4. i % n \in 0 .. n - 1
    BY <1>1, <1>3
  <1>5. (i % n) + 1 \in 1 .. n
    BY <1>1, <1>4
  <1> QED BY <1>1, <1>5 DEF pageAtOffset, n, i

-----------------------------------------------------------------------------
(* The inductive invariant. *)

(* The plugins' page has a copy of each of its options. *)
CopyIsBuilt == shown => \A o \in OfPlugin : copy[o] \in Value

(* What the user chose last is in memory, or a plugin's slider that is still *)
(* held has it in the copy; drawing does not rewrite it; and it was saved.   *)
WantedIsKept == \A o \in Option : wanted[o] # Unset /\ o \notin cut =>
  /\ Drawn(o, wanted[o]) = wanted[o]
  /\ o \in OfPlugin /\ shown => copy[o] = wanted[o]
  /\ record[o] = wanted[o] \/ (o \in OfPlugin /\ o \in focus \cap Draggable)
  /\ ~shown => file[o] = wanted[o]

MenuInv == /\ TypeOK /\ WindowsMatch /\ FocusIsVisible
           /\ CopyIsStored /\ CopyIsBuilt /\ WantedIsKept

LEMMA MenuInit ==
  ASSUME MenuAssumption, Init
  PROVE  MenuInv
  <1>1. PageOrder[1] \in Page
    <2>1. Len(PageOrder) \in Nat /\ DOMAIN PageOrder = 1 .. Len(PageOrder)
      BY DEF MenuAssumption
    <2>2. 1 \in DOMAIN PageOrder
      BY <2>1 DEF MenuAssumption, Page, Range
    <2> QED BY <2>2 DEF Page, Range
  <1>2. TypeOK
    BY <1>1 DEF Init, TypeOK, MenuAssumption, Window
  <1>3. WindowsMatch /\ FocusIsVisible
    BY DEF Init, WindowsMatch, FocusIsVisible
  <1>4. CopyIsStored /\ CopyIsBuilt /\ WantedIsKept
    BY DEF Init, CopyIsStored, CopyIsBuilt, WantedIsKept
  <1> QED BY <1>2, <1>3, <1>4 DEF MenuInv

(* The page and the kind of a widget never change. *)
LEMMA SameWidgets ==
  ASSUME UNCHANGED widget
  PROVE  /\ OfPlugin' = OfPlugin /\ Draggable' = Draggable
         /\ \A o \in Option : \A v : (Drawn(o, v))' = Drawn(o, v)
         /\ current' = current => Here' = Here
  BY DEF OfPlugin, Draggable, Drawn, KindOf, Here

(* A step that touches only windows, the announcement or nothing. *)
LEMMA QuietStep ==
  ASSUME MenuInv, UNCHANGED <<widget, store, menu, ui, copy, hist>>,
         running' \in BOOLEAN, check' \in {"asks", "found", "ended"}, announced' \in BOOLEAN,
         windows' \subseteq Window, mouse' \subseteq windows',
         shown <=> "menu" \in windows', announced' <=> "update" \in windows', "main" \in windows'
  PROVE  MenuInv'
  <1>1. OfPlugin' = OfPlugin /\ Draggable' = Draggable /\ Here' = Here
        /\ \A o \in Option : \A v : (Drawn(o, v))' = Drawn(o, v)
    BY SameWidgets DEF menu
  <1>2. TypeOK'
    BY <1>1 DEF MenuInv, TypeOK, store, menu, ui, hist
  <1>3. WindowsMatch' /\ FocusIsVisible'
    BY <1>1 DEF MenuInv, WindowsMatch, FocusIsVisible, menu, ui
  <1>4. CopyIsStored'
    BY <1>1 DEF MenuInv, CopyIsStored, store, menu, ui, hist, OfPlugin
  <1>5. CopyIsBuilt' /\ WantedIsKept'
    BY <1>1 DEF MenuInv, CopyIsBuilt, WantedIsKept, store, menu, ui, hist
  <1> QED BY <1>2, <1>3, <1>4, <1>5 DEF MenuInv

(* What the windows do, and the update thread. *)
LEMMA WindowSteps ==
  ASSUME MenuAssumption, MenuInv,
         \/ \E w \in Window : Enter(w) \/ Leave(w)
         \/ Throws \/ Checked \/ Announce \/ Dismiss \/ UNCHANGED vars
  PROVE  MenuInv'
  <1>1. /\ running \in BOOLEAN /\ check \in {"asks", "found", "ended"} /\ announced \in BOOLEAN
        /\ windows \subseteq Window /\ mouse \subseteq windows
        /\ shown <=> "menu" \in windows
        /\ announced <=> "update" \in windows
        /\ "main" \in windows /\ "update" \in Window
    BY DEF MenuInv, TypeOK, WindowsMatch, Window
  <1>2. CASE \E w \in Window : Enter(w) \/ Leave(w)
    BY <1>1, <1>2, QuietStep DEF Enter, Leave, update
  <1>3. CASE Throws \/ Checked \/ UNCHANGED vars
    <2>1. /\ UNCHANGED <<widget, store, menu, ui, copy, hist, windows, mouse, announced>>
          /\ running' \in BOOLEAN /\ check' \in {"asks", "found", "ended"}
      BY <1>1, <1>3 DEF Throws, Checked, sdl, update, vars
    <2> QED BY <1>1, <2>1, QuietStep
  <1>4. CASE Announce
    BY <1>1, <1>4, QuietStep DEF Announce, Created
  <1>5. CASE Dismiss
    BY <1>1, <1>5, QuietStep DEF Dismiss, Gone
  <1> QED BY <1>2, <1>3, <1>4, <1>5

(* Saving without closing. *)
LEMMA SaveSteps ==
  ASSUME MenuInv, (\E w \in Window : KeyS(w)) \/ SaveButton
  PROVE  MenuInv'
  <1>1. /\ UNCHANGED <<running, widget, sdl, record, menu, ui, copy, update, hist>>
        /\ file' = record \/ file' = file
        /\ changed' \in BOOLEAN
    BY DEF KeyS, SaveButton, Save, Writes, store, MenuInv, TypeOK
  <1>2. OfPlugin' = OfPlugin /\ Draggable' = Draggable /\ Here' = Here
        /\ \A o \in Option : \A v : (Drawn(o, v))' = Drawn(o, v)
    BY <1>1, SameWidgets DEF menu
  <1>3. TypeOK'
    BY <1>1, <1>2 DEF MenuInv, TypeOK, sdl, menu, ui, update, hist
  <1>4. WindowsMatch' /\ FocusIsVisible'
    BY <1>1, <1>2 DEF MenuInv, WindowsMatch, FocusIsVisible, sdl, menu, ui, update
  <1>5. CopyIsStored'
    BY <1>1, <1>2 DEF MenuInv, CopyIsStored, menu, ui, hist, OfPlugin
  <1>6. CopyIsBuilt'
    BY <1>1, <1>2 DEF MenuInv, CopyIsBuilt, menu
  <1>7. WantedIsKept'
    <2>1. ~shown => focus = {}
      BY DEF MenuInv, WindowsMatch
    <2> QED BY <1>1, <1>2, <2>1 DEF MenuInv, WantedIsKept, menu, ui, hist
  <1> QED BY <1>3, <1>4, <1>5, <1>6, <1>7 DEF MenuInv

(* The menu closes, and with it perhaps the announcement. *)
LEMMA CloseStep ==
  ASSUME MenuInv, CloseMenu, UNCHANGED <<widget, check>>,
         running' \in BOOLEAN, announced' \in BOOLEAN,
         windows' \subseteq windows, mouse' \subseteq windows',
         "menu" \notin windows', announced' <=> "update" \in windows', "main" \in windows'
  PROVE  MenuInv'
  <1>1. /\ file' = record /\ changed' = TRUE /\ UNCHANGED <<record, current, drag, wanted>>
        /\ shown' = FALSE /\ pages' = {} /\ focus' = {} /\ tall' = {} /\ click' = {}
        /\ copy' = [o \in Option |-> Unset]
        /\ cut' = cut \cup (focus \cap OfPlugin \cap Draggable) /\ elsewhere' = {}
    BY DEF CloseMenu, Save, Writes
  <1>2. OfPlugin' = OfPlugin /\ Draggable' = Draggable
        /\ \A o \in Option : \A v : (Drawn(o, v))' = Drawn(o, v)
    BY SameWidgets
  <1>3. TypeOK'
    BY <1>1, <1>2 DEF MenuInv, TypeOK
  <1>4. WindowsMatch' /\ FocusIsVisible'
    BY <1>1 DEF WindowsMatch, FocusIsVisible
  <1>5. CopyIsStored' /\ CopyIsBuilt'
    BY <1>1 DEF CopyIsStored, CopyIsBuilt
  <1>6. WantedIsKept'
    BY <1>1, <1>2 DEF MenuInv, WantedIsKept
  <1> QED BY <1>3, <1>4, <1>5, <1>6 DEF MenuInv

(* The menu opens. *)
LEMMA OpenStep ==
  ASSUME MenuAssumption, MenuInv, OpenMenu, ~shown, UNCHANGED <<running, widget, update>>
  PROVE  MenuInv'
  <1>1. /\ windows' = windows \cup {"menu"} /\ mouse' = mouse /\ shown' = TRUE
        /\ pages' = {current, "Visualizers", "Plugins"} /\ current' = current
        /\ copy' = [o \in Option |-> IF o \in OfPlugin THEN record[o] ELSE Unset]
        /\ UNCHANGED <<record, file, changed, focus, tall, click, drag, wanted, cut, elsewhere>>
    BY DEF OpenMenu, Created, store, ui, hist
  <1>2. OfPlugin' = OfPlugin /\ Draggable' = Draggable /\ Here' = Here
        /\ \A o \in Option : \A v : (Drawn(o, v))' = Drawn(o, v)
    BY <1>1, SameWidgets
  <1>3. "menu" \in Window /\ "Visualizers" \in Page /\ "Plugins" \in Page
    BY DEF Window, MenuAssumption
  <1>4. focus = {}
    BY DEF MenuInv, WindowsMatch
  <1>5. TypeOK'
    BY <1>1, <1>2, <1>3 DEF MenuInv, TypeOK, update
  <1>6. WindowsMatch' /\ FocusIsVisible'
    BY <1>1, <1>2, <1>4 DEF MenuInv, WindowsMatch, FocusIsVisible, update
  <1>7. CopyIsStored' /\ CopyIsBuilt'
    BY <1>1, <1>2 DEF MenuInv, TypeOK, CopyIsStored, CopyIsBuilt, OfPlugin
  <1>8. WantedIsKept'
    BY <1>1, <1>2, <1>4 DEF MenuInv, WantedIsKept, OfPlugin
  <1> QED BY <1>5, <1>6, <1>7, <1>8 DEF MenuInv

(* Keys and close requests. *)
LEMMA KeySteps ==
  ASSUME MenuAssumption, MenuInv, NEW w \in Window, KeyM(w) \/ KeyQ(w) \/ CloseRequest(w)
  PROVE  MenuInv'
  <1>1. /\ running \in BOOLEAN /\ windows \subseteq Window /\ mouse \subseteq windows
        /\ announced \in BOOLEAN /\ check \in {"asks", "found", "ended"}
        /\ shown <=> "menu" \in windows
        /\ announced <=> "update" \in windows
        /\ "main" \in windows
    BY DEF MenuInv, TypeOK, WindowsMatch
  <1>2. CASE KeyM(w)
    <2>1. CASE shown
      BY <1>1, <1>2, <2>1, CloseStep DEF KeyM, Gone, update
    <2>2. CASE ~shown
      BY <1>2, <2>2, OpenStep DEF KeyM
    <2> QED BY <2>1, <2>2
  <1>3. CASE KeyQ(w)
    <2>1. CASE InMenu
      BY <1>1, <1>3, <2>1, CloseStep DEF KeyQ, Gone, update
    <2>2. CASE ~InMenu
      BY <1>1, <1>3, <2>2, QuietStep DEF KeyQ, sdl, update
    <2> QED BY <2>1, <2>2
  <1>4. CASE CloseRequest(w)
    <2>1. CASE shown
      BY <1>1, <1>4, <2>1, CloseStep DEF CloseRequest, Gone
    <2>2. CASE ~shown
      BY <1>1, <1>4, <2>2, QuietStep DEF CloseRequest, Gone
    <2> QED BY <2>1, <2>2
  <1> QED BY <1>2, <1>3, <1>4

(* A file is loaded, with its windows. *)
LEMMA LoadStep ==
  ASSUME MenuAssumption, MenuInv, NEW f \in [Option -> Value], Loads(f),
         UNCHANGED <<running, widget, update>>,
         file' \in [Option -> Value], changed' \in BOOLEAN
  PROVE  MenuInv'
  <1>1. /\ record' = f /\ wanted' = [o \in Option |-> Unset]
        /\ elsewhere' = IF "Plugins" \in pages
                        THEN elsewhere \cup {o \in OfPlugin : f[o] # record[o]} ELSE {}
        /\ UNCHANGED <<shown, pages, current, focus, tall, click, drag, copy, cut>>
    BY DEF Loads, menu, ui
  <1>2. PICK ws \in SUBSET Extra : windows' = (windows \ Extra) \cup ws
    BY DEF Loads, Removable
  <1>3. /\ windows' \subseteq Window /\ mouse' \subseteq windows'
        /\ \A w \in {"main", "menu", "update"} : w \in windows' <=> w \in windows
    BY <1>2 DEF Loads, MenuInv, TypeOK, MenuAssumption, Window
  <1>4. OfPlugin' = OfPlugin /\ Draggable' = Draggable /\ Here' = Here
        /\ \A o \in Option : \A v : (Drawn(o, v))' = Drawn(o, v)
    BY <1>1, SameWidgets
  <1>5. TypeOK'
    BY <1>1, <1>3, <1>4 DEF MenuInv, TypeOK, update
  <1>6. WindowsMatch' /\ FocusIsVisible'
    BY <1>1, <1>3, <1>4 DEF MenuInv, WindowsMatch, FocusIsVisible, update
  <1>7. CopyIsStored'
    BY <1>1, <1>4 DEF MenuInv, CopyIsStored, OfPlugin
  <1>8. CopyIsBuilt' /\ WantedIsKept'
    BY <1>1, <1>4 DEF MenuInv, CopyIsBuilt, WantedIsKept
  <1> QED BY <1>5, <1>6, <1>7, <1>8 DEF MenuInv

(* The file and a plugin's option are changed from outside. *)
LEMMA OutsideSteps ==
  ASSUME MenuAssumption, MenuInv,
         \/ Reload \/ FileButton \/ (\E f \in Files : UserEdit(f))
         \/ \E o \in OfPlugin, v \in Value : PluginSets(o, v)
  PROVE  MenuInv'
  <1>1. Files \subseteq [Option -> Value] /\ file \in [Option -> Value]
    BY DEF MenuAssumption, MenuInv, TypeOK
  <1>2. CASE Reload
    BY <1>1, <1>2, LoadStep DEF Reload
  <1>3. CASE FileButton
    BY <1>1, <1>3, LoadStep DEF FileButton
  <1>4. ASSUME NEW f \in Files, UserEdit(f) PROVE MenuInv'
    <2>1. /\ file' = f /\ changed' = TRUE /\ wanted' = [o \in Option |-> Unset]
          /\ UNCHANGED <<running, widget, sdl, record, menu, ui, copy, update, cut, elsewhere>>
      BY <1>4 DEF UserEdit
    <2>2. OfPlugin' = OfPlugin /\ Draggable' = Draggable /\ Here' = Here
          /\ \A o \in Option : \A v : (Drawn(o, v))' = Drawn(o, v)
      BY <2>1, SameWidgets DEF menu
    <2>3. TypeOK'
      BY <1>1, <2>1, <2>2 DEF MenuInv, TypeOK, sdl, menu, ui, update
    <2>4. WindowsMatch' /\ FocusIsVisible'
      BY <2>1, <2>2 DEF MenuInv, WindowsMatch, FocusIsVisible, sdl, menu, ui, update
    <2>5. CopyIsStored' /\ CopyIsBuilt' /\ WantedIsKept'
      BY <2>1, <2>2 DEF MenuInv, CopyIsStored, CopyIsBuilt, WantedIsKept, menu, ui, OfPlugin
    <2> QED BY <2>3, <2>4, <2>5 DEF MenuInv
  <1>5. ASSUME NEW p \in OfPlugin, NEW v \in Value, PluginSets(p, v) PROVE MenuInv'
    <2>1. /\ record' = [record EXCEPT ![p] = v] /\ wanted' = [wanted EXCEPT ![p] = Unset]
          /\ elsewhere' = IF "Plugins" \in pages THEN elsewhere \cup {p} ELSE {}
          /\ UNCHANGED <<running, widget, sdl, file, changed, menu, ui, copy, update, cut>>
          /\ p \in Option
      BY <1>5 DEF PluginSets, OfPlugin
    <2>2. OfPlugin' = OfPlugin /\ Draggable' = Draggable /\ Here' = Here
          /\ \A o \in Option : \A x : (Drawn(o, x))' = Drawn(o, x)
      BY <2>1, SameWidgets DEF menu
    <2>3. TypeOK'
      BY <2>1, <2>2 DEF MenuInv, TypeOK, sdl, menu, ui, update
    <2>4. WindowsMatch' /\ FocusIsVisible'
      BY <2>1, <2>2 DEF MenuInv, WindowsMatch, FocusIsVisible, sdl, menu, ui, update
    <2>5. CopyIsStored'
      BY <2>1, <2>2 DEF MenuInv, TypeOK, CopyIsStored, menu, ui, OfPlugin
    <2>6. CopyIsBuilt' /\ WantedIsKept'
      BY <2>1, <2>2 DEF MenuInv, TypeOK, CopyIsBuilt, WantedIsKept, menu, ui
    <2> QED BY <2>3, <2>4, <2>5, <2>6 DEF MenuInv
  <1> QED BY <1>2, <1>3, <1>4, <1>5

-----------------------------------------------------------------------------
(* Widgets get new values. *)

(* The options of `os` were clicked, released or scrolled; the others show   *)
(* what they showed.  What the user chose is a value that drawing keeps.     *)
LEMMA EditStep ==
  ASSUME MenuInv, shown, NEW os, os \subseteq Here, NEW val \in [Option -> Value],
         Edit(os, val),
         \A o \in Option \ os : val[o] = Visible(o),
         \A o \in os : val[o] # Visible(o) => Drawn(o, val[o]) = val[o],
         UNCHANGED <<running, widget, sdl, menu, tall, update>>,
         file' \in [Option -> Value], changed' \in BOOLEAN, drag' \in BOOLEAN,
         focus' \subseteq Here, click' \subseteq Option \cup {List[1]},
         focus' \cap Draggable \subseteq click', focus \ focus' \subseteq os
  PROVE  MenuInv'
  <1>1. OfPlugin' = OfPlugin /\ Draggable' = Draggable /\ Here' = Here
        /\ \A o \in Option : \A v : (Drawn(o, v))' = Drawn(o, v)
    BY SameWidgets DEF menu
  <1>2. /\ Here \subseteq Option /\ OfPlugin \subseteq Option
        /\ \A o \in Option : Visible(o) = IF o \in OfPlugin THEN copy[o] ELSE record[o]
        /\ \A o \in OfPlugin : copy[o] \in Value
    BY DEF Here, OfPlugin, Visible, MenuInv, CopyIsBuilt
  <1>3. /\ record' \in [Option -> Value]
        /\ \A o \in Option : record'[o] = IF o \in OfPlugin /\ o \notin os THEN record[o] ELSE val[o]
    BY DEF Edit, Persisted, MenuInv, TypeOK
  <1>4. /\ copy' \in [Option -> Value \cup {Unset}]
        /\ \A o \in Option : copy'[o] = IF o \in OfPlugin THEN val[o] ELSE Unset
    BY DEF Edit
  <1>5. /\ wanted' \in [Option -> Value \cup {Unset}]
        /\ \A o \in Option : wanted'[o] = IF val[o] # Visible(o) THEN val[o] ELSE wanted[o]
    BY DEF Edit, MenuInv, TypeOK
  <1>6. cut' = {o \in cut : o \notin Option \/ val[o] = Visible(o)} /\ elsewhere' = elsewhere \ os
    BY DEF Edit
  <1>7. TypeOK'
    BY <1>1, <1>2, <1>3, <1>4, <1>5, <1>6 DEF MenuInv, TypeOK, sdl, menu, update
  <1>8. WindowsMatch' /\ FocusIsVisible'
    BY <1>1 DEF MenuInv, WindowsMatch, FocusIsVisible, sdl, menu, update
  <1>9. CopyIsStored'
    <2> SUFFICES ASSUME NEW o \in OfPlugin
                 PROVE  \/ copy'[o] \in {record'[o], Drawn(o, record'[o])}
                        \/ o \in focus' \cap Draggable
                        \/ o \in elsewhere'
      BY <1>1, <1>2, <1>3 DEF CopyIsStored, menu
    <2>1. "Plugins" \in pages
      BY DEF MenuInv, WindowsMatch
    <2>2. CASE o \in os
      BY <1>2, <1>3, <1>4, <2>2
    <2>3. CASE o \notin os
      BY <1>2, <1>3, <1>4, <1>6, <2>1, <2>3 DEF MenuInv, CopyIsStored
    <2> QED BY <2>2, <2>3
  <1>10. CopyIsBuilt'
    BY <1>1, <1>2, <1>4 DEF CopyIsBuilt
  <1>11. WantedIsKept'
    <2> SUFFICES ASSUME NEW o \in Option, wanted'[o] # Unset, o \notin cut'
                 PROVE  /\ Drawn(o, wanted'[o]) = wanted'[o]
                        /\ o \in OfPlugin => copy'[o] = wanted'[o]
                        /\ record'[o] = wanted'[o] \/ (o \in OfPlugin /\ o \in focus' \cap Draggable)
      BY <1>1, <1>5 DEF WantedIsKept, menu
    <2>1. CASE val[o] # Visible(o)
      BY <1>2, <1>3, <1>4, <1>5, <2>1
    <2>2. CASE val[o] = Visible(o)
      <3>1. wanted'[o] = wanted[o] /\ o \notin cut
        BY <1>5, <1>6, <2>2
      <3>2. /\ Drawn(o, wanted[o]) = wanted[o]
            /\ o \in OfPlugin => copy[o] = wanted[o]
            /\ record[o] = wanted[o] \/ (o \in OfPlugin /\ o \in focus \cap Draggable)
        BY <3>1 DEF MenuInv, WantedIsKept
      <3> QED BY <1>2, <1>3, <1>4, <2>2, <3>1, <3>2
    <2> QED BY <2>1, <2>2
  <1> QED BY <1>7, <1>8, <1>9, <1>10, <1>11 DEF MenuInv

(* Each element that is hit belongs to a widget of this page.                *)
LEMMA HitIsHere ==
  ASSUME MenuAssumption, MenuInv, NEW e \in Element \cup {Unset}, NEW over, over \subseteq tall \cap Here,
         NEW x \in HitBy(e, over), x # List
  PROVE  /\ x[1] \in Here /\ x[1] \in Option
         /\ Opens(x) => x[1] \in Draggable \/ x[2] = "dropdown"
  <1>1. Here \subseteq Option
    BY DEF Here
  <1>2. CASE x \in {e} \ {Unset} /\ OnPage(x) /\ Has(x)
    <2>1. x[1] \in Here
      BY <1>2 DEF OnPage
    <2>2. x[2] \in Parts[KindOf(x[1])] /\ KindOf(x[1]) \in Kind
      BY <1>1, <1>2, <2>1 DEF Has, MenuInv, TypeOK, KindOf, MenuAssumption
    <2>3. \A k \in Kind : "slider" \in Parts[k] => k \in {"slider", "detents"}
      <3>1. /\ Parts["check"] = {"label", "check"} /\ Parts["dropdown"] = {"label", "dropdown"}
            /\ Parts["tick"] = {"label", "tickLabel", "tickLeft", "tickRight"}
        BY DEF Parts
      <3> QED BY <3>1 DEF Kind
    <2> QED BY <1>1, <2>1, <2>2, <2>3 DEF Opens, Draggable
  <1>3. CASE x \in {<<o, "dropdown">> : o \in over}
    BY <1>1, <1>3 DEF Opens
  <1> QED BY <1>2, <1>3 DEF HitBy

(* A click changes a value only to one that is offered. *)
LEMMA ClickedIsOffered ==
  ASSUME MenuAssumption, NEW x, NEW at \in Range(Offered) \cup {Unset}
  PROVE  ClickedValue(x, at) \in Range(Offered) \cup {Visible(x[1])}
  <1>1. \A v : TickLeft(v) \in Range(Offered) /\ TickRight(v) \in Range(Offered)
               /\ Toggled(v) \in Range(Offered)
    BY OfferedByWidgets
  <1> QED BY <1>1 DEF ClickedValue

LEMMA VisibleIsValue ==
  ASSUME MenuInv, shown
  PROVE  Values \in [Option -> Value] /\ \A o \in Option : Visible(o) \in Value /\ Values[o] = Visible(o)
  BY DEF Values, Visible, MenuInv, TypeOK, CopyIsBuilt

LEMMA DownStep ==
  ASSUME MenuAssumption, MenuInv, NEW e \in Element \cup {Unset}, NEW over \in SUBSET tall,
         NEW at \in Range(Offered) \cup {Unset}, Down(e, over, at)
  PROVE  MenuInv'
  <1> DEFINE es == HitBy(e, over)
             first == CHOOSE o \in Exclusive : TRUE
             taken == IF Exclusive = {} THEN es ELSE {x \in es : x[1] = first}
             ws == {x \in taken : x # List}
             os == {x[1] : x \in ws}
             val == [o \in Option |-> IF \E x \in ws : x[1] = o
                                       THEN ClickedValue(CHOOSE x \in ws : x[1] = o, at)
                                       ELSE Visible(o)]
  <1>1. /\ shown /\ over \subseteq tall \cap Here
        /\ drag' \in {drag, TRUE}
        /\ UNCHANGED <<running, widget, sdl, file, changed, menu, update>>
        /\ Edit(os, val) /\ tall' = tall
        /\ focus' = (focus \ {x[1] : x \in {y \in ws : Closes(y)}})
                      \cup {x[1] : x \in {y \in ws : Opens(y)}}
        /\ click' = click \cup ({x[1] : x \in taken} \cap ({List[1]} \cup OfPlugin \cup Draggable))
    BY DEF Down, Click, InMenu
  <1>2. \A x \in ws : x \in HitBy(e, over) /\ x # List /\ x \in taken
    OBVIOUS
  <1> HIDE DEF es, first, taken, ws
  <1>3. \A x \in ws : x[1] \in Here /\ x[1] \in Option
    BY <1>1, <1>2, HitIsHere
  <1>4. os \subseteq Here
    BY <1>3
  <1>5. /\ Range(Offered) \subseteq Value
        /\ \A v \in Range(Offered), o \in Option : Drawn(o, v) = v
    BY OfferedValues DEF Drawn
  <1>6. \A o \in Option : Visible(o) \in Value
    BY <1>1, VisibleIsValue
  <1>7. \A o \in os : val[o] \in Range(Offered) \cup {Visible(o)}
    <2> SUFFICES ASSUME NEW o \in os
                 PROVE  val[o] \in Range(Offered) \cup {Visible(o)}
      OBVIOUS
    <2>1. PICK y \in ws : y[1] = o
      OBVIOUS
    <2> DEFINE z == CHOOSE x \in ws : x[1] = o
    <2>2. z \in ws /\ z[1] = o
      BY <2>1
    <2>3. o \in Option
      BY <1>3, <2>1
    <2>4. val[o] = ClickedValue(z, at)
      BY <2>1, <2>3
    <2> QED BY <2>2, <2>4, ClickedIsOffered
  <1>8. \A o \in Option \ os : val[o] = Visible(o)
    OBVIOUS
  <1>9. val \in [Option -> Value]
    <2> SUFFICES ASSUME NEW o \in Option PROVE val[o] \in Value
      OBVIOUS
    <2> HIDE DEF val, os
    <2> QED BY <1>5, <1>6, <1>7, <1>8
  <1>10. \A o \in os : val[o] # Visible(o) => Drawn(o, val[o]) = val[o]
    <2> HIDE DEF val
    <2> QED BY <1>3, <1>5, <1>7
  <1> HIDE DEF val
  <1>11. focus' \subseteq Here /\ focus \ focus' \subseteq os
    BY <1>1, <1>3 DEF MenuInv, FocusIsVisible
  <1>12. click' \subseteq Option \cup {List[1]}
    BY <1>1 DEF MenuInv, TypeOK, OfPlugin, Draggable
  <1>13. focus' \cap Draggable \subseteq click'
    <2> SUFFICES ASSUME NEW o \in focus' \cap Draggable PROVE o \in click'
      OBVIOUS
    <2>1. CASE o \in focus
      <3>1. o \in Draggable
        OBVIOUS
      <3> QED BY <1>1, <2>1 DEF MenuInv, FocusIsVisible
    <2>2. CASE o \notin focus
      <3>1. PICK x \in ws : x[1] = o
        BY <1>1, <2>2
      <3> QED BY <1>1, <1>2, <3>1
    <2> QED BY <2>1, <2>2
  <1>14. file' \in [Option -> Value] /\ changed' \in BOOLEAN /\ drag' \in BOOLEAN
    BY <1>1 DEF MenuInv, TypeOK
  <1> PICK S : S = os
    OBVIOUS
  <1> PICK w : w = val
    OBVIOUS
  <1>15. /\ S \subseteq Here /\ w \in [Option -> Value] /\ Edit(S, w)
         /\ \A q \in Option \ S : w[q] = Visible(q)
         /\ \A q \in S : w[q] # Visible(q) => Drawn(q, w[q]) = w[q]
         /\ focus \ focus' \subseteq S
    BY <1>1, <1>4, <1>8, <1>9, <1>10, <1>11
  <1>16. shown /\ UNCHANGED <<running, widget, sdl, menu, tall, update>>
    BY <1>1
  <1> HIDE DEF os
  <1> QED BY <1>16, <1>11, <1>12, <1>13, <1>14, <1>15, EditStep

LEMMA UpStep ==
  ASSUME MenuInv, Up
  PROVE  MenuInv'
  <1> DEFINE os == click \cap Here
  <1>1. /\ shown /\ Edit(os, Values) /\ focus' = focus \ (os \cap Draggable)
        /\ UNCHANGED <<running, widget, sdl, menu, tall, update>>
        /\ click' \subseteq click /\ drag' \in {drag, FALSE}
        /\ file' = file \/ file' = record'
        /\ changed' \in {changed, TRUE}
    BY DEF Up, InMenu
  <1>2. Values \in [Option -> Value] /\ \A o \in Option : Values[o] = Visible(o)
    BY <1>1, VisibleIsValue
  <1>3. record' \in [Option -> Value]
    BY <1>1, <1>2 DEF Edit, Persisted, MenuInv, TypeOK
  <1>4. focus' \subseteq Here /\ focus' \cap Draggable \subseteq click' /\ focus \ focus' \subseteq os
    BY <1>1 DEF MenuInv, FocusIsVisible
  <1>5. /\ file' \in [Option -> Value] /\ changed' \in BOOLEAN /\ drag' \in BOOLEAN
        /\ click' \subseteq Option \cup {List[1]}
    BY <1>1, <1>3 DEF MenuInv, TypeOK
  <1>6. os \subseteq Here /\ Here \subseteq Option
    BY DEF Here
  <1> HIDE DEF os
  <1> QED BY <1>1, <1>2, <1>4, <1>5, <1>6, EditStep

LEMMA WheelStep ==
  ASSUME MenuAssumption, MenuInv, NEW e \in Element, NEW d \in {-1, 1}, Wheel(e, d)
  PROVE  MenuInv'
  <1> DEFINE o == e[1]
             new == IF e[2] # "slider" THEN Values[o]
                    ELSE IF KindOf(o) = "slider" THEN SliderScrolled(Values[o], d)
                                                 ELSE DetentsScrolled(Values[o], d)
             val == [Values EXCEPT ![o] = new]
  <1>1. /\ shown /\ e # List /\ OnPage(e) /\ Has(e) /\ Edit({o}, val)
        /\ UNCHANGED <<running, widget, sdl, file, changed, menu, ui, update>>
    BY DEF Wheel, InMenu
  <1>2. o \in Here /\ o \in Option
    BY <1>1 DEF OnPage, Here
  <1>3. Values \in [Option -> Value] /\ \A q \in Option : Values[q] = Visible(q) /\ Visible(q) \in Value
    BY <1>1, VisibleIsValue
  <1>4. new \in Value /\ (new # Visible(o) => Drawn(o, new) = new)
    <2>1. CASE e[2] # "slider"
      BY <1>2, <1>3, <2>1
    <2>2. CASE e[2] = "slider" /\ KindOf(o) = "slider"
      BY <1>2, <1>3, <2>2, ScrolledIsValue DEF Drawn
    <2>3. CASE e[2] = "slider" /\ KindOf(o) # "slider"
      <3>1. new \in Range(Offered)
        BY <2>3, OfferedByWidgets
      <3> QED BY <3>1, OfferedValues DEF Drawn
    <2> QED BY <2>1, <2>2, <2>3
  <1> HIDE DEF new
  <1>5. val \in [Option -> Value] /\ val[o] = new /\ \A q \in Option \ {o} : val[q] = Visible(q)
    BY <1>2, <1>3, <1>4
  <1> HIDE DEF val
  <1>6. /\ file' \in [Option -> Value] /\ changed' \in BOOLEAN /\ drag' \in BOOLEAN
        /\ focus' = focus /\ focus \subseteq Here /\ focus \cap Draggable \subseteq click /\ tall' = tall
        /\ click' = click /\ click \subseteq Option \cup {List[1]}
    BY <1>1 DEF MenuInv, TypeOK, FocusIsVisible, ui
  <1>7. focus \ focus' \subseteq {o} /\ focus' \cap Draggable \subseteq click'
    BY <1>6
  <1> PICK os : os = {o}
    OBVIOUS
  <1> PICK w : w = val
    OBVIOUS
  <1>8. /\ os \subseteq Here /\ w \in [Option -> Value] /\ Edit(os, w)
        /\ \A q \in Option \ os : w[q] = Visible(q)
        /\ \A q \in os : w[q] # Visible(q) => Drawn(q, w[q]) = w[q]
        /\ focus \ focus' \subseteq os
    BY <1>1, <1>2, <1>4, <1>5, <1>7
  <1> HIDE DEF o
  <1> QED BY <1>1, <1>6, <1>7, <1>8, EditStep

LEMMA DrawStep ==
  ASSUME MenuAssumption, MenuInv, Draw
  PROVE  MenuInv'
  <1>1. PICK at \in [Here \cap focus \cap Draggable -> Value] :
          /\ record' = Persisted({}, [o \in Option |->
                         IF o \in DOMAIN at THEN at[o]
                         ELSE IF o \in Here THEN Drawn(o, Visible(o)) ELSE Visible(o)])
          /\ copy' = [o \in Option |-> IF o \in OfPlugin THEN
                         IF o \in DOMAIN at THEN at[o]
                         ELSE IF o \in Here THEN Drawn(o, Visible(o)) ELSE Visible(o)
                       ELSE Unset]
          /\ wanted' = [o \in Option |-> IF o \in DOMAIN at THEN at[o] ELSE wanted[o]]
          /\ cut' = cut \ DOMAIN at
    BY DEF Draw
  <1> DEFINE held == Here \cap focus \cap Draggable
             Shows(o) == IF o \in held THEN at[o]
                         ELSE IF o \in Here THEN Drawn(o, Visible(o)) ELSE Visible(o)
  <1>2. DOMAIN at = held /\ \A o \in held : at[o] \in Value /\ Drawn(o, at[o]) = at[o]
    BY DEF Drawn, Draggable
  <1>3. /\ shown /\ tall' \subseteq tall \cup Option
        /\ UNCHANGED <<running, widget, sdl, file, changed, menu, focus, click, drag, update, elsewhere>>
    BY DEF Draw, Here
  <1>4. OfPlugin' = OfPlugin /\ Draggable' = Draggable /\ Here' = Here
        /\ \A o \in Option : \A v : (Drawn(o, v))' = Drawn(o, v)
    BY <1>3, SameWidgets DEF menu
  <1>5. /\ Here \subseteq Option /\ OfPlugin \subseteq Option
        /\ \A o \in Option : /\ Visible(o) \in Value
                            /\ Visible(o) = IF o \in OfPlugin THEN copy[o] ELSE record[o]
    BY <1>3, VisibleIsValue DEF Here, OfPlugin, Visible
  <1>6. \A o \in Option, v \in Value : Drawn(o, v) \in Value /\ Drawn(o, Drawn(o, v)) = Drawn(o, v)
    BY OfferedValues DEF Drawn
  <1>7. \A o \in Option : Shows(o) \in Value
    BY <1>2, <1>5, <1>6
  <1> HIDE DEF held
  <1>8. /\ record' \in [Option -> Value]
        /\ \A o \in Option : record'[o] = IF o \in OfPlugin THEN record[o] ELSE Shows(o)
    BY <1>1, <1>2, <1>7 DEF Persisted, MenuInv, TypeOK
  <1>9. /\ copy' \in [Option -> Value \cup {Unset}]
        /\ \A o \in Option : copy'[o] = IF o \in OfPlugin THEN Shows(o) ELSE Unset
    BY <1>1, <1>2, <1>7
  <1>10. /\ wanted' \in [Option -> Value \cup {Unset}]
         /\ \A o \in Option : wanted'[o] = IF o \in held THEN at[o] ELSE wanted[o]
         /\ cut' = cut \ held
    BY <1>1, <1>2 DEF MenuInv, TypeOK
  <1>11. TypeOK'
    BY <1>3, <1>4, <1>8, <1>9, <1>10 DEF MenuInv, TypeOK, sdl, menu, update
  <1>12. WindowsMatch' /\ FocusIsVisible'
    BY <1>3, <1>4 DEF MenuInv, WindowsMatch, FocusIsVisible, sdl, menu, update
  <1>13. CopyIsStored'
    <2> SUFFICES ASSUME NEW o \in OfPlugin
                 PROVE  \/ copy'[o] \in {record'[o], Drawn(o, record'[o])}
                        \/ o \in focus \cap Draggable
                        \/ o \in elsewhere
      BY <1>3, <1>4, <1>5, <1>8 DEF CopyIsStored, menu
    <2>1. "Plugins" \in pages
      BY <1>3 DEF MenuInv, WindowsMatch
    <2>2. CASE o \in held
      BY <2>2 DEF held
    <2>3. CASE o \notin held
      <3>1. copy'[o] \in {copy[o], Drawn(o, copy[o])} /\ record'[o] = record[o] /\ record[o] \in Value
        BY <1>5, <1>8, <1>9, <2>3 DEF MenuInv, TypeOK
      <3> QED BY <1>5, <1>6, <2>1, <3>1 DEF MenuInv, CopyIsStored
    <2> QED BY <2>2, <2>3
  <1>14. CopyIsBuilt'
    BY <1>4, <1>5, <1>7, <1>9 DEF CopyIsBuilt
  <1>15. WantedIsKept'
    <2> SUFFICES ASSUME NEW o \in Option, wanted'[o] # Unset, o \notin cut'
                 PROVE  /\ Drawn(o, wanted'[o]) = wanted'[o]
                        /\ o \in OfPlugin => copy'[o] = wanted'[o]
                        /\ record'[o] = wanted'[o] \/ (o \in OfPlugin /\ o \in focus \cap Draggable)
      BY <1>3, <1>4, <1>10 DEF WantedIsKept, menu
    <2>1. CASE o \in held
      <3>1. o \in focus \cap Draggable
        BY <2>1 DEF held
      <3> QED BY <1>2, <1>8, <1>9, <1>10, <2>1, <3>1
    <2>2. CASE o \notin held
      <3>1. wanted'[o] = wanted[o] /\ o \notin cut
        BY <1>10, <2>2
      <3>2. /\ Drawn(o, wanted[o]) = wanted[o]
            /\ o \in OfPlugin => copy[o] = wanted[o]
            /\ record[o] = wanted[o] \/ (o \in OfPlugin /\ o \in focus \cap Draggable)
        BY <1>3, <3>1 DEF MenuInv, WantedIsKept
      <3> QED BY <1>5, <1>8, <1>9, <2>2, <3>1, <3>2
    <2> QED BY <2>1, <2>2
  <1> QED BY <1>11, <1>12, <1>13, <1>14, <1>15 DEF MenuInv

LEMMA ArrowStep ==
  ASSUME MenuAssumption, MenuInv, NEW d \in {-1, 1}, Arrow(d)
  PROVE  MenuInv'
  <1>1. /\ shown /\ Exclusive = {} /\ current' = pageAtOffset(current, d)
        /\ pages' = pages \cup {current'}
        /\ UNCHANGED <<running, widget, sdl, store, shown, ui, copy, update, hist>>
    BY DEF Arrow, InMenu
  <1>2. current' \in Page
    BY <1>1, ArrowsStay DEF MenuInv, TypeOK
  <1>3. focus = {}
    BY <1>1 DEF MenuInv, FocusIsVisible, Exclusive
  <1>4. OfPlugin' = OfPlugin /\ Draggable' = Draggable
        /\ \A o \in Option : \A v : (Drawn(o, v))' = Drawn(o, v)
    BY <1>1, SameWidgets
  <1>5. TypeOK'
    BY <1>1, <1>2, <1>4 DEF MenuInv, TypeOK, sdl, store, ui, update, hist
  <1>6. WindowsMatch' /\ FocusIsVisible'
    BY <1>1, <1>3 DEF MenuInv, WindowsMatch, FocusIsVisible, sdl, ui, update
  <1>7. CopyIsStored'
    BY <1>1, <1>4 DEF MenuInv, WindowsMatch, CopyIsStored, store, ui, hist, OfPlugin
  <1>8. CopyIsBuilt' /\ WantedIsKept'
    BY <1>1, <1>4 DEF MenuInv, CopyIsBuilt, WantedIsKept, store, ui, hist
  <1> QED BY <1>5, <1>6, <1>7, <1>8 DEF MenuInv

LEMMA MenuNext ==
  ASSUME MenuAssumption, MenuInv, [Next]_vars
  PROVE  MenuInv'
  <1>1. CASE \E w \in Window : KeyM(w) \/ KeyQ(w) \/ CloseRequest(w)
    BY <1>1, KeySteps
  <1>2. CASE \/ \E w \in Window : Enter(w) \/ Leave(w)
             \/ Throws \/ Checked \/ Announce \/ Dismiss \/ UNCHANGED vars
    BY <1>2, WindowSteps
  <1>3. CASE (\E w \in Window : KeyS(w)) \/ SaveButton
    BY <1>3, SaveSteps
  <1>4. CASE \E e \in Element \cup {Unset}, over \in SUBSET tall, at \in Range(Offered) \cup {Unset} :
               Down(e, over, at)
    BY <1>4, DownStep
  <1>5. CASE Up
    BY <1>5, UpStep
  <1>6. CASE \E e \in Element, d \in {-1, 1} : Wheel(e, d)
    BY <1>6, WheelStep
  <1>7. CASE Arrow(1) \/ Arrow(-1)
    BY <1>7, ArrowStep
  <1>8. CASE Draw
    BY <1>8, DrawStep
  <1>9. CASE \/ Reload \/ FileButton \/ (\E f \in Files : UserEdit(f))
             \/ \E o \in OfPlugin, v \in Value : PluginSets(o, v)
    BY <1>9, OutsideSteps
  <1>10. CASE Ended
    BY <1>10, WindowSteps DEF Ended
  <1> QED BY <1>1, <1>2, <1>3, <1>4, <1>5, <1>6, <1>7, <1>8, <1>9, <1>10, Zenon DEF Next

LEMMA MenuIsInvariant == Spec => []MenuInv
  <1>1. Init => MenuInv
    BY MenuInit, MenuAssumption
  <1>2. MenuInv /\ [Next]_vars => MenuInv'
    BY MenuNext, MenuAssumption
  <1> QED BY <1>1, <1>2, PTL DEF Spec

-----------------------------------------------------------------------------
(* Options, copies, windows and pages keep their types. *)
THEOREM TypeCorrect == Spec => []TypeOK
  <1>1. MenuInv => TypeOK
    BY DEF MenuInv
  <1> QED BY <1>1, MenuIsInvariant, PTL

(* Menu and announcement are shown exactly while their windows exist.        *)
THEOREM WindowsMatchShown == Spec => []WindowsMatch
  <1>1. MenuInv => WindowsMatch
    BY DEF MenuInv
  <1> QED BY <1>1, MenuIsInvariant, PTL

(* No widget that is out of sight, or was let go, keeps the clicks to itself. *)
THEOREM MenuAnswers == Spec => []FocusIsVisible
  <1>1. MenuInv => FocusIsVisible
    BY DEF MenuInv
  <1> QED BY <1>1, MenuIsInvariant, PTL

(* The plugins' page shows what the plugins get.                             *)
THEOREM CopiesAreStored == Spec => []CopyIsStored
  <1>1. MenuInv => CopyIsStored
    BY DEF MenuInv
  <1> QED BY <1>1, MenuIsInvariant, PTL

(* Closing the menu, in whatever way, has saved what the user chose in it.   *)
THEOREM ClosingSaves == Spec => []ClosedIsSaved
  <1>1. MenuInv => ClosedIsSaved
    BY DEF MenuInv, WantedIsKept, ClosedIsSaved
  <1> QED BY <1>1, MenuIsInvariant, PTL

=============================================================================
