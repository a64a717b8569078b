-------------------------------- MODULE Menu --------------------------------
(***************************************************************************)
(* The SDL windows, the settings menu with its pages and widgets, and the  *)
(* window that announces an update, driven by the events of the main loop. *)
(*                                                                         *)
(* A schema page edits Config::options in place.  The page of the plugins  *)
(* edits copies of the options' values, which each of its widgets writes   *)
(* back after a click, a release or a turn of the wheel.                   *)
(*                                                                         *)
(* Where a widget lies is left out: an event says what the mouse is over.  *)
(* A dropdown that is open is tall and covers what lies below it; its      *)
(* height follows only when the next frame is drawn.                       *)
(***************************************************************************)
EXTENDS Integers, Sequences, SequencesExt

CONSTANTS
  PageOrder,  (* the pages, in the order of the two arrows                *)
  Option,     (* options that the menu shows                              *)
  Widgets,    (* ways to give each option a page and a kind of widget     *)
  Extra,      (* windows of visualizers beside the main one               *)
  MaxValue,   (* bound: values are 0 .. MaxValue                          *)
  Offered,    (* the choices or detents, in ascending order               *)
  Like,       (* for each value the choice that it is written as, or itself *)
  Files,      (* contents of config.yml                                   *)
  Unset       (* no value                                                 *)

Value == 0 .. MaxValue
Page  == Range(PageOrder)
Kind  == {"check", "slider", "detents", "dropdown", "tick"}

ASSUME MenuAssumption ==
  /\ PageOrder \in Seq(STRING) /\ IsInjective(PageOrder)
  /\ {"Visualizers", "Plugins"} \subseteq Page
  /\ Widgets \subseteq [Option -> [page : Page, kind : Kind]]
  /\ Extra \cap {"main", "menu", "update"} = {}
  /\ MaxValue \in Nat /\ Unset \notin Value
  /\ Offered \in Seq(Value) /\ Offered # <<>>
  /\ Like \in [Value -> Value] /\ \A i \in DOMAIN Offered : Like[Offered[i]] = Offered[i]
  /\ \A v \in Value : Like[v] \in {v} \cup Range(Offered)
  /\ Files \subseteq [Option -> Value]

Parts == [check    |-> {"label", "check"},
          slider   |-> {"label", "slider"},
          detents  |-> {"label", "slider"},
          dropdown |-> {"label", "dropdown"},
          tick     |-> {"label", "tickLabel", "tickLeft", "tickRight"}]

VARIABLES
  running,   \* the main loop runs
  widget,    \* the page and kind of each option; never changes
  windows,   \* SDLWindow::states
  mouse,     \* the windows that are marked focused
  record,    \* Config::options and pluginOptions
  file,      \* config.yml
  changed,   \* the watch has an event
  shown,     \* ConfigWindow::shown
  pages,     \* the pages that are built
  current,   \* currentPage
  focus,     \* options whose widget is focused
  tall,      \* dropdowns whose rectangle covers their choices
  click,     \* what is marked clicked and does something on the release
  drag,      \* dragState.active
  copy,      \* the plugins' page's copies
  check,     \* the update thread: "asks", "found" (its event is queued), "ended"
  announced, \* UpdaterWindow::shown
  wanted,    \* history: the value that the user last chose in the menu
  cut,       \* history: plugin sliders that were held when the menu closed
  elsewhere  \* history: options that changed under the copy of the page

sdl    == <<windows, mouse>>
store  == <<record, file, changed>>
menu   == <<shown, pages, current>>
ui     == <<focus, tall, click, drag>>
update == <<check, announced>>
hist   == <<wanted, cut, elsewhere>>
vars == <<running, widget, sdl, store, menu, ui, copy, update, hist>>

OfPlugin  == {o \in Option : widget[o].page = "Plugins"}
KindOf(o) == widget[o].kind

Window == {"main", "menu", "update"} \cup Extra
List   == <<"list", "list">>      \* the list of visualizers
Element == {<<o, p>> : o \in Option, p \in UNION {Parts[k] : k \in Kind}} \cup {List}

TypeOK ==
  /\ running \in BOOLEAN /\ widget \in Widgets
  /\ windows \subseteq Window /\ mouse \subseteq windows
  /\ record \in [Option -> Value] /\ file \in [Option -> Value] /\ changed \in BOOLEAN
  /\ shown \in BOOLEAN /\ pages \subseteq Page /\ current \in Page
  /\ focus \subseteq Option /\ tall \subseteq Option
  /\ click \subseteq Option \cup {List[1]} /\ drag \in BOOLEAN
  /\ copy \in [Option -> Value \cup {Unset}]
  /\ check \in {"asks", "found", "ended"} /\ announced \in BOOLEAN
  /\ wanted \in [Option -> Value \cup {Unset}]
  /\ cut \subseteq OfPlugin /\ elsewhere \subseteq OfPlugin

Init ==
  /\ running = TRUE /\ widget \in Widgets
  /\ windows = {"main"} /\ mouse = {}
  /\ file \in Files /\ record = file /\ changed = FALSE
  /\ shown = FALSE /\ pages = {} /\ current = PageOrder[1]
  /\ focus = {} /\ tall = {} /\ click = {} /\ drag = FALSE
  /\ copy = [o \in Option |-> Unset]
  /\ check = "asks" /\ announced = FALSE
  /\ wanted = [o \in Option |-> Unset] /\ cut = {} /\ elsewhere = {}

-----------------------------------------------------------------------------
(* Values under the widgets. *)

Place(x, s) == CHOOSE i \in DOMAIN s : s[i] = x
IsOffered(v) == v \in Range(Offered)

pageAtOffset(p, d) == PageOrder[((Place(p, PageOrder) - 1 + d) % Len(PageOrder)) + 1]

(* The arrows of a tick widget go round; a value that is not offered is left *)
(* for the last and for the first.                                           *)
TickLeft(v) ==
  IF ~IsOffered(v) \/ v = Head(Offered) THEN Last(Offered) ELSE Offered[Place(v, Offered) - 1]
TickRight(v) ==
  IF ~IsOffered(v) \/ v = Last(Offered) THEN Head(Offered) ELSE Offered[Place(v, Offered) + 1]

Clamped(x, lo, hi) == IF x < lo THEN lo ELSE IF x > hi THEN hi ELSE x

(* FAULT: the wheel passes the end of a slider. *)
ScrolledOver(v, d) == v + d
SliderScrolled(v, d) == Clamped(v + d, 0, MaxValue)

DetentsScrolled(v, d) ==
  LET i == IF IsOffered(v) THEN Place(v, Offered) ELSE 1
  IN  Offered[Clamped(i + d, 1, Len(Offered))]

(* A check switches between two values. *)
Toggled(v) == IF v = Head(Offered) THEN Last(Offered) ELSE Head(Offered)

(* The values that dragging a slider passes. *)
Reach(o) == IF KindOf(o) = "slider" THEN Value ELSE Range(Offered)

(* What drawing the widget makes of a value. *)
Drawn(o, v) == IF KindOf(o) \in {"dropdown", "tick"} THEN Like[v] ELSE v

-----------------------------------------------------------------------------
(* The page that is shown. *)

Here      == {o \in Option : widget[o].page = current}
Has(e)    == e = List \/ e[2] \in Parts[KindOf(e[1])]
OnPage(e) == IF e = List THEN current = "Visualizers" ELSE e[1] \in Here
Draggable == {o \in Option : KindOf(o) \in {"slider", "detents"}}

Visible(o) == IF o \in OfPlugin THEN copy[o] ELSE record[o]

(* FAULT: an open dropdown or a held slider does not take all clicks. *)
Shared    == {}
Exclusive == focus \cap Here

(* FAULT: the widgets of the plugins' page keep what they were set to. *)
KeepsRecord(os, val) == [o \in Option |-> IF o \in OfPlugin THEN record[o] ELSE val[o]]
(* The record after these widgets have got new values and those of `os`      *)
(* were clicked, released or scrolled.                                       *)
Persisted(os, val) ==
  [o \in Option |-> IF o \in OfPlugin THEN IF o \in os THEN val[o] ELSE record[o]
                    ELSE val[o]]

(* The widgets show `val`; the user chose what differs from before. *)
Edit(os, val) ==
  LET chosen == {o \in Option : val[o] # Visible(o)} IN
  /\ record' = Persisted(os, val)
  /\ copy' = [o \in Option |-> IF o \in OfPlugin THEN val[o] ELSE Unset]
  /\ wanted' = [o \in Option |-> IF o \in chosen THEN val[o] ELSE wanted[o]]
  /\ cut' = cut \ chosen
  /\ elsewhere' = elsewhere \ os

Values == [o \in Option |-> Visible(o)]

-----------------------------------------------------------------------------
(* Opening, closing, saving, loading. *)

(* FAULT: closing the menu does not save. *)
WritesNothing == file
Writes        == record

Save == file' = Writes /\ changed' = TRUE /\ UNCHANGED record

(* toggle() when shown; deinit() frees the pages. *)
CloseMenu ==
  /\ Save
  /\ shown' = FALSE /\ pages' = {} /\ UNCHANGED current
  /\ focus' = {} /\ tall' = {} /\ click' = {} /\ UNCHANGED drag
  /\ copy' = [o \in Option |-> Unset]
  /\ cut' = cut \cup (focus \cap OfPlugin \cap Draggable)
  /\ elsewhere' = {} /\ UNCHANGED wanted

Created(w) == windows' = windows \cup {w} /\ UNCHANGED mouse

(* toggle() when not shown; init() builds three pages. *)
OpenMenu ==
  /\ Created("menu")
  /\ shown' = TRUE /\ pages' = {current, "Visualizers", "Plugins"} /\ UNCHANGED current
  /\ copy' = [o \in Option |-> IF o \in OfPlugin THEN record[o] ELSE Unset]
  /\ UNCHANGED <<store, ui, hist>>

Gone(ws) == windows' = windows \ ws /\ mouse' = mouse \ ws

(* FAULT: a reload destroys every window that is not in the layout. *)
AllButMain == Window \ {"main"}
Removable  == Extra

(* A file is loaded and the program reconfigured: its windows are those that *)
(* the layout of the file has.                                               *)
Loads(f) ==
  /\ record' = f
  /\ \E ws \in SUBSET Extra : windows' = (windows \ Removable) \cup ws
  /\ mouse' = mouse \cap windows'
  /\ wanted' = [o \in Option |-> Unset]
  /\ elsewhere' = IF "Plugins" \in pages
                  THEN elsewhere \cup {o \in OfPlugin : f[o] # record[o]} ELSE {}
  /\ UNCHANGED <<menu, ui, copy, cut>>

-----------------------------------------------------------------------------
(* Events.  SDLWindow::handleEvent comes first and ignores windows that are  *)
(* gone; ConfigWindow::handleEvent and UpdaterWindow::handleEvent do not ask *)
(* whose event it is.                                                        *)

Enter(w) == /\ running /\ mouse = {} /\ w \in windows
            /\ mouse' = {w}
            /\ UNCHANGED <<running, widget, windows, store, menu, ui, copy, update, hist>>
Leave(w) == /\ running /\ w \in mouse
            /\ mouse' = mouse \ {w}
            /\ UNCHANGED <<running, widget, windows, store, menu, ui, copy, update, hist>>

InMenu == running /\ shown /\ "menu" \in mouse

KeyM(w) ==
  /\ running /\ w \in windows
  /\ IF shown THEN CloseMenu /\ Gone({"menu"}) ELSE OpenMenu
  /\ UNCHANGED <<running, widget, update>>

KeyS(w) ==
  /\ running /\ w \in windows
  /\ Save
  /\ UNCHANGED <<running, widget, sdl, menu, ui, copy, update, hist>>

KeyQ(w) ==
  /\ running /\ w \in Window
  /\ running' = (w # "main")
  /\ IF InMenu THEN CloseMenu /\ Gone({"menu"})
     ELSE UNCHANGED <<sdl, store, menu, ui, copy, hist>>
  /\ UNCHANGED <<widget, update>>

(* Whichever window is closed, the menu and the announcement close with it. *)
CloseRequest(w) ==
  /\ running /\ w \in Window
  /\ running' = (w # "main")
  /\ Gone((IF shown THEN {"menu"} ELSE {}) \cup (IF announced THEN {"update"} ELSE {}))
  /\ IF shown THEN CloseMenu ELSE UNCHANGED <<store, menu, ui, copy, hist>>
  /\ announced' = FALSE
  /\ UNCHANGED <<widget, check>>

(* A window cannot be created or the file not written: the loop ends. *)
Throws ==
  /\ running /\ running' = FALSE
  /\ UNCHANGED <<widget, sdl, store, menu, ui, copy, update, hist>>

-----------------------------------------------------------------------------
(* The mouse in the menu. *)

(* The element that the mouse is over, if any, and the tall dropdowns over   *)
(* it; `at` is the choice of such a dropdown, Unset its box.                 *)
HitBy(e, over) == {x \in {e} \ {Unset} : OnPage(x) /\ Has(x)}
                  \cup {<<o, "dropdown">> : o \in over}

(* What clicked() makes of value and focus of an option. *)
ClickedValue(e, at) ==
  LET o == e[1] IN LET v == Visible(o) IN
  CASE e[2] = "check"     -> Toggled(v)
    [] e[2] = "tickLeft"  -> TickLeft(v)
    [] e[2] = "tickRight" -> TickRight(v)
    [] e[2] = "dropdown" /\ o \in focus /\ o \in tall /\ at # Unset -> at
    [] OTHER -> v
Opens(e)  == \/ e[2] = "slider"
             \/ e[2] = "dropdown" /\ e[1] \notin focus
Closes(e) == e[2] = "dropdown" /\ e[1] \in focus

(* The handlers of these elements run. *)
Click(es, at) ==
  LET ws == {e \in es : e # List} IN
  /\ Edit({e[1] : e \in ws},
          [o \in Option |-> IF \E e \in ws : e[1] = o
                            THEN ClickedValue(CHOOSE e \in ws : e[1] = o, at)
                            ELSE Visible(o)])
  /\ focus' = (focus \ {e[1] : e \in {x \in ws : Closes(x)}})
              \cup {e[1] : e \in {x \in ws : Opens(x)}}
  /\ click' = click \cup ({e[1] : e \in es} \cap ({List[1]} \cup OfPlugin \cup Draggable))
  /\ UNCHANGED tall

(* A focused element gets the click alone, or nobody does. *)
Down(e, over, at) ==
  /\ InMenu
  /\ over \subseteq tall \cap Here
  /\ LET es == HitBy(e, over)
         first == CHOOSE o \in Exclusive : TRUE
         taken == IF Exclusive = {} THEN es ELSE {x \in es : x[1] = first}
     IN  /\ taken # {} /\ Click(taken, at)
         /\ IF List \in taken THEN drag' \in {drag, TRUE} ELSE UNCHANGED drag
  /\ UNCHANGED <<running, widget, sdl, file, changed, menu, update>>

(* Everything marked clicked on this page: sliders let go, the widgets of    *)
(* plugins write back, and the list drops what was dragged.                  *)
Up ==
  /\ InMenu
  /\ LET os == click \cap Here IN
     /\ Edit(os, Values)
     /\ focus' = focus \ (os \cap Draggable)
     /\ click' = IF OnPage(List) THEN click \ (os \cup {List[1]}) ELSE click \ os
     /\ IF List[1] \in click /\ OnPage(List) /\ drag
        THEN /\ drag' = FALSE
             /\ \/ UNCHANGED <<file, changed>>
                \/ file' = record' /\ changed' = TRUE
        ELSE UNCHANGED <<drag, file, changed>>
  /\ UNCHANGED <<running, widget, sdl, menu, tall, update>>

(* The wheel over a slider or over any widget of a plugin. *)
Wheel(e, d) ==
  /\ InMenu /\ e \in Element \ {List} /\ OnPage(e) /\ Has(e)
  /\ LET o == e[1] IN
     /\ e[2] = "slider" \/ o \in OfPlugin
     /\ Edit({o}, [Values EXCEPT ![o] =
          IF e[2] # "slider" THEN @
          ELSE IF KindOf(o) = "slider" THEN SliderScrolled(@, d) ELSE DetentsScrolled(@, d)])
  /\ UNCHANGED <<running, widget, sdl, file, changed, menu, ui, update>>

(* The arrows change the page and build it. *)
Arrow(d) ==
  /\ InMenu /\ Exclusive = {}
  /\ current' = pageAtOffset(current, d)
  /\ pages' = pages \cup {current'}
  /\ UNCHANGED <<running, widget, sdl, store, shown, ui, copy, update, hist>>

(* "Save" says that it has saved even when it could not. *)
SaveButton ==
  /\ InMenu /\ Exclusive = {}
  /\ Save \/ UNCHANGED store
  /\ UNCHANGED <<running, widget, sdl, menu, ui, copy, update, hist>>

(* "Load default" and "Restore latest" write the file and load it. *)
FileButton ==
  /\ InMenu /\ Exclusive = {}
  /\ \E f \in Files : file' = f /\ Loads(f)
  /\ changed' \in BOOLEAN
  /\ UNCHANGED <<running, widget, update>>

(* A frame: rectangles are updated, held sliders follow the mouse, and texts *)
(* that match a choice but for their case are rewritten.                     *)
Draw ==
  /\ running /\ shown
  /\ \E at \in [Here \cap focus \cap Draggable -> Value] :
       /\ \A o \in DOMAIN at : at[o] \in Reach(o)
       /\ LET val == [o \in Option |-> IF o \in DOMAIN at THEN at[o]
                                       ELSE IF o \in Here THEN Drawn(o, Visible(o))
                                       ELSE Visible(o)]
          IN  /\ record' = Persisted({}, val)
              /\ copy' = [o \in Option |-> IF o \in OfPlugin THEN val[o] ELSE Unset]
              /\ wanted' = [o \in Option |-> IF o \in DOMAIN at THEN at[o] ELSE wanted[o]]
              /\ cut' = cut \ DOMAIN at
  /\ tall' = (tall \ Here) \cup {o \in focus \cap Here : KindOf(o) = "dropdown"}
  /\ UNCHANGED <<running, widget, sdl, file, changed, menu, focus, click, drag, update, elsewhere>>

-----------------------------------------------------------------------------
(* The rest of the program. *)

Reload ==
  /\ running /\ changed
  /\ changed' = FALSE /\ Loads(file)
  /\ UNCHANGED <<running, widget, file, update>>

UserEdit(f) ==
  /\ running
  /\ file' = f /\ changed' = TRUE
  /\ wanted' = [o \in Option |-> Unset]
  /\ UNCHANGED <<running, widget, sdl, record, menu, ui, copy, update, cut, elsewhere>>

(* setConfigOption(), in a callback. *)
PluginSets(o, v) ==
  /\ running /\ o \in OfPlugin /\ v # record[o]
  /\ record' = [record EXCEPT ![o] = v]
  /\ wanted' = [wanted EXCEPT ![o] = Unset]
  /\ elsewhere' = IF "Plugins" \in pages THEN elsewhere \cup {o} ELSE {}
  /\ UNCHANGED <<running, widget, sdl, file, changed, menu, ui, copy, update, cut>>

(* The update thread answers: nothing new, no answer, or an event. *)
Checked ==
  /\ check = "asks"
  /\ check' \in {"found", "ended"}
  /\ UNCHANGED <<running, widget, sdl, store, menu, ui, copy, announced, hist>>

Announce ==
  /\ running /\ check = "found"
  /\ check' = "ended" /\ announced' = TRUE
  /\ Created("update")
  /\ UNCHANGED <<running, widget, store, menu, ui, copy, hist>>

(* "OK" in the announcement. *)
Dismiss ==
  /\ running /\ announced /\ "update" \in mouse
  /\ announced' = FALSE /\ Gone({"update"})
  /\ UNCHANGED <<running, widget, store, menu, ui, copy, check, hist>>

(* UpdaterWindow::cleanup() joins the thread, and the process ends. *)
Ended == ~running /\ check # "asks" /\ UNCHANGED vars

Next ==
  \/ \E w \in Window : Enter(w) \/ Leave(w) \/ KeyM(w) \/ KeyS(w) \/ KeyQ(w) \/ CloseRequest(w)
  \/ \E e \in Element \cup {Unset}, over \in SUBSET tall, at \in Range(Offered) \cup {Unset} :
       Down(e, over, at)
  \/ Up \/ (\E e \in Element, d \in {-1, 1} : Wheel(e, d))
  \/ Arrow(1) \/ Arrow(-1) \/ SaveButton \/ FileButton \/ Draw
  \/ Reload \/ (\E f \in Files : UserEdit(f)) \/ (\E o \in OfPlugin, v \in Value : PluginSets(o, v))
  \/ Checked \/ Announce \/ Dismiss \/ Throws \/ Ended

Spec == Init /\ [][Next]_vars

-----------------------------------------------------------------------------
(* The menu and the announcement are shown exactly while their windows       *)
(* exist, whatever closes them and whatever a reload does to the windows; a  *)
(* menu that is not shown keeps no page, and the page shown is built.        *)
WindowsMatch ==
  /\ shown <=> "menu" \in windows
  /\ announced <=> "update" \in windows
  /\ "main" \in windows
  /\ shown => {current, "Visualizers", "Plugins"} \subseteq pages
  /\ ~shown => pages = {} /\ focus = {} /\ click = {}

(* An element that takes all clicks is on the page that is shown, and the    *)
(* next release of the button lets go of a slider that is held, even if the  *)
(* first release was lost: the menu never stops to answer.                   *)
FocusIsVisible ==
  /\ focus \subseteq Here
  /\ focus \cap Draggable \subseteq click

(* What the plugins' page shows is what the plugin gets, unless a slider is  *)
(* being dragged or the option was changed elsewhere since.                  *)
CopyIsStored == \A o \in OfPlugin : "Plugins" \in pages =>
  \/ copy[o] \in {record[o], Drawn(o, record[o])}
  \/ o \in focus \cap Draggable
  \/ o \in elsewhere

(* Once the menu is closed, the file holds what the user last chose in it,   *)
(* but for a plugin's slider that was still held.                            *)
ClosedIsSaved == ~shown => \A o \in Option :
  wanted[o] # Unset => file[o] = wanted[o] \/ o \in cut
=============================================================================
