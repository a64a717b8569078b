------------------------------ MODULE PluginLife ------------------------------
(* What the host promises its plugins (docs/PLUGINS.md, "Plugin Lifecycle"): *)
(* init once after loading, then start once, then any number of events,      *)
(* frames and reloads, then stop once, then no call at all.  Nobody is       *)
(* served before everybody was started, and nobody is stopped while another  *)
(* is still to be served.  One plugin is called at a time.                   *)
CONSTANTS Plugin, Nobody

VARIABLES
  life,   \* how far each plugin has come
  inside  \* the plugin whose code runs

vars == <<life, inside>>

Init == life = [p \in Plugin |-> "absent"] /\ inside = Nobody

Enter(p, from, to) == /\ inside = Nobody /\ inside' = p
                      /\ life[p] = from
                      /\ life' = [life EXCEPT ![p] = to]
Leave(p, from, to) == /\ inside = p /\ inside' = Nobody
                      /\ life[p] = from
                      /\ life' = [life EXCEPT ![p] = to]

Skip(p) == /\ inside = Nobody
           /\ life[p] = "absent"
           /\ life' = [life EXCEPT ![p] = "out"]
           /\ UNCHANGED inside

Initialise(p) == Enter(p, "absent", "initialising")
Accept(p)     == Leave(p, "initialising", "ready")
Reject(p)     == Leave(p, "initialising", "out")
Start(p)      == Enter(p, "ready", "starting")
Started(p)    == Leave(p, "starting", "running")

Serve(p)  == /\ \A q \in Plugin : life[q] \in {"out", "running"}
             /\ Enter(p, "running", "running")
Served(p) == Leave(p, "running", "running")

Stop(p)    == /\ \A q \in Plugin : life[q] \in {"out", "running", "gone"}
              /\ Enter(p, "running", "stopping")
Stopped(p) == Leave(p, "stopping", "gone")

Next == \E p \in Plugin :
  \/ Skip(p) \/ Initialise(p) \/ Accept(p) \/ Reject(p)
  \/ Start(p) \/ Started(p) \/ Serve(p) \/ Served(p) \/ Stop(p) \/ Stopped(p)

Spec == Init /\ [][Next]_vars
=============================================================================
