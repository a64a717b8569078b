------------------------------- MODULE MCMenu -------------------------------
(* One option, on a schema page or of a plugin, with every kind of widget; 1 *)
(* and 2 are offered, 0 is another spelling of 1.                            *)
EXTENDS Menu

MCPageOrder == <<"Audio", "Visualizers", "Plugins">>
MCWidgets == [Option -> [page : {"Audio"}, kind : {"dropdown", "detents"}]
                        \cup [page : {"Plugins"}, kind : {"slider", "dropdown", "tick", "check"}]]
MCOffered == <<1, 2>>
MCLike == [v \in Value |-> IF v = 0 THEN 1 ELSE v]
MCFiles == {[o \in Option |-> 2], [o \in Option |-> 0]}
=============================================================================
