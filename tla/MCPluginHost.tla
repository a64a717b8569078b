---------------------------- MODULE MCPluginHost ----------------------------
(* Two plugins with one key; "p" has a visualizer of its own and one that    *)
(* takes the id of a visualizer of the program.                              *)
EXTENDS PluginHost

MCKey == [x \in Plugin |-> "k"]
MCProvides == [x \in Plugin |-> IF x = "p" THEN {"vu", "extra"} ELSE {}]
MCLayouts == {{"vu"}, {"vu", "extra"}}
=============================================================================
