---------------------------- MODULE MCThemeWatch ----------------------------
(* ThemeWatch with two themes. *)
EXTENDS ThemeWatch
MCThemes == {"mocha", "latte"}
=============================================================================
