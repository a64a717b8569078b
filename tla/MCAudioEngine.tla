---------------------------- MODULE MCAudioEngine ----------------------------
EXTENDS AudioEngine

(* Linux with either server or both, and Windows. *)
AllBuilds == {{"pulse"}, {"pipewire"}, {"pulse", "pipewire"}, {"wasapi"}}
Plugged   == {"mic", "tv"}
Wished    == {"mic", "gone"}
=============================================================================
