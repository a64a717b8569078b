CONSTANTS
  Plugin = {"p", "q"}
  Key <- MCKey
  Provides <- MCProvides
  Layouts <- MCLayouts
  Builtin = {"vu"}
  Value = {"d", "v"}
  Default = "d"
  Nothing = "none"
  Nobody = "nobody"
  MaxEdits = 1
SPECIFICATION Spec
INVARIANTS TypeOK HarmIsKnown UnreadIsPending
PROPERTY ImplementsPluginLife
