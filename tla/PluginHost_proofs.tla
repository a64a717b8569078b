--------------------------- MODULE PluginHost_proofs ---------------------------
(***************************************************************************)
(* Proofs about PluginHost, for every set of plugins, whatever keys they    *)
(* take, visualizers they provide and layouts the user writes.              *)
(***************************************************************************)
EXTENDS PluginHost, FiniteSetTheorems, FunctionTheorems, TLAPS

-----------------------------------------------------------------------------
(* The registry. *)

(* A set of natural numbers that is not empty has a least element. *)
LEMMA SmallestExists ==
  ASSUME NEW S, S \subseteq Nat, S # {}
  PROVE  \E j \in S : \A l \in S : j <= l
  <1> DEFINE R == {ss \in Nat \X Nat : ss[1] < ss[2]}
  <1>1. IsWellFoundedOn(R, Nat)
    BY NatLessThanWellFounded DEF OpToRel
  <1>2. \A j, l \in Nat : <<l, j>> \notin R => j <= l
    OBVIOUS
  <1> HIDE DEF R
  <1>3. PICK j \in S : \A l \in S : <<l, j>> \notin R
    BY <1>1, WFMin
  <1> QED BY <1>2, <1>3

(* Every visualizer of the program is in the sequence that registers them. *)
LEMMA BuiltinsOfType ==
  ASSUME HostAssumption
  PROVE  /\ BuiltinsOf \in Seq(Visualizer)
         /\ \A j \in DOMAIN BuiltinsOf : BuiltinsOf[j].owner = Host
         /\ \A i \in Builtin : \E j \in DOMAIN BuiltinsOf : BuiltinsOf[j].id = i
  <1> DEFINE S == {[id |-> i, owner |-> Host] : i \in Builtin}
             n == Cardinality(S)
             f == [i \in Builtin |-> [id |-> i, owner |-> Host]]
  <1>1. IsFiniteSet(S)
    <2>1. f \in Surjection(Builtin, S)
      BY DEF Surjection
    <2>2. IsFiniteSet(Builtin)
      BY DEF HostAssumption
    <2> HIDE DEF f, S
    <2> QED BY <2>1, <2>2, FS_Surjection
  <1>2. n \in Nat /\ ExistsBijection(1 .. n, S)
    BY <1>1, FS_CardinalityType
  <1>3. BuiltinsOf \in [1 .. n -> S] /\ IsInjective(BuiltinsOf)
    <2>1. PICK g \in Bijection(1 .. n, S) : TRUE
      BY <1>2 DEF ExistsBijection
    <2>2. g \in [1 .. n -> S] /\ IsInjective(g)
      BY <2>1 DEF Bijection, Injection
    <2>3. BuiltinsOf = CHOOSE h \in [1 .. n -> S] : IsInjective(h)
      BY DEF BuiltinsOf, SetToSeq
    <2> HIDE DEF S, n
    <2> QED BY <2>2, <2>3
  <1>4. BuiltinsOf \in Surjection(1 .. n, S)
    <2>1. BuiltinsOf \in Injection(1 .. n, S)
      BY <1>3 DEF Injection
    <2>2. Cardinality(1 .. n) = n
      <3>1. 1 \in Int /\ n \in Int /\ (1 > n => n = 0) /\ n - 1 + 1 = n
        BY <1>2
      <3> QED BY <3>1, FS_Interval
    <2> HIDE DEF S
    <2> QED BY <1>1, <2>1, <2>2, FS_Injection
  <1>5. S \subseteq Visualizer
    BY DEF Visualizer, Ids
  <1>6. BuiltinsOf \in Seq(Visualizer)
    <2> HIDE DEF S, n
    <2>1. BuiltinsOf \in [1 .. n -> Visualizer]
      BY <1>3, <1>5
    <2> QED BY <1>2, <2>1
  <1>7. \A j \in DOMAIN BuiltinsOf : BuiltinsOf[j].owner = Host
    BY <1>3
  <1>8. ASSUME NEW i \in Builtin
        PROVE  \E j \in DOMAIN BuiltinsOf : BuiltinsOf[j].id = i
    <2>1. [id |-> i, owner |-> Host] \in S
      OBVIOUS
    <2>2. PICK j \in 1 .. n : BuiltinsOf[j] = [id |-> i, owner |-> Host]
      BY <1>4, <2>1 DEF Surjection
    <2>3. BuiltinsOf[j].id = i
      BY <2>2
    <2> HIDE DEF S
    <2>4. j \in DOMAIN BuiltinsOf
      BY <1>3
    <2> QED BY <2>3, <2>4
  <1> QED BY <1>6, <1>7, <1>8

LEMMA KnownType ==
  ASSUME HostAssumption, TypeOK
  PROVE  /\ Known \in Seq(Visualizer)
         /\ \A j \in DOMAIN Known : Known[j].owner = Host \/ Known[j] \in Range(registry)
         /\ (builtins => \A i \in Builtin : \E j \in DOMAIN registry : registry[j].id = i)
              => \A i \in Builtin : \E j \in DOMAIN Known : Known[j].id = i
  <1>1. registry \in Seq(Visualizer)
    BY DEF TypeOK
  <1>2. CASE builtins
    BY <1>1, <1>2 DEF Known, Range
  <1>3. CASE ~builtins
    <2> DEFINE B == BuiltinsOf
    <2>1. /\ B \in Seq(Visualizer)
          /\ \A j \in DOMAIN B : B[j].owner = Host
          /\ \A i \in Builtin : \E j \in DOMAIN B : B[j].id = i
      BY BuiltinsOfType
    <2> HIDE DEF B
    <2>2. Known = registry \o B
      BY <1>3 DEF Known, B
    <2>3. Known \in Seq(Visualizer) /\ Len(Known) = Len(registry) + Len(B)
      BY <1>1, <2>1, <2>2
    <2>4. \A j \in DOMAIN Known : IF j <= Len(registry) THEN Known[j] = registry[j]
                                                      ELSE Known[j] = B[j - Len(registry)]
      BY <1>1, <2>1, <2>2
    <2>5. ASSUME NEW j \in DOMAIN Known
          PROVE  Known[j].owner = Host \/ Known[j] \in Range(registry)
      <3>1. CASE j <= Len(registry)
        BY <1>1, <2>3, <2>4, <3>1 DEF Range
      <3>2. CASE ~(j <= Len(registry))
        <4>1. j - Len(registry) \in DOMAIN B
          BY <1>1, <2>1, <2>3, <3>2
        <4> QED BY <2>1, <2>4, <3>2, <4>1
      <3> QED BY <3>1, <3>2
    <2>6. ASSUME NEW i \in Builtin
          PROVE  \E j \in DOMAIN Known : Known[j].id = i
      <3>1. PICK k \in DOMAIN B : B[k].id = i
        BY <2>1
      <3>2. Len(registry) + k \in DOMAIN Known /\ ~(Len(registry) + k <= Len(registry))
            /\ (Len(registry) + k) - Len(registry) = k
        BY <1>1, <2>1, <2>3, <3>1
      <3> QED BY <2>4, <3>1, <3>2
    <2> QED BY <2>3, <2>5, <2>6
  <1> QED BY <1>2, <1>3 DEF TypeOK

(* Looking up an id gives nobody's slot, or a visualizer that is known. *)
LEMMA FindType ==
  ASSUME HostAssumption, TypeOK, NEW i \in Ids
  PROVE  /\ Find(i) \in Slot /\ Find(i).id = i
         /\ Find(i).owner = Nobody =>
              \A j \in DOMAIN Known : Known[j].id # i
         /\ Find(i).owner \in {Nobody, Host} \/ Find(i) \in Range(registry)
  <1> DEFINE js == {j \in DOMAIN Known : Known[j].id = i}
  <1>1. Known \in Seq(Visualizer)
        /\ \A j \in DOMAIN Known : Known[j].owner = Host \/ Known[j] \in Range(registry)
    BY KnownType
  <1>2. CASE js = {}
    <2>1. Find(i) = [id |-> i, owner |-> Nobody]
      BY <1>2 DEF Find
    <2> QED BY <1>2, <2>1 DEF Slot
  <1>3. CASE js # {}
    <2> DEFINE m == CHOOSE j \in js : \A l \in js : j <= l
    <2>1. m \in js
      <3>1. js \subseteq Nat
        BY <1>1
      <3> HIDE DEF js
      <3>2. \E j \in js : \A l \in js : j <= l
        BY <1>3, <3>1, SmallestExists
      <3> QED BY <3>2
    <2>2. Find(i) = Known[m]
      BY <1>3 DEF Find
    <2> HIDE DEF m
    <2>3. Known[m] \in Visualizer /\ Known[m].id = i
      BY <1>1, <2>1
    <2>4. Known[m] \in Slot /\ Known[m].owner # Nobody
      BY <2>3 DEF Visualizer, Slot, HostAssumption
    <2> QED BY <1>1, <2>1, <2>2, <2>3, <2>4
  <1> QED BY <1>2, <1>3

-----------------------------------------------------------------------------
(* Type correctness. *)

OptionMap == [Keys -> Value \cup {Nothing}]
HarmSet   == [what : {"call", "null", "save"}, on : Slot]
PcSet     == Passes \cup {"loading", "configuring", "layout", "top", "events",
                          "releasing", "unregistering", "ended"}

(* The parts of the type invariant that the actions disturb. *)
ControlType == pc \in PcSet /\ queue \in Seq(Plugin) /\ inside \in Plugin \cup {Nobody}
               /\ dead \in BOOLEAN
LibsType    == /\ todo \subseteq Plugin /\ mapped \subseteq Plugin /\ failed \subseteq Plugin
               /\ plugins \in Seq(Plugin)
RegType     == registry \in Seq(Visualizer) /\ builtins \in BOOLEAN
ShownType   == tree \subseteq Slot /\ released \in BOOLEAN
DiskType    == /\ file \in OptionMap /\ layout \subseteq Ids /\ readable \in BOOLEAN
               /\ changed \in BOOLEAN /\ edits \in 0 .. MaxEdits
OptsType    == options \in OptionMap /\ unread \subseteq Keys /\ late \subseteq Keys
HarmType    == harm \subseteq HarmSet

LEMMA TypeParts ==
  TypeOK <=> /\ ControlType /\ LibsType /\ RegType /\ ShownType /\ DiskType
             /\ OptsType /\ HarmType
  BY Zenon DEF TypeOK, ControlType, LibsType, RegType, ShownType, DiskType, OptsType, HarmType,
               OptionMap, HarmSet, PcSet

LEMMA TypePartsNext ==
  TypeOK' <=> /\ ControlType' /\ LibsType' /\ RegType' /\ ShownType' /\ DiskType'
              /\ OptsType' /\ HarmType'
  BY Zenon DEF TypeOK, ControlType, LibsType, RegType, ShownType, DiskType, OptsType, HarmType,
               OptionMap, HarmSet, PcSet

LEMMA NoPlugins == <<>> \in Seq(Plugin) /\ <<>> \in Seq(Visualizer)
  OBVIOUS

(* What is left alone keeps its type. *)
LEMMA Unchanged ==
  /\ ControlType /\ UNCHANGED control => ControlType'
  /\ LibsType /\ UNCHANGED libs => LibsType'
  /\ RegType /\ UNCHANGED reg => RegType'
  /\ ShownType /\ UNCHANGED shown => ShownType'
  /\ DiskType /\ UNCHANGED disk => DiskType'
  /\ OptsType /\ UNCHANGED opts => OptsType'
  /\ HarmType /\ UNCHANGED harm => HarmType'
  BY DEF ControlType, LibsType, RegType, ShownType, DiskType, OptsType, HarmType,
         control, libs, reg, shown, disk, opts

LEMMA LoadType ==
  ASSUME HostAssumption, TypeOK, Load
  PROVE  RegType' /\ ShownType' /\ DiskType' /\ OptsType'
  <1>1. DiskType' /\ released' \in BOOLEAN
    BY DEF TypeOK, Load, DiskType, OptionMap
  <1>2. CASE ~readable
    BY <1>1, <1>2, TypeParts, Unchanged DEF Load, ShownType
  <1>3. CASE readable
    <2>1. RegType'
      BY <1>3, KnownType DEF Load, RegType
    <2>2. tree' \subseteq Slot
      <3>1. layout \subseteq Ids
        BY DEF TypeOK
      <3>2. tree' = {Find(i) : i \in layout}
        BY <1>3 DEF Load
      <3>3. \A i \in Ids : Find(i) \in Slot
        BY FindType
      <3> QED BY <3>1, <3>2, <3>3
    <2>3. OptsType'
      BY <1>3 DEF TypeOK, Load, OptsType, OptionMap
    <2> QED BY <1>1, <2>1, <2>2, <2>3 DEF ShownType
  <1> QED BY <1>2, <1>3

(* The damage of calls is of the known kinds. *)
LEMMA CallsType ==
  ASSUME NEW vs \in SUBSET Slot
  PROVE  CallsInto(vs) \subseteq HarmSet
  BY DEF CallsInto, HarmSet

LEMMA SavedType ==
  ASSUME HostAssumption, TypeOK, Saved
  PROVE  DiskType' /\ unread' \subseteq Keys /\ late' \subseteq Keys /\ HarmType'
         /\ dead' \in BOOLEAN
  <1>1. HarmType' /\ dead' \in BOOLEAN
    BY DEF Saved, Harm, Nulls, HarmType, HarmSet, TypeOK
  <1>2. layout' \subseteq Ids
    <2>1. \A v \in Slot : v.id \in Ids
      BY DEF Slot
    <2> QED BY <2>1 DEF Saved, TypeOK
  <1>3. DiskType'
    BY <1>2 DEF Saved, DiskType, TypeOK, OptionMap, Watched
  <1> QED BY <1>1, <1>3 DEF Saved, TypeOK

LEMMA LoadingType ==
  ASSUME TypeOK, NEW p \in Plugin, Skip(p) \/ LoadEntry(p) \/ InitSucceeds(p) \/ InitFails(p)
  PROVE  TypeOK'
  <1>1. ControlType'
    BY DEF Skip, LoadEntry, InitSucceeds, InitFails, TypeOK, ControlType, PcSet, control
  <1>2. plugins' \in Seq(Plugin)
    <2>1. plugins \in Seq(Plugin)
      BY DEF TypeOK
    <2>2. CASE LoadEntry(p)
      BY <2>1, <2>2 DEF LoadEntry
    <2>3. CASE InitFails(p)
      <3>1. plugins' = SubSeq(plugins, 1, Len(plugins) - 1)
        BY <2>3 DEF InitFails, Popped, Front
      <3>2. Len(plugins) - 1 <= Len(plugins) /\ Len(plugins) - 1 \in Int
        BY <2>1
      <3> QED BY <2>1, <3>1, <3>2
    <2>4. CASE Skip(p) \/ InitSucceeds(p)
      BY <2>1, <2>4 DEF Skip, InitSucceeds, libs
    <2> QED BY <2>2, <2>3, <2>4
  <1>3. LibsType'
    BY <1>2 DEF Skip, LoadEntry, InitSucceeds, InitFails, TypeOK, LibsType, libs
  <1>4. UNCHANGED <<reg, shown, disk, opts, harm>>
    BY DEF Skip, LoadEntry, InitSucceeds, InitFails
  <1> QED BY <1>1, <1>3, <1>4, TypeParts, TypePartsNext, Unchanged

LEMMA StartupType ==
  ASSUME HostAssumption, TypeOK, Configure \/ StartupFails \/ Layout
  PROVE  TypeOK'
  <1>1. CASE Configure
    <2>1. ControlType' /\ LibsType' /\ HarmType'
      BY <1>1 DEF Configure, TypeOK, ControlType, PcSet, LibsType, libs, HarmType, HarmSet
    <2>2. RegType' /\ ShownType' /\ DiskType' /\ OptsType'
      BY <1>1, LoadType, TypeParts, Unchanged DEF Configure
    <2> QED BY <2>1, <2>2, TypePartsNext
  <1>2. CASE StartupFails
    <2>1. ControlType'
      BY <1>2 DEF StartupFails, TypeOK, ControlType, PcSet
    <2> QED BY <1>2, <2>1, TypeParts, TypePartsNext, Unchanged DEF StartupFails
  <1>3. CASE Layout
    <2>1. HarmType' /\ dead' \in BOOLEAN
      BY <1>3, CallsType DEF Layout, Harm, HarmType, HarmSet, TypeOK
    <2>2. ControlType'
      BY <1>3, <2>1 DEF Layout, TypeOK, ControlType, PcSet, Passes
    <2> QED BY <1>3, <2>1, <2>2, TypeParts, TypePartsNext, Unchanged DEF Layout
  <1> QED BY <1>1, <1>2, <1>3

(* The pass after a pass that can end is again a place. *)
LEMMA AfterType ==
  ASSUME NEW x \in Passes \cup {"releasing", "unregistering"}
  PROVE  After[x] \in PcSet
  BY DEF After, Passes, PcSet

LEMMA PassType ==
  ASSUME TypeOK, Call \/ PassEnds \/ (\E p \in Plugin : Return(p))
  PROVE  TypeOK'
  <1>1. ControlType'
    <2>1. CASE Call
      <3>1. Head(queue) \in Plugin /\ Tail(queue) \in Seq(Plugin)
        BY <2>1 DEF Call, TypeOK
      <3> QED BY <2>1, <3>1 DEF Call, TypeOK, ControlType, PcSet
    <2>2. CASE PassEnds
      BY <2>2, AfterType DEF PassEnds, TypeOK, ControlType
    <2>3. CASE \E p \in Plugin : Return(p)
      BY <2>3 DEF Return, TypeOK, ControlType, PcSet
    <2> QED BY <2>1, <2>2, <2>3
  <1>2. LibsType'
    BY DEF Call, PassEnds, Return, TypeOK, LibsType, libs
  <1>3. UNCHANGED <<reg, shown, disk, opts, harm>>
    BY DEF Call, PassEnds, Return
  <1> QED BY <1>1, <1>2, <1>3, TypeParts, TypePartsNext, Unchanged

LEMMA ApiType ==
  ASSUME HostAssumption, TypeOK, NEW p \in Plugin,
         \/ \E i \in Ids : RegisterVisualizer(p, i)
         \/ RegisterOption(p) \/ (\E v \in Value : SetOption(p, v))
         \/ SaveConfig(p) \/ SaveThrows(p)
  PROVE  TypeOK'
  <1>1. CASE \E i \in Ids : RegisterVisualizer(p, i)
    <2> PICK i \in Ids : RegisterVisualizer(p, i)
      BY <1>1
    <2>1. [id |-> i, owner |-> p] \in Visualizer
      BY DEF Visualizer
    <2>2. RegType'
      BY <2>1 DEF RegisterVisualizer, Push, TypeOK, RegType
    <2> QED BY <2>2, TypeParts, TypePartsNext, Unchanged DEF RegisterVisualizer
  <1>2. CASE RegisterOption(p) \/ \E v \in Value : SetOption(p, v)
    <2>1. Key[p] \in Keys /\ Default \in Value
      BY DEF Keys, HostAssumption
    <2>2. OptsType'
      BY <1>2, <2>1 DEF RegisterOption, SetOption, TypeOK, OptsType, OptionMap
    <2>3. UNCHANGED <<control, libs, reg, shown, disk, harm>>
      BY <1>2 DEF RegisterOption, SetOption
    <2> QED BY <2>2, <2>3, TypeParts, TypePartsNext, Unchanged
  <1>3. CASE SaveConfig(p)
    <2>1. DiskType' /\ unread' \subseteq Keys /\ late' \subseteq Keys /\ HarmType'
          /\ dead' \in BOOLEAN
      BY <1>3, SavedType DEF SaveConfig
    <2>2. OptsType' /\ ControlType'
      BY <1>3, <2>1 DEF SaveConfig, TypeOK, OptsType, OptionMap, ControlType, PcSet
    <2> QED BY <1>3, <2>1, <2>2, TypeParts, TypePartsNext, Unchanged DEF SaveConfig
  <1>4. CASE SaveThrows(p)
    <2>1. ControlType'
      <3>1. queue' \in Seq(Plugin)
        <4>1. queue' = <<>> \/ queue' = queue
          BY <1>4 DEF SaveThrows
        <4> QED BY <4>1, NoPlugins DEF TypeOK
      <3> QED BY <1>4, <3>1 DEF SaveThrows, TypeOK, ControlType, PcSet
    <2> QED BY <1>4, <2>1, TypeParts, TypePartsNext, Unchanged DEF SaveThrows
  <1> QED BY <1>1, <1>2, <1>3, <1>4

LEMMA TopType ==
  ASSUME HostAssumption, TypeOK, Top
  PROVE  TypeOK'
  <1>1. CASE changed
    <2>1. RegType' /\ ShownType' /\ DiskType' /\ OptsType'
      BY <1>1, LoadType DEF Top
    <2>2. HarmType' /\ dead' \in BOOLEAN
      <3>1. CallsInto(tree') \subseteq HarmSet
        BY <2>1, CallsType DEF ShownType
      <3>2. Harm(CallsInto(tree'))
        BY <1>1 DEF Top
      <3> QED BY <3>1, <3>2, TypeParts DEF Harm, HarmType
    <2>3. queue' \in Seq(Plugin) /\ pc' \in PcSet /\ inside' = inside
      <3>1. queue' = plugins \/ queue' = <<>>
        BY <1>1 DEF Top
      <3>2. queue' \in Seq(Plugin)
        BY <3>1, NoPlugins DEF TypeOK
      <3> QED BY <1>1, <3>2 DEF Top, PcSet, Passes
    <2>4. ControlType' /\ LibsType'
      BY <2>2, <2>3 DEF Top, TypeOK, ControlType, LibsType, libs
    <2> QED BY <2>1, <2>2, <2>4, TypePartsNext
  <1>2. CASE ~changed
    <2>1. ControlType'
      BY <1>2 DEF Top, TypeOK, ControlType, PcSet
    <2> QED BY <1>2, <2>1, TypeParts, TypePartsNext, Unchanged DEF Top
  <1> QED BY <1>1, <1>2

LEMMA EventType ==
  ASSUME HostAssumption, TypeOK, Event
  PROVE  TypeOK'
  <1>1. /\ pc' = "event" /\ queue' = plugins /\ inside' = inside /\ UNCHANGED libs /\ UNCHANGED reg
    BY DEF Event
  <1>2. dead' \in BOOLEAN => ControlType'
    BY <1>1 DEF TypeOK, ControlType, PcSet, Passes
  <1>3. LibsType' /\ RegType'
    BY <1>1, TypeParts, Unchanged
  <1>4. CASE UNCHANGED <<shown, disk, opts, dead, harm>>
    BY <1>2, <1>3, <1>4, TypeParts, TypePartsNext, Unchanged DEF TypeOK
  <1>5. CASE \E i \in Ids : MenuMoves(i)
    <2> PICK i \in Ids : MenuMoves(i)
      BY <1>5
    <2>1. tree' \subseteq Slot /\ released' = released
      BY FindType DEF MenuMoves, TypeOK
    <2>2. layout' \subseteq Ids
      <3>1. \A v \in Slot : v.id \in Ids
        BY DEF Slot
      <3> QED BY <2>1, <3>1 DEF MenuMoves
    <2>3. DiskType'
      BY <2>2 DEF MenuMoves, DiskType, TypeOK, OptionMap
    <2>4. OptsType' /\ HarmType' /\ dead' \in BOOLEAN
      BY DEF MenuMoves, TypeOK, OptsType, OptionMap, HarmType, HarmSet
    <2> QED BY <1>2, <1>3, <2>1, <2>3, <2>4, TypePartsNext DEF ShownType, TypeOK
  <1>6. CASE \E k \in Keys, v \in Value : MenuSets(k, v)
    <2>1. OptsType' /\ dead' \in BOOLEAN /\ UNCHANGED <<shown, disk, harm>>
      BY <1>6 DEF MenuSets, TypeOK, OptsType, OptionMap
    <2> QED BY <1>2, <1>3, <2>1, TypeParts, TypePartsNext, Unchanged
  <1>7. CASE Saved /\ UNCHANGED <<shown, options>>
    <2>1. DiskType' /\ unread' \subseteq Keys /\ late' \subseteq Keys /\ HarmType'
          /\ dead' \in BOOLEAN
      BY <1>7, SavedType
    <2>2. OptsType'
      BY <1>7, <2>1 DEF TypeOK, OptsType, OptionMap
    <2> QED BY <1>2, <1>3, <1>7, <2>1, <2>2, TypeParts, TypePartsNext, Unchanged
  <1> QED BY <1>4, <1>5, <1>6, <1>7, Zenon DEF Event

LEMMA RestType ==
  ASSUME HostAssumption, TypeOK, Check \/ Release \/ Unregister \/ UserEdit \/ Ended
  PROVE  TypeOK'
  <1>1. CASE Check
    <2>1. HarmType' /\ dead' \in BOOLEAN
      BY <1>1, CallsType DEF Check, Harm, HarmType, HarmSet, TypeOK
    <2>2. ControlType'
      BY <1>1, <2>1 DEF Check, TypeOK, ControlType, PcSet, Passes
    <2> QED BY <1>1, <2>1, <2>2, TypeParts, TypePartsNext, Unchanged DEF Check
  <1>2. CASE Release
    <2>1. ControlType' /\ ShownType'
      BY <1>2, AfterType DEF Release, TypeOK, ControlType, ShownType
    <2>2. DiskType'
      BY <1>2 DEF Release, TypeOK, DiskType, OptionMap
    <2> QED BY <1>2, <2>1, <2>2, TypeParts, TypePartsNext, Unchanged DEF Release
  <1>3. CASE Unregister
    <2>1. Range(registry) \subseteq Slot
      <3>1. Range(registry) \subseteq Visualizer
        BY DEF TypeOK, Range
      <3> QED BY <3>1 DEF Visualizer, Slot
    <2>2. HarmType' /\ dead' \in BOOLEAN
      <3>1. CallsInto(Range(registry)) \subseteq HarmSet
        BY <2>1, CallsType
      <3> QED BY <1>3, <3>1, TypeParts DEF Unregister, Harm, HarmType
    <2>3. ControlType'
      BY <1>3, <2>2, AfterType DEF Unregister, TypeOK, ControlType
    <2>4. RegType'
      BY <1>3 DEF Unregister, TypeOK, RegType
    <2> QED BY <1>3, <2>2, <2>3, <2>4, TypeParts, TypePartsNext, Unchanged DEF Unregister
  <1>4. CASE UserEdit
    <2>1. edits' \in 0 .. MaxEdits /\ changed' \in BOOLEAN
      BY <1>4 DEF UserEdit, TypeOK, HostAssumption, Watched
    <2>2. file' \in OptionMap /\ layout' \subseteq Ids /\ readable' \in BOOLEAN
          /\ unread' \subseteq Keys
      <3>1. CASE \E k \in Keys, v \in Value : /\ file' = [file EXCEPT ![k] = v]
                                            /\ unread' = unread \cup {k}
                                            /\ readable' = TRUE /\ UNCHANGED layout
        BY <3>1 DEF TypeOK, OptionMap
      <3>2. CASE \E l \in Layouts : layout' = l /\ UNCHANGED <<file, unread, readable>>
        BY <3>2 DEF TypeOK, OptionMap, HostAssumption
      <3>3. CASE readable' = FALSE /\ UNCHANGED <<file, layout, unread>>
        BY <3>3 DEF TypeOK, OptionMap
      <3> QED BY <1>4, <3>1, <3>2, <3>3, Zenon DEF UserEdit
    <2>3. DiskType' /\ OptsType'
      BY <1>4, <2>1, <2>2 DEF UserEdit, DiskType, OptsType, TypeOK, OptionMap
    <2> QED BY <1>4, <2>3, TypeParts, TypePartsNext, Unchanged DEF UserEdit
  <1>5. CASE Ended
    BY <1>5, TypeParts, TypePartsNext, Unchanged DEF Ended, vars
  <1> QED BY <1>1, <1>2, <1>3, <1>4, <1>5

LEMMA InitType ==
  ASSUME HostAssumption, Init
  PROVE  TypeOK
  <1>1. options \in [Keys -> Value \cup {Nothing}] /\ layout \subseteq Ids /\ edits \in 0 .. MaxEdits
    BY DEF Init, HostAssumption
  <1>2. plugins \in Seq(Plugin) /\ queue \in Seq(Plugin) /\ registry \in Seq(Visualizer)
    BY NoPlugins DEF Init
  <1>3. pc \in PcSet /\ unread \subseteq Keys /\ harm = {} /\ tree = {}
    BY DEF Init, PcSet
  <1> QED BY <1>1, <1>2, <1>3 DEF Init, TypeOK, PcSet

(* The variables hold values of their kinds, and undefined behaviour is only *)
(* ever met in a call, at a null pointer or in a save.                       *)
THEOREM TypeCorrect == Spec => []TypeOK
  <1>1. Init => TypeOK
    BY InitType, HostAssumption
  <1>2. TypeOK /\ [Next]_vars => TypeOK'
    <2> SUFFICES ASSUME TypeOK, [Next]_vars PROVE TypeOK'
      OBVIOUS
    <2>1. CASE UNCHANGED vars
      BY <2>1, TypeParts, TypePartsNext, Unchanged DEF vars
    <2>2. CASE Next
      BY <2>2, HostAssumption, LoadingType, StartupType, PassType, ApiType, TopType, EventType,
         RestType, Zenon DEF Next
    <2> QED BY <2>1, <2>2
  <1> QED BY <1>1, <1>2, PTL DEF Spec

-----------------------------------------------------------------------------
(* Options of the file. *)

(* A load leaves unread what it cannot parse or what nobody registered. *)
LEMMA LoadPends ==
  ASSUME TypeOK, Load
  PROVE  \A k \in unread' : ~readable' \/ options'[k] = Nothing
  <1>1. CASE readable
    <2> SUFFICES ASSUME NEW k \in unread' PROVE options'[k] = Nothing
      OBVIOUS
    <2>1. k \in Keys /\ options[k] = Nothing
      BY <1>1 DEF Load, Reads, TypeOK
    <2>2. options'[k] = options[k]
      BY <1>1, <2>1 DEF Load, Reads
    <2> QED BY <2>1, <2>2
  <1>2. CASE ~readable
    BY <1>2 DEF Load
  <1> QED BY <1>1, <1>2

LEMMA Pending ==
  ASSUME TypeOK, UnreadIsPending, [Next]_vars
  PROVE  UnreadIsPending'
  <1> SUFFICES ASSUME NEW k \in unread', Watched'
               PROVE  changed' \/ ~readable' \/ k \in late' \/ options'[k] = Nothing
    BY DEF UnreadIsPending
  <1>1. CASE UNCHANGED <<disk, opts>> /\ Watched
    BY <1>1 DEF UnreadIsPending, disk, opts
  <1>2. CASE \E p \in Plugin : Skip(p) \/ LoadEntry(p) \/ InitSucceeds(p) \/ InitFails(p) \/ Return(p)
    <2>1. UNCHANGED <<disk, opts>> /\ Watched
      BY <1>2 DEF Skip, LoadEntry, InitSucceeds, InitFails, Return, control, Watched
    <2> QED BY <1>1, <2>1
  <1>3. CASE \E p \in Plugin : \E i \in Ids : RegisterVisualizer(p, i)
    <2>1. UNCHANGED <<disk, opts>> /\ Watched
      BY <1>3 DEF RegisterVisualizer, control, Watched
    <2> QED BY <1>1, <2>1
  <1>4. CASE \E p \in Plugin : RegisterOption(p)
    <2> PICK p \in Plugin : RegisterOption(p)
      BY <1>4
    <2>1. Watched /\ UNCHANGED <<disk, unread>> /\ pc # "loading"
      BY DEF RegisterOption, control, Watched
    <2>2. late' = late \cup {Key[p]} /\ options' = [options EXCEPT ![Key[p]] = Default]
      BY <2>1 DEF RegisterOption
    <2>3. CASE k = Key[p]
      BY <2>2, <2>3
    <2>4. CASE k # Key[p]
      <3>1. options'[k] = options[k]
        BY <2>2, <2>4
      <3> QED BY <2>1, <2>2, <3>1 DEF UnreadIsPending, disk
    <2> QED BY <2>3, <2>4
  <1>5. ASSUME NEW x, options[x] # Nothing, NEW v, Watched, UNCHANGED <<disk, unread, late>>,
               options' = [options EXCEPT ![x] = v]
        PROVE  changed' \/ ~readable' \/ k \in late' \/ options'[k] = Nothing
    <2>1. k # x => options'[k] = options[k]
      BY <1>5
    <2> QED BY <1>5, <2>1 DEF UnreadIsPending, disk
  <1>6. CASE \E p \in Plugin : \E v \in Value : SetOption(p, v)
    <2> PICK p \in Plugin, v \in Value : SetOption(p, v)
      BY <1>6
    <2>1. Watched
      BY DEF SetOption, control, Watched
    <2> QED BY <1>5, <2>1 DEF SetOption
  <1>7. CASE unread' = {}
    BY <1>7
  <1>8. CASE \E p \in Plugin : SaveConfig(p)
    BY <1>7, <1>8 DEF SaveConfig, Saved
  <1>9. CASE \E p \in Plugin : SaveThrows(p)
    <2>1. UNCHANGED <<disk, opts>> /\ Watched
      BY <1>9 DEF SaveThrows, Watched
    <2> QED BY <1>1, <2>1
  <1>10. CASE Load
    BY <1>10, LoadPends
  <1>11. CASE Configure
    BY <1>10, <1>11 DEF Configure, Watched
  <1>12. CASE StartupFails \/ Layout \/ Call \/ PassEnds \/ Check \/ Unregister
    <2>1. UNCHANGED <<disk, opts>> /\ Watched
      BY <1>12 DEF StartupFails, Layout, Call, PassEnds, Check, Unregister, Watched, After, Passes
    <2> QED BY <1>1, <2>1
  <1>13. CASE Top
    <2>1. CASE changed
      BY <1>10, <1>13, <2>1 DEF Top
    <2>2. CASE ~changed
      <3>1. UNCHANGED <<disk, opts>> /\ Watched
        BY <1>13, <2>2 DEF Top, Watched
      <3> QED BY <1>1, <3>1
    <2> QED BY <2>1, <2>2
  <1>14. CASE Event
    <2>1. Watched
      BY <1>14 DEF Event, Watched
    <2>2. CASE UNCHANGED <<shown, disk, opts, dead, harm>>
      BY <1>1, <2>1, <2>2
    <2>3. CASE (\E i \in Ids : MenuMoves(i)) \/ Saved
      BY <1>7, <2>3 DEF MenuMoves, Saved
    <2>4. CASE \E x \in Keys, v \in Value : MenuSets(x, v)
      BY <1>5, <2>1, <2>4 DEF MenuSets
    <2> QED BY <1>14, <2>2, <2>3, <2>4, Zenon DEF Event
  <1>15. CASE Release
    BY <1>15 DEF Release, Watched, After
  <1>16. CASE UserEdit
    <2>1. Watched /\ changed' = Watched
      BY <1>16 DEF UserEdit, Watched, control
    <2> QED BY <2>1
  <1>17. CASE UNCHANGED vars
    <2>1. UNCHANGED <<disk, opts>> /\ Watched
      BY <1>17 DEF vars, control, Watched
    <2> QED BY <1>1, <2>1
  <1>18. CASE Ended
    BY <1>17, <1>18 DEF Ended
  <1> QED BY <1>2, <1>3, <1>4, <1>6, <1>8, <1>9, <1>11, <1>12, <1>13, <1>14, <1>15, <1>16,
             <1>17, <1>18, Zenon DEF Next

(* What the file holds and memory does not is about to be loaded, cannot be  *)
(* parsed, or belongs to an option that was not registered at the last load. *)
THEOREM UnreadIsPendingHolds == Spec => []UnreadIsPending
  <1>1. Init => UnreadIsPending
    BY DEF Init, UnreadIsPending, Watched
  <1> QED BY <1>1, Pending, TypeCorrect, PTL DEF Spec

-----------------------------------------------------------------------------
(* Undefined behaviour. *)

(* Before the unloading, what main calls is mapped; a plugin that is being   *)
(* initialised is the last one of the deque, where unloadCurrent() finds it. *)
Open == pc \notin {"unloading", "ended"}

Callable == Open => /\ \A j \in DOMAIN plugins : plugins[j] \in mapped
                    /\ \A j \in DOMAIN queue : queue[j] \in mapped
                    /\ inside \in mapped \cup {Nobody}

LastIsInside == pc = "loading" =>
  /\ queue = <<>>
  /\ inside # Nobody => plugins # <<>> /\ plugins[Len(plugins)] = inside

EachOnce == /\ \A i, j \in DOMAIN plugins : plugins[i] = plugins[j] => i = j
            /\ \A j \in DOMAIN plugins : plugins[j] \notin todo

LibsInv == Callable /\ LastIsInside /\ EachOnce

LEMMA LibsLoading ==
  ASSUME HostAssumption, TypeOK, LibsInv, NEW p \in Plugin,
         Skip(p) \/ LoadEntry(p) \/ InitSucceeds(p) \/ InitFails(p)
  PROVE  LibsInv'
  <1>1. plugins \in Seq(Plugin) /\ queue = <<>> /\ queue' = queue /\ pc' = "loading" /\ pc = "loading"
    BY DEF TypeOK, LibsInv, LastIsInside, Skip, LoadEntry, InitSucceeds, InitFails, control
  <1>2. \A j \in DOMAIN plugins : plugins[j] \in mapped /\ plugins[j] \notin todo
    BY <1>1 DEF LibsInv, Callable, EachOnce, Open
  <1>3. \A i, j \in DOMAIN plugins : plugins[i] = plugins[j] => i = j
    BY DEF LibsInv, EachOnce
  <1>4. p # Nobody
    BY DEF HostAssumption
  <1>5. CASE Skip(p) \/ InitSucceeds(p)
    <2>1. UNCHANGED <<mapped, plugins>> /\ todo' \subseteq todo /\ inside' = Nobody
      BY <1>5 DEF Skip, InitSucceeds, libs, control, Running
    <2> QED BY <1>1, <1>2, <1>3, <2>1 DEF LibsInv, Callable, LastIsInside, EachOnce
  <1>6. CASE LoadEntry(p)
    <2>1. /\ plugins' = Append(plugins, p) /\ mapped' = mapped \cup {p} /\ inside' = p
          /\ p \in todo /\ todo' = todo \ {p}
      BY <1>6 DEF LoadEntry
    <2>2. /\ Len(plugins') = Len(plugins) + 1 /\ Len(plugins) \in Nat
          /\ DOMAIN plugins = 1 .. Len(plugins) /\ DOMAIN plugins' = 1 .. Len(plugins) + 1
          /\ plugins'[Len(plugins) + 1] = p
          /\ \A j \in 1 .. Len(plugins) : plugins'[j] = plugins[j]
      BY <1>1, <2>1
    <2>3. plugins' # <<>>
      BY <2>2
    <2>4. Callable'
      BY <1>1, <1>2, <2>1, <2>2 DEF Callable
    <2>5. LastIsInside'
      BY <1>1, <2>1, <2>2, <2>3 DEF LastIsInside
    <2>6. EachOnce'
      BY <1>2, <1>3, <2>1, <2>2 DEF EachOnce
    <2> QED BY <2>4, <2>5, <2>6 DEF LibsInv
  <1>7. CASE InitFails(p)
    <2>1. /\ plugins' = Front(plugins) /\ mapped' = mapped \ {p} /\ inside' = Nobody
          /\ inside = p /\ todo' = todo
      BY <1>7 DEF InitFails, Popped, InPlugin
    <2>2. plugins # <<>> /\ plugins[Len(plugins)] = p
      BY <1>1, <1>4, <2>1 DEF LibsInv, LastIsInside
    <2>3. /\ Len(plugins) \in Nat /\ Len(plugins) > 0
          /\ DOMAIN plugins = 1 .. Len(plugins) /\ DOMAIN plugins' = 1 .. Len(plugins) - 1
          /\ \A j \in 1 .. Len(plugins) - 1 : plugins'[j] = plugins[j]
      BY <1>1, <2>1, <2>2 DEF Front
    <2>4. \A j \in DOMAIN plugins' : j \in DOMAIN plugins /\ plugins'[j] = plugins[j] /\ plugins'[j] # p
      BY <1>3, <2>2, <2>3
    <2>5. Callable'
      BY <1>1, <1>2, <2>1, <2>4 DEF Callable
    <2>6. LastIsInside' /\ EachOnce'
      BY <1>1, <1>2, <1>3, <2>1, <2>4 DEF LastIsInside, EachOnce
    <2> QED BY <2>5, <2>6 DEF LibsInv
  <1> QED BY <1>5, <1>6, <1>7

(* Everything else leaves the deque alone or empties it, and only the        *)
(* unloading unmaps.                                                         *)
LEMMA LibsRest ==
  ASSUME HostAssumption, TypeOK, LibsInv,
         /\ pc' # "loading" \/ (pc = "loading" /\ UNCHANGED <<queue, inside>>)
         /\ UNCHANGED <<todo, plugins>>
         /\ Open' => mapped' = mapped /\ Open
         /\ inside' \in {inside, Nobody} \/ (queue # <<>> /\ inside' = Head(queue))
         /\ queue' \in {queue, plugins, <<>>} \/ (queue # <<>> /\ queue' = Tail(queue))
  PROVE  LibsInv'
  <1>1. EachOnce'
    BY DEF LibsInv, EachOnce
  <1>2. LastIsInside'
    BY DEF LibsInv, LastIsInside
  <1>3. Callable'
    <2> SUFFICES ASSUME Open' PROVE /\ \A j \in DOMAIN plugins : plugins[j] \in mapped
                                    /\ \A j \in DOMAIN queue' : queue'[j] \in mapped
                                    /\ inside' \in mapped \cup {Nobody}
      BY DEF Callable
    <2>1. /\ \A j \in DOMAIN plugins : plugins[j] \in mapped
          /\ \A j \in DOMAIN queue : queue[j] \in mapped
          /\ inside \in mapped \cup {Nobody}
      BY DEF LibsInv, Callable
    <2>2. queue \in Seq(Plugin)
      BY DEF TypeOK
    <2>3. \A j \in DOMAIN queue' : queue'[j] \in mapped
      <3>1. CASE queue # <<>> /\ queue' = Tail(queue)
        <4>1. \A j \in DOMAIN queue' : j + 1 \in DOMAIN queue /\ queue'[j] = queue[j + 1]
          BY <2>2, <3>1
        <4> QED BY <2>1, <4>1
      <3>2. CASE queue' = <<>>
        BY <3>2
      <3>3. CASE queue' \in {queue, plugins}
        BY <2>1, <3>3
      <3> QED BY <3>1, <3>2, <3>3
    <2>4. inside' \in mapped \cup {Nobody}
      <3>1. CASE queue # <<>> /\ inside' = Head(queue)
        <4>1. 1 \in DOMAIN queue /\ Head(queue) = queue[1]
          BY <2>2, <3>1
        <4> QED BY <2>1, <3>1, <4>1
      <3> QED BY <2>1, <3>1
    <2> QED BY <2>1, <2>3, <2>4
  <1> QED BY <1>1, <1>2, <1>3 DEF LibsInv

LEMMA LibsNext ==
  ASSUME HostAssumption, TypeOK, LibsInv, [Next]_vars
  PROVE  LibsInv'
  <1>1. CASE \E p \in Plugin : Skip(p) \/ LoadEntry(p) \/ InitSucceeds(p) \/ InitFails(p)
    BY <1>1, LibsLoading
  <1>2. CASE \E p \in Plugin : \/ (\E i \in Ids : RegisterVisualizer(p, i))
                              \/ RegisterOption(p) \/ (\E v \in Value : SetOption(p, v))
    <2>1. UNCHANGED <<control, libs>>
      BY <1>2 DEF RegisterVisualizer, RegisterOption, SetOption
    <2> QED BY <2>1, LibsRest DEF control, libs, Open
  <1>3. CASE \E p \in Plugin : SaveConfig(p)
    BY <1>3, LibsRest DEF SaveConfig, libs, Open
  <1>4. CASE \E p \in Plugin : SaveThrows(p)
    BY <1>4, LibsRest DEF SaveThrows, libs, Open
  <1>5. CASE \E p \in Plugin : Return(p)
    BY <1>5, LibsRest DEF Return, Open, Passes
  <1>6. CASE Configure \/ StartupFails \/ Layout \/ Top \/ Event \/ Check
    BY <1>6, LibsRest DEF Configure, StartupFails, Layout, Top, Event, Check, libs, Open
  <1>7. CASE Call
    BY <1>7, LibsRest DEF Call, Passes, libs, Open
  <1>8. CASE PassEnds
    <2>1. CASE pc = "unloading"
      <3>1. pc' = "ended" /\ plugins' = <<>>
        BY <1>8, <2>1 DEF PassEnds, After
      <3> QED BY <3>1 DEF LibsInv, Callable, LastIsInside, EachOnce, Open
    <2>2. CASE pc # "unloading"
      <3>1. /\ UNCHANGED <<plugins, mapped, todo, queue, inside>>
            /\ pc' # "loading" /\ Open
        BY <1>8, <2>2 DEF PassEnds, After, Passes, Open
      <3> QED BY <3>1, LibsRest
    <2> QED BY <2>1, <2>2
  <1>9. CASE Release \/ Unregister
    BY <1>9, LibsRest DEF Release, Unregister, After, libs, Open
  <1>10. CASE UNCHANGED <<control, libs>>
    BY <1>10, LibsRest DEF control, libs, Open
  <1>11. CASE UserEdit \/ Ended \/ UNCHANGED vars
    BY <1>10, <1>11 DEF UserEdit, Ended, vars
  <1> QED BY <1>1, <1>2, <1>3, <1>4, <1>5, <1>6, <1>7, <1>8, <1>9, <1>11, Zenon DEF Next

(* Who owns a visualizer that main still has is mapped, or failed; the       *)
(* program's own are known from the first load on.                           *)
Owned(v) == v.owner = Host \/ v.owner \in mapped \cup failed

OwnersKnown == Open => \A j \in DOMAIN registry : Owned(registry[j])
TreeOwned   == Open => \A v \in tree : v.owner = Nobody \/ Owned(v)
BuiltinsThere ==
  builtins /\ Open => \A i \in Builtin : \E j \in DOMAIN registry : registry[j].id = i

(* A null pointer in the layout stands for an id of a plugin, and from the   *)
(* layout on it has ended the process.                                       *)
NullsKnown == \A v \in tree : v.owner = Nobody => v.id \notin Builtin
NoNull     == ~dead /\ pc # "layout" => \A v \in tree : v.owner # Nobody

ReleasedLate == released => pc \in {"unregistering", "unloading", "ended"}
InsidePass   == inside # Nobody => pc \in Passes \cup {"loading"}
HarmKills    == harm # {} => dead

VisInv == /\ OwnersKnown /\ TreeOwned /\ BuiltinsThere /\ NullsKnown /\ NoNull
          /\ ReleasedLate /\ InsidePass /\ HarmKills /\ HarmIsKnown

(* Calling the visualizers of a set whose owners are known: a call that      *)
(* lands nowhere is one of the two known ones, and a null pointer is felt.   *)
KnownHarm(hs) == \A h \in hs :
  \/ h.what = "call" /\ h.on.owner \in failed
  \/ h.what = "null" /\ h.on.id \notin Builtin

LEMMA CallsKnown ==
  ASSUME HostAssumption, NEW vs,
         \A v \in vs : v.owner = Nobody \/ Owned(v),
         \A v \in vs : v.owner = Nobody => v.id \notin Builtin
  PROVE  /\ KnownHarm(CallsInto(vs))
         /\ CallsInto(vs) = {} => \A v \in vs : v.owner # Nobody
  <1>1. ASSUME NEW v \in vs, v.owner \in Plugin \ mapped
        PROVE  v.owner \in failed
    BY <1>1 DEF Owned, HostAssumption
  <1>2. KnownHarm(CallsInto(vs))
    BY <1>1 DEF KnownHarm, CallsInto
  <1>3. ASSUME NEW v \in vs, v.owner = Nobody
        PROVE  CallsInto(vs) # {}
    <2>1. [what |-> "null", on |-> v] \in CallsInto(vs)
      BY <1>3 DEF CallsInto
    <2> QED BY <2>1
  <1> QED BY <1>2, <1>3

(* A step that meets no harm and leaves registry and layout alone. *)
LEMMA VisKeeps ==
  ASSUME VisInv, ~dead, harm' = harm, UNCHANGED <<registry, builtins, tree>>,
         Open' => Open /\ mapped \cup failed \subseteq mapped' \cup failed',
         pc = "layout" => pc' = "layout" \/ dead',
         ReleasedLate', InsidePass'
  PROVE  VisInv'
  <1>1. harm' = {}
    BY DEF VisInv, HarmKills
  <1>2. HarmKills' /\ HarmIsKnown'
    BY <1>1 DEF HarmKills, HarmIsKnown
  <1>3. OwnersKnown' /\ TreeOwned'
    BY DEF VisInv, OwnersKnown, TreeOwned, Owned
  <1>4. BuiltinsThere' /\ NullsKnown' /\ NoNull'
    BY DEF VisInv, BuiltinsThere, NullsKnown, NoNull
  <1> QED BY <1>2, <1>3, <1>4 DEF VisInv

LEMMA VisLoading ==
  ASSUME HostAssumption, LibsInv, VisInv, NEW p \in Plugin,
         Skip(p) \/ LoadEntry(p) \/ InitSucceeds(p) \/ InitFails(p) \/ Return(p)
  PROVE  VisInv'
  <1>1. ~dead /\ harm' = harm /\ UNCHANGED <<registry, builtins, tree, released>> /\ pc' = pc
        /\ pc \in Passes \cup {"loading"}
    BY DEF Skip, LoadEntry, InitSucceeds, InitFails, Return, Running, InPlugin, control, reg, shown
  <1>2. ReleasedLate' /\ InsidePass' /\ (Open' => Open) /\ pc # "layout"
    BY <1>1 DEF VisInv, ReleasedLate, InsidePass, Open, Passes
  <1>3. Open' => mapped \cup failed \subseteq mapped' \cup failed'
    BY <1>1 DEF Skip, LoadEntry, InitSucceeds, InitFails, Return, Open, libs
  <1> QED BY <1>1, <1>2, <1>3, VisKeeps

LEMMA VisRegister ==
  ASSUME HostAssumption, TypeOK, LibsInv, VisInv, NEW p \in Plugin, NEW i \in Ids,
         RegisterVisualizer(p, i)
  PROVE  VisInv'
  <1> DEFINE v == [id |-> i, owner |-> p]
  <1>1. /\ ~dead /\ harm' = harm /\ UNCHANGED <<builtins, tree, released, pc, inside, dead, mapped, failed>>
        /\ pc \in {"loading", "starting"} /\ inside = p /\ p # Nobody
        /\ registry' = Append(registry, v)
    BY DEF RegisterVisualizer, Push, InPlugin, control, libs, shown
  <1>2. /\ Len(registry) \in Nat /\ DOMAIN registry = 1 .. Len(registry)
        /\ DOMAIN registry' = 1 .. Len(registry) + 1
        /\ \A j \in DOMAIN registry : registry'[j] = registry[j]
        /\ registry'[Len(registry) + 1] = v
    BY <1>1 DEF TypeOK
  <1>3. p \in mapped /\ Open
    BY <1>1 DEF LibsInv, Callable, Open
  <1>4. Owned(v) /\ \A j \in DOMAIN registry : Owned(registry[j])
    BY <1>3 DEF VisInv, OwnersKnown, Owned
  <1>5. \A j \in DOMAIN registry' : Owned(registry'[j])
    <2> SUFFICES ASSUME NEW j \in DOMAIN registry' PROVE Owned(registry'[j])
      OBVIOUS
    <2>1. CASE j \in DOMAIN registry
      BY <1>2, <1>4, <2>1
    <2>2. CASE j = Len(registry) + 1
      BY <1>2, <1>4, <2>2
    <2> QED BY <1>2, <2>1, <2>2
  <1>6. OwnersKnown'
    BY <1>1, <1>5 DEF OwnersKnown, Owned
  <1>7. BuiltinsThere'
    BY <1>1, <1>2, <1>3 DEF VisInv, BuiltinsThere
  <1> QED BY <1>1, <1>6, <1>7 DEF VisInv, TreeOwned, NullsKnown, NoNull, ReleasedLate, InsidePass,
                                 HarmKills, HarmIsKnown, Open, Owned

(* A load builds the layout from what is known after it. *)
LEMMA LoadVis ==
  ASSUME HostAssumption, TypeOK, VisInv, Open, Load, UNCHANGED <<mapped, failed>>
  PROVE  /\ \A j \in DOMAIN registry' : Owned(registry'[j])
         /\ \A v \in tree' : v.owner = Nobody \/ Owned(v)
         /\ builtins' => \A i \in Builtin : \E j \in DOMAIN registry' : registry'[j].id = i
         /\ NullsKnown' /\ released' = released
  <1>1. CASE ~readable
    BY <1>1 DEF Load, reg, VisInv, OwnersKnown, TreeOwned, BuiltinsThere, NullsKnown
  <1>2. CASE readable
    <2>1. /\ registry' = Known /\ tree' = {Find(i) : i \in layout} /\ released' = released
          /\ layout \subseteq Ids
      BY <1>2 DEF Load, TypeOK
    <2>2. \A i \in Builtin : \E j \in DOMAIN Known : Known[j].id = i
      BY KnownType DEF VisInv, BuiltinsThere
    <2>3. \A j \in DOMAIN registry : Owned(registry[j])
      BY DEF VisInv, OwnersKnown
    <2>4. \A j \in DOMAIN Known : Owned(Known[j])
      <3>1. \A j \in DOMAIN Known : Known[j].owner = Host \/ Known[j] \in Range(registry)
        BY KnownType
      <3> QED BY <2>3, <3>1 DEF Owned, Range
    <2>5. ASSUME NEW i \in Ids
          PROVE  /\ Find(i).owner = Nobody \/ Owned(Find(i))
                 /\ Find(i).owner = Nobody => Find(i).id \notin Builtin
      <3>1. /\ Find(i).id = i
            /\ Find(i).owner = Nobody => \A j \in DOMAIN Known : Known[j].id # i
            /\ Find(i).owner \in {Nobody, Host} \/ Find(i) \in Range(registry)
        BY FindType
      <3>2. Find(i).owner = Nobody => Find(i).id \notin Builtin
        BY <2>2, <3>1
      <3>3. Find(i).owner = Nobody \/ Owned(Find(i))
        BY <2>3, <3>1 DEF Owned, Range
      <3> QED BY <3>2, <3>3
    <2>6. NullsKnown'
      BY <2>1, <2>5 DEF NullsKnown
    <2>7. \A v \in tree' : v.owner = Nobody \/ Owned(v)
      BY <2>1, <2>5
    <2> QED BY <2>1, <2>2, <2>4, <2>6, <2>7
  <1> QED BY <1>1, <1>2

(* Main calls the visualizers of the layout or of the registry.  Whatever    *)
(* harm that does is known, and it ends the process.                         *)
LEMMA HarmNext ==
  ASSUME VisInv, ~dead, NEW hs, Harm(hs), KnownHarm(hs), UNCHANGED failed
  PROVE  HarmKills' /\ HarmIsKnown'
  <1>1. harm' = hs /\ dead' = (hs # {})
    BY DEF VisInv, HarmKills, Harm
  <1>2. HarmIsKnown'
    BY <1>1 DEF HarmIsKnown, KnownHarm
  <1> QED BY <1>1, <1>2, Zenon DEF HarmKills

LEMMA VisConfigure ==
  ASSUME HostAssumption, TypeOK, VisInv, Configure
  PROVE  VisInv'
  <1>1. ~dead /\ inside = Nobody /\ UNCHANGED <<inside, dead, mapped, failed, harm>>
        /\ pc \in {"loading", "configuring"} /\ Open
    BY DEF Configure, Running, libs, Open
  <1>2. CASE pc = "loading"
    <2>1. UNCHANGED <<registry, builtins, tree, released>> /\ pc' = "configuring"
      BY <1>2 DEF Configure, reg, shown
    <2>2. ReleasedLate' /\ InsidePass' /\ Open
      BY <1>1, <1>2, <2>1 DEF VisInv, ReleasedLate, InsidePass
    <2> QED BY <1>1, <1>2, <2>1, <2>2, VisKeeps
  <1>3. CASE pc = "configuring"
    <2>1. Load /\ pc' = "layout"
      BY <1>3 DEF Configure
    <2>2. OwnersKnown' /\ TreeOwned' /\ BuiltinsThere' /\ NullsKnown' /\ released' = released
      BY <1>1, <2>1, LoadVis DEF OwnersKnown, TreeOwned, BuiltinsThere, Owned
    <2> QED BY <1>1, <1>3, <2>1, <2>2
            DEF VisInv, NoNull, ReleasedLate, InsidePass, HarmKills, HarmIsKnown
  <1> QED BY <1>1, <1>2, <1>3

LEMMA VisTop ==
  ASSUME HostAssumption, TypeOK, VisInv, Top
  PROVE  VisInv'
  <1>1. ~dead /\ inside' = Nobody /\ UNCHANGED <<mapped, failed>> /\ pc = "top" /\ Open
    BY DEF Top, Running, libs, Open
  <1>2. CASE changed
    <2>1. Load /\ Harm(CallsInto(tree')) /\ pc' \in {"reloading", "releasing"}
      BY <1>2 DEF Top
    <2>2. /\ \A j \in DOMAIN registry' : Owned(registry'[j])
          /\ \A v \in tree' : v.owner = Nobody \/ Owned(v)
          /\ builtins' => \A i \in Builtin : \E j \in DOMAIN registry' : registry'[j].id = i
          /\ NullsKnown' /\ released' = released
      BY <1>1, <2>1, LoadVis
    <2>3. KnownHarm(CallsInto(tree')) /\ (CallsInto(tree') = {} => \A v \in tree' : v.owner # Nobody)
      BY <2>2, CallsKnown DEF NullsKnown
    <2>4. HarmKills' /\ HarmIsKnown'
      BY <1>1, <2>1, <2>3, HarmNext
    <2>5. NoNull'
      BY <2>1, <2>3 DEF NoNull, Harm
    <2>6. OwnersKnown' /\ TreeOwned' /\ BuiltinsThere'
      BY <1>1, <2>2 DEF OwnersKnown, TreeOwned, BuiltinsThere, Owned
    <2>7. ReleasedLate' /\ InsidePass'
      BY <1>1, <2>2 DEF VisInv, ReleasedLate, InsidePass
    <2> QED BY <2>2, <2>4, <2>5, <2>6, <2>7 DEF VisInv
  <1>3. CASE ~changed
    <2>1. UNCHANGED <<registry, builtins, tree, released, harm>> /\ pc' = "events"
      BY <1>3 DEF Top, reg, shown
    <2>2. ReleasedLate' /\ InsidePass' /\ pc # "layout"
      BY <1>1, <2>1 DEF VisInv, ReleasedLate, InsidePass
    <2> QED BY <1>1, <2>1, <2>2, VisKeeps
  <1> QED BY <1>2, <1>3

(* The first layout, the drawing and the destructors of the registry. *)
LEMMA VisCalls ==
  ASSUME HostAssumption, TypeOK, VisInv, Layout \/ Check \/ Unregister
  PROVE  VisInv'
  <1>1. ~dead /\ inside' = Nobody /\ UNCHANGED <<mapped, failed, tree, released>>
        /\ pc \in {"layout", "events", "unregistering"} /\ Open
    BY DEF Layout, Check, Unregister, Running, libs, shown, Open
  <1>2. InsidePass'
    BY <1>1 DEF InsidePass
  <1>3. KnownHarm(CallsInto(tree)) /\ (CallsInto(tree) = {} => \A v \in tree : v.owner # Nobody)
    BY <1>1, CallsKnown DEF VisInv, TreeOwned, NullsKnown
  <1>4. CASE (Layout \/ Check) /\ Harm(CallsInto(tree))
    <2>1. HarmKills' /\ HarmIsKnown'
      BY <1>1, <1>3, <1>4, HarmNext
    <2>2. UNCHANGED <<registry, builtins>> /\ pc' \in {"starting", "drawing", "releasing"}
          /\ pc \in {"layout", "events"}
      BY <1>1, <1>4 DEF Layout, Check, reg, Harm
    <2>3. NoNull'
      BY <1>1, <1>3, <1>4 DEF NoNull, Harm
    <2>4. OwnersKnown' /\ TreeOwned' /\ BuiltinsThere' /\ NullsKnown'
      BY <1>1, <2>2 DEF VisInv, OwnersKnown, TreeOwned, BuiltinsThere, NullsKnown, Owned
    <2>5. ReleasedLate'
      BY <1>1, <2>2 DEF VisInv, ReleasedLate
    <2> QED BY <1>2, <2>1, <2>3, <2>4, <2>5 DEF VisInv
  <1>5. CASE Check /\ harm' = harm /\ pc' = "releasing"
    <2>1. UNCHANGED <<registry, builtins>> /\ pc = "events"
      BY <1>5 DEF Check, reg
    <2>2. ReleasedLate'
      BY <1>1, <2>1 DEF VisInv, ReleasedLate
    <2> QED BY <1>1, <1>2, <1>5, <2>1, <2>2, VisKeeps
  <1>6. CASE Unregister
    <2>1. pc' = "unloading" /\ registry' = <<>> /\ builtins' = builtins
          /\ Harm(CallsInto(Range(registry))) /\ pc = "unregistering"
      BY <1>6 DEF Unregister, After
    <2>2. \A v \in Range(registry) : Owned(v) /\ v.owner # Nobody
      <3>1. \A j \in DOMAIN registry : Owned(registry[j])
        BY <1>1 DEF VisInv, OwnersKnown
      <3>2. Range(registry) \subseteq Visualizer
        BY DEF TypeOK, Range
      <3>3. \A v \in Visualizer : v.owner # Nobody
        BY DEF Visualizer, HostAssumption
      <3> QED BY <3>1, <3>2, <3>3 DEF Range
    <2>3. KnownHarm(CallsInto(Range(registry)))
      BY <2>2, CallsKnown
    <2>4. HarmKills' /\ HarmIsKnown'
      BY <1>1, <2>1, <2>3, HarmNext
    <2>5. NoNull' /\ NullsKnown'
      BY <1>1, <2>1 DEF VisInv, NoNull, NullsKnown
    <2> QED BY <1>1, <1>2, <2>1, <2>4, <2>5
            DEF VisInv, OwnersKnown, TreeOwned, BuiltinsThere, ReleasedLate, Open
  <1> QED BY <1>4, <1>5, <1>6 DEF Layout, Check

(* A save from inside a plugin meets null pointers after the release only,   *)
(* and the only plugins that run then are those that are being stopped.      *)
LEMMA VisSaves ==
  ASSUME HostAssumption, TypeOK, VisInv, ~dead, Saved, UNCHANGED <<pc, inside, mapped, failed, reg, shown>>,
         pc # "layout"
  PROVE  /\ VisInv' \/ (released /\ pc # "unloading")
         /\ harm' = {} \/ released
  <1>1. released \/ Nulls = {}
    BY DEF VisInv, NoNull, Nulls
  <1> DEFINE hs == {[what |-> "save", on |-> v] : v \in Nulls}
  <1>2. harm' = hs /\ dead' = (hs # {})
    BY DEF VisInv, HarmKills, Saved, Harm
  <1>3. harm' = {} \/ released
    BY <1>1, <1>2
  <1>4. HarmKills'
    BY <1>2, Zenon DEF HarmKills
  <1>5. HarmIsKnown' \/ (released /\ pc # "unloading")
    BY <1>2, <1>3 DEF HarmIsKnown
  <1>6. /\ OwnersKnown' /\ TreeOwned' /\ BuiltinsThere' /\ NullsKnown' /\ NoNull'
        /\ ReleasedLate' /\ InsidePass'
    BY DEF VisInv, OwnersKnown, TreeOwned, BuiltinsThere, NullsKnown, NoNull, ReleasedLate,
           InsidePass, Owned, Open, reg, shown
  <1> QED BY <1>3, <1>4, <1>5, <1>6 DEF VisInv

LEMMA VisApi ==
  ASSUME HostAssumption, TypeOK, VisInv, NEW p \in Plugin,
         RegisterOption(p) \/ (\E v \in Value : SetOption(p, v)) \/ SaveConfig(p) \/ SaveThrows(p)
  PROVE  VisInv'
  <1>1. ~dead /\ inside = p /\ p # Nobody /\ UNCHANGED <<mapped, failed, registry, builtins, tree, released>>
    BY DEF RegisterOption, SetOption, SaveConfig, SaveThrows, InPlugin, libs, reg, shown
  <1>2. pc \in Passes \cup {"loading"} /\ pc # "layout"
    BY <1>1 DEF VisInv, InsidePass, Passes
  <1>3. CASE RegisterOption(p) \/ \E v \in Value : SetOption(p, v)
    <2>1. UNCHANGED <<pc, inside, dead, harm>>
      BY <1>3 DEF RegisterOption, SetOption, control
    <2>2. ReleasedLate' /\ InsidePass' /\ (Open' => Open)
      BY <1>1, <2>1 DEF VisInv, ReleasedLate, InsidePass, Open
    <2> QED BY <1>1, <1>2, <2>1, <2>2, VisKeeps
  <1>4. CASE SaveConfig(p)
    <2>1. Saved /\ UNCHANGED <<pc, inside, mapped, failed, reg, shown>>
      BY <1>4 DEF SaveConfig, libs
    <2>2. VisInv' \/ (released /\ pc # "unloading")
      BY <1>1, <1>2, <2>1, VisSaves
    <2>3. released => pc = "unloading"
      BY <1>2 DEF VisInv, ReleasedLate, Passes
    <2> QED BY <2>2, <2>3
  <1>5. CASE SaveThrows(p)
    <2>1. harm' = harm /\ (Open' => Open)
      BY <1>5 DEF SaveThrows, Open
    <2>2. ReleasedLate'
      BY <1>1, <1>5 DEF SaveThrows, VisInv, ReleasedLate
    <2>3. InsidePass'
      BY <1>2, <1>5 DEF SaveThrows, InsidePass
    <2> QED BY <1>1, <1>2, <2>1, <2>2, <2>3, VisKeeps
  <1> QED BY <1>3, <1>4, <1>5

LEMMA VisEvent ==
  ASSUME HostAssumption, TypeOK, VisInv, Event
  PROVE  VisInv'
  <1>1. /\ ~dead /\ inside = Nobody /\ inside' = Nobody /\ pc = "events" /\ pc' = "event"
        /\ UNCHANGED <<mapped, failed, registry, builtins>>
    BY DEF Event, Running, libs, reg
  <1>2. ~released /\ InsidePass' /\ Open /\ Open'
    BY <1>1 DEF VisInv, ReleasedLate, InsidePass, Open
  <1>3. ASSUME harm' = harm, released' = released, tree' = tree
        PROVE  VisInv'
    <2>1. ReleasedLate' /\ pc # "layout"
      BY <1>1, <1>2, <1>3 DEF ReleasedLate
    <2> QED BY <1>1, <1>2, <1>3, <2>1, VisKeeps
  <1>4. CASE UNCHANGED <<shown, disk, opts, dead, harm>>
    BY <1>3, <1>4 DEF shown
  <1>5. CASE \E k \in Keys, v \in Value : MenuSets(k, v)
    BY <1>3, <1>5 DEF MenuSets, shown
  <1>6. CASE Saved /\ UNCHANGED <<shown, options>>
    <2>1. Nulls = {}
      BY <1>1, <1>2 DEF VisInv, NoNull, Nulls
    <2>2. harm' = harm
      BY <1>6, <2>1 DEF Saved, Harm
    <2> QED BY <1>3, <1>6, <2>2 DEF shown
  <1>7. CASE \E i \in Ids : MenuMoves(i)
    <2> PICK i \in Ids : MenuMoves(i)
      BY <1>7
    <2>1. /\ harm' = harm /\ dead' = dead /\ released' = released
          /\ \A v \in tree' : v \in tree \/ (v = Find(i) /\ v.owner # Nobody)
      BY DEF MenuMoves
    <2>2. Owned(Find(i)) \/ Find(i).owner = Nobody
      <3>1. Find(i).owner \in {Nobody, Host} \/ Find(i) \in Range(registry)
        BY FindType
      <3>2. \A j \in DOMAIN registry : Owned(registry[j])
        BY <1>2 DEF VisInv, OwnersKnown
      <3> QED BY <3>1, <3>2 DEF Owned, Range
    <2>3. \A v \in tree : v.owner # Nobody /\ Owned(v)
      BY <1>1, <1>2 DEF VisInv, NoNull, TreeOwned
    <2>4. \A v \in tree' : v.owner # Nobody /\ Owned(v)
      BY <2>1, <2>2, <2>3
    <2>5. TreeOwned' /\ NullsKnown' /\ NoNull'
      BY <1>1, <2>4 DEF TreeOwned, NullsKnown, NoNull, Owned
    <2>6. OwnersKnown' /\ BuiltinsThere'
      BY <1>1, <1>2 DEF VisInv, OwnersKnown, BuiltinsThere, Owned
    <2>7. harm' = {}
      BY <1>1, <2>1 DEF VisInv, HarmKills
    <2>8. HarmKills' /\ HarmIsKnown' /\ ReleasedLate'
      BY <1>2, <2>1, <2>7 DEF HarmKills, HarmIsKnown, ReleasedLate
    <2> QED BY <1>2, <2>5, <2>6, <2>8 DEF VisInv
  <1> QED BY <1>4, <1>5, <1>6, <1>7, Zenon DEF Event

LEMMA VisRest ==
  ASSUME HostAssumption, TypeOK, LibsInv, VisInv,
         \/ StartupFails \/ Call \/ PassEnds \/ Release \/ UserEdit \/ Ended \/ UNCHANGED vars
  PROVE  VisInv'
  <1>1. CASE UNCHANGED vars
    BY <1>1 DEF vars, control, libs, reg, shown, VisInv, OwnersKnown, TreeOwned, BuiltinsThere,
                NullsKnown, NoNull, ReleasedLate, InsidePass, HarmKills, HarmIsKnown, Owned, Open
  <1>2. CASE Ended
    BY <1>1, <1>2 DEF Ended
  <1>3. CASE StartupFails \/ Call \/ PassEnds \/ Release \/ UserEdit
    <2>1. ~dead /\ harm' = harm /\ UNCHANGED <<registry, builtins, tree, mapped, failed>>
      BY <1>3 DEF StartupFails, Call, PassEnds, Release, UserEdit, Running, control, libs, reg, shown
    <2>2. Open' => Open
      BY <1>3 DEF StartupFails, Call, PassEnds, Release, UserEdit, control, After, Passes, Open
    <2>3. pc = "layout" => pc' = "layout" \/ dead'
      BY <1>3 DEF StartupFails, Call, PassEnds, Release, UserEdit, control, Passes
    <2>4. ReleasedLate'
      <3>1. CASE StartupFails \/ Call \/ UserEdit
        BY <3>1 DEF StartupFails, Call, UserEdit, control, shown, VisInv, ReleasedLate
      <3>2. CASE PassEnds
        <4>1. released' = released /\ (pc = "unloading" => pc' = "ended") /\ pc \in Passes
          BY <3>2 DEF PassEnds, shown, After
        <4> QED BY <4>1 DEF VisInv, ReleasedLate, Passes
      <3>3. CASE Release
        BY <3>3 DEF Release, After, ReleasedLate
      <3> QED BY <1>3, <3>1, <3>2, <3>3
    <2>5. InsidePass'
      BY <1>3 DEF StartupFails, Call, PassEnds, Release, UserEdit, control, Running,
                  VisInv, InsidePass
    <2> QED BY <2>1, <2>2, <2>3, <2>4, <2>5, VisKeeps
  <1> QED BY <1>1, <1>2, <1>3

(* The only undefined behaviour the host can be led into: a call into the    *)
(* library of a plugin whose init failed, an id in the layout that belongs   *)
(* to nobody, and a plugin that saves while it is stopped.                   *)
THEOREM HarmIsKnownHolds == Spec => []HarmIsKnown
  <1>1. Init => LibsInv /\ VisInv
    BY DEF Init, LibsInv, Callable, LastIsInside, EachOnce, VisInv, OwnersKnown, TreeOwned,
           BuiltinsThere, NullsKnown, NoNull, ReleasedLate, InsidePass, HarmKills, HarmIsKnown, Open
  <1>2. TypeOK /\ LibsInv /\ [Next]_vars => LibsInv'
    BY LibsNext, HostAssumption
  <1>3. TypeOK /\ LibsInv /\ VisInv /\ [Next]_vars => VisInv'
    <2> SUFFICES ASSUME TypeOK, LibsInv, VisInv, [Next]_vars PROVE VisInv'
      OBVIOUS
    <2> QED BY HostAssumption, VisLoading, VisRegister, VisConfigure, VisTop, VisCalls, VisApi,
               VisEvent, VisRest, Zenon DEF Next
  <1>4. VisInv => HarmIsKnown
    BY DEF VisInv
  <1> QED BY <1>1, <1>2, <1>3, <1>4, TypeCorrect, PTL DEF Spec

-----------------------------------------------------------------------------
(***************************************************************************)
(* The host keeps the lifecycle it promises: every step of PluginHost is a  *)
(* step of PluginLife or leaves the lives alone, for every set of plugins.  *)
(***************************************************************************)

(* The ranges of the sequences that the deque and a pass go through. *)

Once(s) == \A i, j \in DOMAIN s : s[i] = s[j] => i = j

LEMMA RangeAppend ==
  ASSUME NEW S, NEW s \in Seq(S), NEW x \in S
  PROVE  Range(Append(s, x)) = Range(s) \cup {x}
  <1>1. /\ DOMAIN Append(s, x) = 1 .. Len(s) + 1 /\ DOMAIN s = 1 .. Len(s) /\ Len(s) \in Nat
        /\ \A j \in 1 .. Len(s) : Append(s, x)[j] = s[j]
        /\ Append(s, x)[Len(s) + 1] = x
    OBVIOUS
  <1>2. ASSUME NEW y \in Range(Append(s, x)) PROVE y \in Range(s) \cup {x}
    <2>1. PICK j \in 1 .. Len(s) + 1 : y = Append(s, x)[j]
      BY <1>1, <1>2 DEF Range
    <2>2. CASE j = Len(s) + 1
      BY <1>1, <2>1, <2>2
    <2>3. CASE j \in 1 .. Len(s)
      BY <1>1, <2>1, <2>3 DEF Range
    <2> QED BY <1>1, <2>1, <2>2, <2>3
  <1>3. ASSUME NEW y \in Range(s) \cup {x} PROVE y \in Range(Append(s, x))
    <2>1. CASE y = x
      <3>1. Len(s) + 1 \in DOMAIN Append(s, x)
        BY <1>1
      <3> QED BY <1>1, <2>1, <3>1 DEF Range
    <2>2. CASE y \in Range(s)
      <3>1. PICK j \in DOMAIN s : y = s[j]
        BY <2>2 DEF Range
      <3>2. j \in DOMAIN Append(s, x) /\ Append(s, x)[j] = y
        BY <1>1, <3>1
      <3> QED BY <3>2 DEF Range
    <2> QED BY <1>3, <2>1, <2>2
  <1> QED BY <1>2, <1>3

LEMMA RangeFront ==
  ASSUME NEW S, NEW s \in Seq(S), s # <<>>, Once(s)
  PROVE  Range(Front(s)) = Range(s) \ {s[Len(s)]}
  <1>1. /\ Len(s) \in Nat /\ Len(s) > 0 /\ DOMAIN s = 1 .. Len(s)
        /\ DOMAIN Front(s) = 1 .. Len(s) - 1
        /\ \A j \in 1 .. Len(s) - 1 : Front(s)[j] = s[j]
    BY DEF Front
  <1>2. \A j \in 1 .. Len(s) - 1 : j \in DOMAIN s /\ s[j] # s[Len(s)]
    BY <1>1 DEF Once
  <1>3. \A j \in DOMAIN s : j \in 1 .. Len(s) - 1 \/ j = Len(s)
    BY <1>1
  <1> QED BY <1>1, <1>2, <1>3 DEF Range

LEMMA RangeTail ==
  ASSUME NEW S, NEW s \in Seq(S), s # <<>>, Once(s)
  PROVE  /\ Range(Tail(s)) = Range(s) \ {Head(s)} /\ Once(Tail(s))
         /\ Head(s) \in Range(s)
  <1>1. /\ Len(s) \in Nat /\ Len(s) > 0 /\ DOMAIN s = 1 .. Len(s)
        /\ DOMAIN Tail(s) = 1 .. Len(s) - 1 /\ Head(s) = s[1]
        /\ \A j \in 1 .. Len(s) - 1 : Tail(s)[j] = s[j + 1]
    OBVIOUS
  <1>2. \A j \in 1 .. Len(s) - 1 : j + 1 \in DOMAIN s /\ s[j + 1] # s[1]
    BY <1>1 DEF Once
  <1>3. \A j \in DOMAIN s : j = 1 \/ (j - 1 \in 1 .. Len(s) - 1 /\ (j - 1) + 1 = j)
    BY <1>1
  <1>4. Range(Tail(s)) \subseteq Range(s) \ {Head(s)}
    BY <1>1, <1>2 DEF Range
  <1>5. ASSUME NEW y \in Range(s) \ {Head(s)} PROVE y \in Range(Tail(s))
    <2>1. PICK j \in DOMAIN s : y = s[j] /\ j # 1
      BY <1>1, <1>5 DEF Range
    <2>2. j - 1 \in DOMAIN Tail(s) /\ Tail(s)[j - 1] = y
      BY <1>1, <1>3, <2>1
    <2> QED BY <2>2 DEF Range
  <1>6. Once(Tail(s))
    <2> SUFFICES ASSUME NEW i \in 1 .. Len(s) - 1, NEW j \in 1 .. Len(s) - 1,
                        s[i + 1] = s[j + 1]
                 PROVE  i = j
      BY <1>1 DEF Once
    <2>1. i + 1 \in DOMAIN s /\ j + 1 \in DOMAIN s
      BY <1>2
    <2>2. i + 1 = j + 1
      BY <2>1 DEF Once
    <2> QED BY <2>2
  <1>7. Head(s) \in Range(s)
    BY <1>1 DEF Range
  <1> QED BY <1>4, <1>5, <1>6, <1>7

LEMMA RangeEmpty == Range(<<>>) = {} /\ Once(<<>>)
  BY DEF Range, Once

-----------------------------------------------------------------------------
(* Where every plugin is. *)

(* A plugin is yet to be loaded, out, or in the deque, until the end. *)
Placed == /\ todo \cap failed = {} /\ todo \cap Range(plugins) = {} /\ failed \cap Range(plugins) = {}
          /\ pc # "loading" => todo = {}
          /\ pc # "ended" => Plugin \subseteq todo \cup failed \cup Range(plugins)
          /\ pc = "ended" => plugins = <<>>

(* A pass calls plugins of the deque, each once. *)
PassOrder == /\ Once(plugins) /\ Once(queue)
             /\ Range(queue) \subseteq Range(plugins) /\ inside \notin Range(queue)
             /\ inside # Nobody => inside \in Range(plugins) /\ pc \in Passes \cup {"loading"}

(* While plugins are loaded no pass runs, and the new one is the last. *)
NewIsLast == pc = "loading" =>
  /\ queue = <<>>
  /\ inside # Nobody => plugins # <<>> /\ plugins[Len(plugins)] = inside

LifeInv == Placed /\ PassOrder /\ NewIsLast

LEMMA LifeLoading ==
  ASSUME HostAssumption, TypeOK, LifeInv, NEW p \in Plugin,
         Skip(p) \/ LoadEntry(p) \/ InitSucceeds(p) \/ InitFails(p)
  PROVE  LifeInv'
  <1>1. /\ plugins \in Seq(Plugin) /\ pc = "loading" /\ pc' = "loading"
        /\ queue = <<>> /\ queue' = <<>> /\ p # Nobody
        /\ Range(queue) = {} /\ Once(queue)
    BY RangeEmpty DEF TypeOK, LifeInv, NewIsLast, Skip, LoadEntry, InitSucceeds, InitFails, control,
                      HostAssumption
  <1>2. CASE Skip(p)
    <2>1. /\ p \in todo /\ todo' = todo \ {p} /\ failed' = failed \cup {p}
          /\ UNCHANGED <<plugins, inside>>
      BY <1>2 DEF Skip, control
    <2>2. Placed'
      BY <1>1, <2>1 DEF LifeInv, Placed
    <2> QED BY <1>1, <2>1, <2>2 DEF LifeInv, PassOrder, NewIsLast
  <1>3. CASE LoadEntry(p)
    <2>1. /\ p \in todo /\ todo' = todo \ {p} /\ failed' = failed
          /\ plugins' = Append(plugins, p) /\ inside' = p
      BY <1>3 DEF LoadEntry
    <2>2. Range(plugins') = Range(plugins) \cup {p}
      BY <1>1, <2>1, RangeAppend
    <2>3. Placed'
      BY <1>1, <2>1, <2>2 DEF LifeInv, Placed
    <2>4. /\ DOMAIN plugins' = 1 .. Len(plugins) + 1 /\ DOMAIN plugins = 1 .. Len(plugins)
          /\ Len(plugins) \in Nat /\ Len(plugins') = Len(plugins) + 1
          /\ \A j \in 1 .. Len(plugins) : plugins'[j] = plugins[j]
          /\ plugins'[Len(plugins) + 1] = p
      BY <1>1, <2>1
    <2>5. \A j \in DOMAIN plugins : plugins[j] # p
      BY <2>1 DEF LifeInv, Placed, Range
    <2>6. Once(plugins')
      BY <2>4, <2>5 DEF LifeInv, PassOrder, Once
    <2>7. PassOrder'
      BY <1>1, <2>1, <2>2, <2>6 DEF PassOrder
    <2>8. NewIsLast'
      <3>1. plugins' # <<>>
        BY <2>4
      <3> QED BY <1>1, <2>1, <2>4, <3>1 DEF NewIsLast
    <2> QED BY <2>3, <2>7, <2>8 DEF LifeInv
  <1>4. CASE InitSucceeds(p)
    <2>1. UNCHANGED <<todo, failed, plugins>> /\ inside' = Nobody
      BY <1>4 DEF InitSucceeds, libs
    <2>2. Placed'
      BY <1>1, <2>1 DEF LifeInv, Placed
    <2> QED BY <1>1, <2>1, <2>2 DEF LifeInv, PassOrder, NewIsLast
  <1>5. CASE InitFails(p)
    <2>1. /\ plugins' = Front(plugins) /\ failed' = failed \cup {p} /\ todo' = todo
          /\ inside = p /\ inside' = Nobody
      BY <1>5 DEF InitFails, Popped, InPlugin
    <2>2. plugins # <<>> /\ plugins[Len(plugins)] = p /\ Once(plugins)
      BY <1>1, <2>1 DEF LifeInv, NewIsLast, PassOrder
    <2>3. Range(plugins') = Range(plugins) \ {p} /\ p \in Range(plugins)
      <3>1. Len(plugins) \in DOMAIN plugins
        BY <1>1, <2>2
      <3> QED BY <1>1, <2>1, <2>2, <3>1, RangeFront DEF Range
    <2>4. Placed'
      BY <1>1, <2>1, <2>3 DEF LifeInv, Placed
    <2>5. Once(plugins')
      <3>1. /\ DOMAIN plugins' \subseteq DOMAIN plugins
            /\ \A j \in DOMAIN plugins' : plugins'[j] = plugins[j]
        BY <1>1, <2>1, <2>2 DEF Front
      <3> QED BY <2>2, <3>1 DEF Once
    <2> QED BY <1>1, <2>1, <2>4, <2>5 DEF LifeInv, PassOrder, NewIsLast
  <1> QED BY <1>2, <1>3, <1>4, <1>5

(* Every other step leaves the deque alone until it is emptied at the end. *)
LEMMA LifeRest ==
  ASSUME LifeInv, UNCHANGED <<todo, failed, plugins>>,
         pc' = "loading" => pc = "loading" /\ UNCHANGED <<queue, inside>>,
         pc # "loading" => pc' # "loading",
         pc = "loading" /\ pc' # "loading" => todo = {},
         pc' = "ended" <=> pc = "ended",
         Once(queue'), Range(queue') \subseteq Range(plugins), inside' \notin Range(queue'),
         inside' # Nobody => inside' \in Range(plugins) /\ pc' \in Passes \cup {"loading"}
  PROVE  LifeInv'
  BY DEF LifeInv, Placed, PassOrder, NewIsLast

(* A pass begins over the whole deque, or over nobody. *)
LEMMA LifePass ==
  ASSUME HostAssumption, TypeOK, LifeInv, UNCHANGED <<todo, failed, plugins>>,
         pc' # "loading", pc = "loading" => todo = {}, pc # "ended", pc' # "ended",
         queue' \in {queue, plugins, <<>>}, inside' = Nobody
  PROVE  LifeInv'
  <1>1. Once(queue') /\ Range(queue') \subseteq Range(plugins)
    BY RangeEmpty DEF LifeInv, PassOrder
  <1>2. inside' \notin Range(queue')
    BY <1>1 DEF TypeOK, HostAssumption, Range
  <1> QED BY <1>1, <1>2, LifeRest

LEMMA LifeNext ==
  ASSUME HostAssumption, TypeOK, LifeInv, [Next]_vars
  PROVE  LifeInv'
  <1> USE DEF PassOrder
  <1>1. CASE \E p \in Plugin : Skip(p) \/ LoadEntry(p) \/ InitSucceeds(p) \/ InitFails(p)
    BY <1>1, LifeLoading
  <1>2. ASSUME UNCHANGED <<todo, failed, plugins, pc, queue, inside>>
        PROVE  LifeInv'
    BY <1>2, LifeRest DEF LifeInv
  <1>3. CASE \E p \in Plugin : \/ (\E i \in Ids : RegisterVisualizer(p, i))
                              \/ RegisterOption(p) \/ (\E v \in Value : SetOption(p, v))
                              \/ SaveConfig(p)
    BY <1>2, <1>3 DEF RegisterVisualizer, RegisterOption, SetOption, SaveConfig, control, libs
  <1>4. CASE \E p \in Plugin : SaveThrows(p)
    <2>1. CASE pc \in {"reloading", "event", "drawing"}
      BY <1>4, <2>1, LifePass DEF SaveThrows, libs
    <2>2. CASE pc \notin {"reloading", "event", "drawing"}
      BY <1>2, <1>4, <2>2 DEF SaveThrows, libs
    <2> QED BY <2>1, <2>2
  <1>5. CASE \E p \in Plugin : Return(p)
    <2>1. /\ UNCHANGED <<todo, failed, plugins, pc, queue>> /\ inside' = Nobody
          /\ pc # "loading"
      BY <1>5 DEF Return, Passes
    <2>2. Nobody \notin Range(queue)
      BY DEF TypeOK, HostAssumption, Range
    <2> QED BY <2>1, <2>2, LifeRest DEF LifeInv
  <1>6. CASE Configure \/ Layout \/ Top \/ Event \/ Check \/ Release \/ Unregister
    BY <1>6, LifePass DEF Configure, Layout, Top, Event, Check, Release, Unregister, libs, Running, After
  <1>7. CASE Call
    <2>1. /\ UNCHANGED <<todo, failed, plugins, pc>> /\ pc \in Passes /\ pc # "loading"
          /\ queue # <<>> /\ queue' = Tail(queue) /\ inside' = Head(queue)
      BY <1>7 DEF Call, libs, Passes
    <2>2. /\ Range(queue') = Range(queue) \ {Head(queue)} /\ Once(queue')
          /\ Head(queue) \in Range(queue)
      BY <2>1, RangeTail DEF LifeInv, TypeOK
    <2> QED BY <2>1, <2>2, LifeRest DEF LifeInv
  <1>8. CASE PassEnds
    <2>1. CASE pc = "unloading"
      <3>1. pc' = "ended" /\ plugins' = <<>> /\ queue' = <<>> /\ inside' = Nobody
            /\ UNCHANGED <<todo, failed>>
        BY <1>8, <2>1 DEF PassEnds, After, Running
      <3> QED BY <2>1, <3>1, RangeEmpty DEF LifeInv, Placed, NewIsLast
    <2>2. CASE pc # "unloading"
      <3>1. /\ UNCHANGED <<todo, failed, plugins, queue>> /\ inside' = Nobody
            /\ pc' \notin {"loading", "ended"} /\ pc \notin {"loading", "ended"}
        BY <1>8, <2>2 DEF PassEnds, After, Passes, Running
      <3> QED BY <3>1, LifePass
    <2> QED BY <2>1, <2>2
  <1>9. CASE StartupFails \/ UserEdit \/ Ended \/ UNCHANGED vars
    BY <1>2, <1>9 DEF StartupFails, UserEdit, Ended, vars, control, libs
  <1> QED BY <1>1, <1>3, <1>4, <1>5, <1>6, <1>7, <1>8, <1>9, Zenon DEF Next

-----------------------------------------------------------------------------
(* Steps as steps of PluginLife. *)

Lives == [p \in Plugin |-> Life(p)]

LEMMA EnterStep ==
  ASSUME NEW p \in Plugin, NEW from, NEW to, inside = Nobody, inside' = p,
         Life(p) = from, (Life(p))' = to,
         \A q \in Plugin \ {p} : (Life(q))' = Life(q)
  PROVE  Lifecycle!Enter(p, from, to)
  <1>1. Lives' = [Lives EXCEPT ![p] = to]
    BY DEF Lives
  <1> QED BY <1>1 DEF Lives, Lifecycle!Enter

LEMMA LeaveStep ==
  ASSUME NEW p \in Plugin, NEW from, NEW to, inside = p, inside' = Nobody,
         Life(p) = from, (Life(p))' = to,
         \A q \in Plugin \ {p} : (Life(q))' = Life(q)
  PROVE  Lifecycle!Leave(p, from, to)
  <1>1. Lives' = [Lives EXCEPT ![p] = to]
    BY DEF Lives
  <1> QED BY <1>1 DEF Lives, Lifecycle!Leave

LEMMA StutterStep ==
  ASSUME UNCHANGED inside, \A q \in Plugin : (Life(q))' = Life(q)
  PROVE  UNCHANGED Lifecycle!vars
  BY DEF Lifecycle!vars

(* A life depends on where the plugin is, and on its place in the pass. *)
LEMMA SameLife ==
  ASSUME NEW q \in Plugin, pc' = pc,
         (q \in todo') <=> (q \in todo), (q \in failed') <=> (q \in failed),
         (q \in Range(plugins')) <=> (q \in Range(plugins)),
         (q \in Range(queue')) <=> (q \in Range(queue)),
         (inside' = q) <=> (inside = q)
  PROVE  (Life(q))' = Life(q)
  BY DEF Life, StageOf

LEMMA LoadingSteps ==
  ASSUME HostAssumption, TypeOK, LifeInv, NEW p \in Plugin,
         Skip(p) \/ LoadEntry(p) \/ InitSucceeds(p) \/ InitFails(p)
  PROVE  Lifecycle!Next
  <1>1. /\ plugins \in Seq(Plugin) /\ pc = "loading" /\ pc' = "loading" /\ queue' = queue /\ p # Nobody
        /\ todo \cap failed = {} /\ todo \cap Range(plugins) = {} /\ failed \cap Range(plugins) = {}
    BY DEF TypeOK, LifeInv, Placed, Skip, LoadEntry, InitSucceeds, InitFails, control, HostAssumption
  <1>2. CASE Skip(p)
    <2>1. /\ p \in todo /\ todo' = todo \ {p} /\ failed' = failed \cup {p}
          /\ UNCHANGED <<plugins, inside>> /\ inside = Nobody
      BY <1>2 DEF Skip, control, Running
    <2>2. Life(p) = "absent" /\ (Life(p))' = "out"
      BY <2>1, <1>1 DEF Life, StageOf
    <2>3. \A q \in Plugin \ {p} : (Life(q))' = Life(q)
      BY <1>1, <2>1, SameLife
    <2>4. Lives' = [Lives EXCEPT ![p] = "out"]
      BY <2>2, <2>3 DEF Lives
    <2>5. Lifecycle!Skip(p)
      BY <2>1, <2>2, <2>4 DEF Lifecycle!Skip, Lives
    <2> QED BY <2>5 DEF Lifecycle!Next
  <1>3. CASE LoadEntry(p)
    <2>1. /\ p \in todo /\ todo' = todo \ {p} /\ failed' = failed
          /\ plugins' = Append(plugins, p) /\ inside' = p /\ inside = Nobody
      BY <1>3 DEF LoadEntry, Running
    <2>2. Range(plugins') = Range(plugins) \cup {p}
      BY <1>1, <2>1, RangeAppend
    <2>3. Life(p) = "absent" /\ (Life(p))' = "initialising"
      BY <1>1, <2>1, <2>2 DEF Life, StageOf
    <2>4. \A q \in Plugin \ {p} : (Life(q))' = Life(q)
      BY <1>1, <2>1, <2>2, SameLife DEF TypeOK, HostAssumption
    <2>5. Lifecycle!Initialise(p)
      BY <2>1, <2>3, <2>4, EnterStep DEF Lifecycle!Initialise
    <2> QED BY <2>5 DEF Lifecycle!Next
  <1>4. CASE InitSucceeds(p)
    <2>1. UNCHANGED <<todo, failed, plugins>> /\ inside = p /\ inside' = Nobody
      BY <1>4 DEF InitSucceeds, libs, InPlugin
    <2>2. p \in Range(plugins)
      BY <1>1, <2>1 DEF LifeInv, PassOrder
    <2>3. Life(p) = "initialising" /\ (Life(p))' = "ready"
      BY <1>1, <2>1, <2>2 DEF Life, StageOf
    <2>4. \A q \in Plugin \ {p} : (Life(q))' = Life(q)
      BY <1>1, <2>1, SameLife DEF HostAssumption
    <2>5. Lifecycle!Accept(p)
      BY <2>1, <2>3, <2>4, LeaveStep DEF Lifecycle!Accept
    <2> QED BY <2>5 DEF Lifecycle!Next
  <1>5. CASE InitFails(p)
    <2>1. /\ plugins' = Front(plugins) /\ failed' = failed \cup {p} /\ todo' = todo
          /\ inside = p /\ inside' = Nobody
      BY <1>5 DEF InitFails, Popped, InPlugin
    <2>2. plugins # <<>> /\ plugins[Len(plugins)] = p /\ Once(plugins) /\ p \in Range(plugins)
      BY <1>1, <2>1 DEF LifeInv, NewIsLast, PassOrder
    <2>3. Range(plugins') = Range(plugins) \ {p}
      BY <1>1, <2>1, <2>2, RangeFront
    <2>4. Life(p) = "initialising" /\ (Life(p))' = "out"
      BY <1>1, <2>1, <2>2, <2>3 DEF Life, StageOf
    <2>5. \A q \in Plugin \ {p} : (Life(q))' = Life(q)
      BY <1>1, <2>1, <2>3, SameLife DEF HostAssumption
    <2>6. Lifecycle!Reject(p)
      BY <2>1, <2>4, <2>5, LeaveStep DEF Lifecycle!Reject
    <2> QED BY <2>6 DEF Lifecycle!Next
  <1> QED BY <1>2, <1>3, <1>4, <1>5

(* A pass calls the next plugin: it starts, serves or stops it. *)
LEMMA CallStep ==
  ASSUME HostAssumption, TypeOK, LifeInv, Call
  PROVE  Lifecycle!Next
  <1>0. /\ queue # <<>> /\ queue \in Seq(Plugin) /\ Once(queue)
        /\ Range(queue') = Range(queue) \ {Head(queue)} /\ Head(queue) \in Range(queue)
    BY RangeTail DEF Call, LifeInv, PassOrder, TypeOK
  <1> PICK p \in Plugin : p = Head(queue)
    BY <1>0
  <1>1. /\ UNCHANGED <<todo, failed, plugins, pc>> /\ pc \in Passes
        /\ inside' = p /\ inside = Nobody
    BY DEF Call, libs, Running
  <1>2. Range(queue') = Range(queue) \ {p} /\ p \in Range(queue)
    BY <1>0
  <1>3. /\ todo = {} /\ failed \cap Range(plugins) = {} /\ Plugin \subseteq failed \cup Range(plugins)
        /\ p \in Range(plugins) /\ Range(queue) \subseteq Range(plugins) /\ pc # "loading"
    BY <1>1, <1>2 DEF LifeInv, Placed, PassOrder, Passes
  <1>4. p \in Plugin /\ Nobody \notin Plugin
    BY DEF HostAssumption
  <1>5. \A q \in Plugin \ {p} : (Life(q))' = Life(q)
    BY <1>1, <1>2, <1>4, SameLife
  <1>6. CASE pc = "starting"
    <2>1. Life(p) = "ready" /\ (Life(p))' = "starting"
      BY <1>1, <1>2, <1>3, <1>6 DEF Life, StageOf
    <2>2. Lifecycle!Start(p)
      BY <1>1, <1>4, <1>5, <2>1, EnterStep DEF Lifecycle!Start
    <2> QED BY <1>4, <2>2 DEF Lifecycle!Next
  <1>7. CASE pc = "unloading"
    <2>1. Life(p) = "running" /\ (Life(p))' = "stopping"
      BY <1>1, <1>2, <1>3, <1>7 DEF Life, StageOf
    <2>2. \A q \in Plugin : Life(q) \in {"out", "running", "gone"}
      BY <1>1, <1>3, <1>4, <1>7 DEF Life, StageOf
    <2>3. Lifecycle!Stop(p)
      BY <1>1, <1>4, <1>5, <2>1, <2>2, EnterStep DEF Lifecycle!Stop, Lives
    <2> QED BY <1>4, <2>3 DEF Lifecycle!Next
  <1>8. CASE pc \in {"reloading", "event", "drawing"}
    <2>1. Life(p) = "running" /\ (Life(p))' = "running"
      BY <1>1, <1>2, <1>3, <1>8 DEF Life, StageOf
    <2>2. \A q \in Plugin : Life(q) \in {"out", "running"}
      BY <1>1, <1>3, <1>8 DEF Life, StageOf
    <2>3. Lifecycle!Serve(p)
      BY <1>1, <1>4, <1>5, <2>1, <2>2, EnterStep DEF Lifecycle!Serve, Lives
    <2> QED BY <1>4, <2>3 DEF Lifecycle!Next
  <1> QED BY <1>1, <1>6, <1>7, <1>8 DEF Passes

(* The called plugin returns. *)
LEMMA ReturnStep ==
  ASSUME HostAssumption, TypeOK, LifeInv, NEW p \in Plugin, Return(p)
  PROVE  Lifecycle!Next
  <1>1. /\ UNCHANGED <<todo, failed, plugins, pc, queue>> /\ pc \in Passes
        /\ inside = p /\ inside' = Nobody /\ p # Nobody
    BY DEF Return, InPlugin
  <1>2. /\ todo = {} /\ failed \cap Range(plugins) = {} /\ p \in Range(plugins) /\ p \notin Range(queue)
    BY <1>1 DEF LifeInv, Placed, PassOrder, Passes
  <1>3. \A q \in Plugin \ {p} : (Life(q))' = Life(q)
    BY <1>1, SameLife DEF HostAssumption
  <1>4. CASE pc = "starting"
    <2>1. Life(p) = "starting" /\ (Life(p))' = "running"
      BY <1>1, <1>2, <1>4 DEF Life, StageOf
    <2>2. Lifecycle!Started(p)
      BY <1>1, <1>3, <2>1, LeaveStep DEF Lifecycle!Started
    <2> QED BY <2>2 DEF Lifecycle!Next
  <1>5. CASE pc = "unloading"
    <2>1. Life(p) = "stopping" /\ (Life(p))' = "gone"
      BY <1>1, <1>2, <1>5 DEF Life, StageOf
    <2>2. Lifecycle!Stopped(p)
      BY <1>1, <1>3, <2>1, LeaveStep DEF Lifecycle!Stopped
    <2> QED BY <2>2 DEF Lifecycle!Next
  <1>6. CASE pc \in {"reloading", "event", "drawing"}
    <2>1. Life(p) = "running" /\ (Life(p))' = "running"
      BY <1>1, <1>2, <1>6 DEF Life, StageOf
    <2>2. Lifecycle!Served(p)
      BY <1>1, <1>3, <2>1, LeaveStep DEF Lifecycle!Served
    <2> QED BY <2>2 DEF Lifecycle!Next
  <1> QED BY <1>1, <1>4, <1>5, <1>6 DEF Passes

(* A callback that throws inside the loop is over, too. *)
LEMMA ThrowStep ==
  ASSUME HostAssumption, TypeOK, LifeInv, NEW p \in Plugin, SaveThrows(p)
  PROVE  Lifecycle!Next \/ UNCHANGED Lifecycle!vars
  <1>1. CASE pc \in {"reloading", "event", "drawing"}
    <2>1. /\ UNCHANGED <<todo, failed, plugins>> /\ pc' = "releasing"
          /\ inside = p /\ inside' = Nobody
      BY <1>1 DEF SaveThrows, InPlugin, libs
    <2>2. todo = {} /\ failed \cap Range(plugins) = {} /\ p \in Range(plugins)
      BY <1>1, <2>1 DEF LifeInv, Placed, PassOrder, HostAssumption
    <2>3. \A q \in Plugin : (Life(q))' = Life(q)
      BY <1>1, <2>1 DEF Life, StageOf
    <2>4. Life(p) = "running"
      BY <1>1, <2>2 DEF Life, StageOf
    <2>5. Lifecycle!Served(p)
      BY <2>1, <2>3, <2>4, LeaveStep DEF Lifecycle!Served
    <2> QED BY <2>5 DEF Lifecycle!Next
  <1>2. CASE pc \notin {"reloading", "event", "drawing"}
    <2>1. UNCHANGED <<todo, failed, plugins, pc, queue, inside>>
      BY <1>2 DEF SaveThrows, libs
    <2>2. \A q \in Plugin : (Life(q))' = Life(q)
      BY <2>1, SameLife
    <2> QED BY <2>1, <2>2, StutterStep
  <1> QED BY <1>1, <1>2

(* The passes begin and end where no life changes: a life is told by where   *)
(* main is only as far as it says whether a pass has come to the plugin.     *)
LEMMA PhaseSteps ==
  ASSUME HostAssumption, TypeOK, LifeInv,
         Configure \/ Layout \/ PassEnds \/ Top \/ Event \/ Check \/ Release \/ Unregister
  PROVE  UNCHANGED Lifecycle!vars
  <1> SUFFICES ASSUME NEW q \in Plugin PROVE (Life(q))' = Life(q)
    <2>1. inside' = inside
      BY DEF Configure, Layout, PassEnds, Top, Event, Check, Release, Unregister
    <2> QED BY <2>1, StutterStep
  <1>0. /\ inside = Nobody /\ inside' = Nobody /\ q # Nobody
        /\ UNCHANGED <<todo, failed>> /\ pc # "ended"
        /\ (pc # "loading" \/ pc' # "loading") => todo = {}
    BY DEF Configure, Layout, PassEnds, Top, Event, Check, Release, Unregister, Running, libs,
           HostAssumption, LifeInv, Placed, Passes
  <1>1. q \in todo \/ q \in failed \/ q \in Range(plugins)
    BY <1>0 DEF LifeInv, Placed
  <1>2. CASE Configure
    <2>1. UNCHANGED plugins /\ pc \in {"loading", "configuring"} /\ pc' \in {"configuring", "layout"}
          /\ todo = {}
      BY <1>0, <1>2 DEF Configure, libs
    <2> QED BY <1>0, <2>1 DEF Life, StageOf
  <1>3. CASE Layout
    <2>1. UNCHANGED plugins /\ pc = "layout" /\ pc' = "starting" /\ queue' = plugins
      BY <1>3 DEF Layout, libs
    <2> QED BY <1>0, <1>1, <2>1 DEF Life, StageOf
  <1>4. CASE PassEnds
    <2>1. queue = <<>> /\ queue' = <<>> /\ pc \in Passes /\ pc' = After[pc] /\ Range(queue) = {}
          /\ Range(queue') = {}
      BY <1>4, RangeEmpty DEF PassEnds
    <2>2. CASE pc = "unloading"
      <3>1. plugins' = <<>> /\ pc' = "ended" /\ Range(plugins') = {}
        BY <1>4, <2>1, <2>2, RangeEmpty DEF PassEnds, After
      <3> QED BY <1>0, <1>1, <2>1, <2>2, <3>1 DEF Life, StageOf
    <2>3. CASE pc # "unloading"
      <3>1. UNCHANGED plugins /\ pc' \in {"top", "events"} /\ pc \in {"starting", "reloading", "event", "drawing"}
        BY <1>4, <2>1, <2>3 DEF PassEnds, After, Passes
      <3> QED BY <1>0, <1>1, <2>1, <3>1 DEF Life, StageOf
    <2> QED BY <2>2, <2>3
  <1>5. CASE Top \/ Event \/ Check \/ Release
    <2>1. /\ UNCHANGED plugins /\ pc \in {"top", "events", "releasing"}
          /\ pc' \in {"reloading", "releasing", "events", "event", "drawing", "unregistering"}
      BY <1>5 DEF Top, Event, Check, Release, libs, After
    <2> QED BY <1>0, <1>1, <2>1 DEF Life, StageOf
  <1>6. CASE Unregister
    <2>1. UNCHANGED plugins /\ pc = "unregistering" /\ pc' = "unloading" /\ queue' = plugins
      BY <1>6 DEF Unregister, libs, After
    <2> QED BY <1>0, <1>1, <2>1 DEF Life, StageOf
  <1> QED BY <1>2, <1>3, <1>4, <1>5, <1>6

(* The other steps touch neither the deque nor the pass. *)
LEMMA QuietSteps ==
  ASSUME UNCHANGED <<todo, failed, plugins, pc, queue, inside>>
  PROVE  UNCHANGED Lifecycle!vars
  <1>1. \A q \in Plugin : (Life(q))' = Life(q)
    BY SameLife
  <1> QED BY <1>1, StutterStep

LEMMA LifeStep ==
  ASSUME HostAssumption, TypeOK, LifeInv, [Next]_vars
  PROVE  [Lifecycle!Next]_Lifecycle!vars
  <1>1. CASE \E p \in Plugin : Skip(p) \/ LoadEntry(p) \/ InitSucceeds(p) \/ InitFails(p)
    BY <1>1, LoadingSteps
  <1>2. CASE \E p \in Plugin : \/ (\E i \in Ids : RegisterVisualizer(p, i))
                              \/ RegisterOption(p) \/ (\E v \in Value : SetOption(p, v))
                              \/ SaveConfig(p)
    BY <1>2, QuietSteps DEF RegisterVisualizer, RegisterOption, SetOption, SaveConfig, control, libs
  <1>3. CASE \E p \in Plugin : Return(p)
    BY <1>3, ReturnStep
  <1>4. CASE \E p \in Plugin : SaveThrows(p)
    BY <1>4, ThrowStep
  <1>5. CASE Call
    BY <1>5, CallStep
  <1>6. CASE Configure \/ Layout \/ PassEnds \/ Top \/ Event \/ Check \/ Release \/ Unregister
    BY <1>6, PhaseSteps
  <1>7. CASE StartupFails \/ UserEdit \/ Ended \/ UNCHANGED vars
    BY <1>7, QuietSteps DEF StartupFails, UserEdit, Ended, vars, control, libs
  <1> QED BY <1>1, <1>2, <1>3, <1>4, <1>5, <1>6, <1>7, Zenon DEF Next

LEMMA LifeInit ==
  ASSUME HostAssumption, Init
  PROVE  LifeInv /\ Lifecycle!Init
  <1>1. /\ plugins = <<>> /\ queue = <<>> /\ inside = Nobody /\ todo = Plugin /\ failed = {}
        /\ pc = "loading" /\ Range(plugins) = {} /\ Range(queue) = {}
        /\ Once(plugins) /\ Once(queue)
    BY RangeEmpty DEF Init
  <1>2. LifeInv
    BY <1>1 DEF LifeInv, Placed, PassOrder, NewIsLast
  <1>3. \A p \in Plugin : Life(p) = "absent"
    BY <1>1 DEF Life
  <1> QED BY <1>1, <1>2, <1>3 DEF Lifecycle!Init

(* The host implements the lifecycle that its documentation promises: for    *)
(* every set of plugins, in every order of failing and throwing callbacks,   *)
(* init, start, the served calls and stop come once each and in this order.  *)
THEOREM PluginLifeImplemented == Spec => ImplementsPluginLife
  <1>1. Init => LifeInv /\ Lifecycle!Init
    BY LifeInit, HostAssumption
  <1>2. TypeOK /\ LifeInv /\ [Next]_vars => LifeInv'
    BY LifeNext, HostAssumption
  <1>3. TypeOK /\ LifeInv /\ [Next]_vars => [Lifecycle!Next]_Lifecycle!vars
    BY LifeStep, HostAssumption
  <1> QED BY <1>1, <1>2, <1>3, TypeCorrect, PTL DEF Spec, ImplementsPluginLife, Lifecycle!Spec

=============================================================================
