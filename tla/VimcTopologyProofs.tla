------------------------- MODULE VimcTopologyProofs -------------------------
(* Theorems about VimcTopology, for every set of entities, links and types. *)
EXTENDS VimcTopology, TLAPS

-----------------------------------------------------------------------------
(* Type correctness.                                                        *)

\* Nothing configured is well typed.
LEMMA InitType == Init => TypeOK
<1> SUFFICES ASSUME Init PROVE TypeOK
  OBVIOUS
<1>1. /\ name \in [Obj -> Name \cup {NULL}]
      /\ drv \in [Obj -> EntType \cup {NULL}]
      /\ dev \in [Obj -> {"null", "live", "dangling"}]
  BY DEF Init
<1>2. flags \in [Link -> Flags]
  BY TopologyAssumption DEF TopologyAssumption, Init
<1>3. lsrc \in [Link -> MaybeObj] /\ lsnk \in [Link -> MaybeObj]
  BY DEF Init, MaybeObj
<1>4. /\ dir \in BOOLEAN
      /\ ents \subseteq Obj
      /\ links \subseteq Link
      /\ graph \subseteq Edge
      /\ pdev = "none" /\ oops = "no"
  BY DEF Init
<1> QED
  BY <1>1, <1>2, <1>3, <1>4 DEF TypeOK

\* platform_device_unregister keeps the types of what it changes.
LEMMA UnplugType ==
    ASSUME TypeOK, UnplugRest
    PROVE  /\ DevAfterUnplug \in [Obj -> {"null", "live", "dangling"}]
           /\ pdev' \in {"none", "unbound", "bound"}
           /\ graph' \subseteq Edge'
           /\ oops' \in {"no", "add_bug", "rm_bug", "null_deref", "stale_link",
                         "double_free"}
<1>1. DevAfterUnplug \in [Obj -> {"null", "live", "dangling"}]
  BY DEF TypeOK, DevAfterUnplug
<1> QED
  BY <1>1 DEF TypeOK, UnplugRest

\* Resolving some of the links keeps the caches functions on Link.
LEMMA ResolveType ==
    ASSUME TypeOK, NEW S \in SUBSET Link, LinkSetEnts(S)
    PROVE  lsrc' \in [Link -> MaybeObj] /\ lsnk' \in [Link -> MaybeObj]
BY DEF TypeOK, LinkSetEnts

\* A media link made from resolved endpoints is well typed.
LEMMA EdgeType ==
    ASSUME TypeOK, NEW l \in links, ~Stale(l)
    PROVE  EdgeOf(l) \in Edge
<1>1. lsrc'[l] \in Obj /\ lsnk'[l] \in Obj
  BY DEF TypeOK, Stale
<1>2. l.srcPad \in Nat /\ l.snkPad \in Nat /\ flags[l] \in Flags
  BY TopologyAssumption DEF TopologyAssumption, TypeOK
<1> QED
  BY <1>1, <1>2 DEF EdgeOf, Edge

\* Every handler keeps every type.
LEMMA NextType == TypeOK /\ [Next]_vars => TypeOK'
<1> SUFFICES ASSUME TypeOK, [Next]_vars PROVE TypeOK'
  OBVIOUS
<1> USE TopologyAssumption DEF TopologyAssumption
<1>1. CASE MakeDevice
  BY <1>1 DEF TypeOK, MakeDevice, caches, device, MaybeObj, Edge
<1>2. CASE DropDevice
  BY <1>2, UnplugType DEF TypeOK, DropDevice, Unplug, caches, MaybeObj
<1>3. ASSUME NEW d \in Driver, NEW n \in Name, RefuseEntity(d, n)
      PROVE  TypeOK'
  BY <1>3, UnplugType DEF TypeOK, RefuseEntity, Unplug, config, caches, MaybeObj
<1>4. ASSUME NEW d \in Driver, NEW n \in Name, MakeEntity(d, n)
      PROVE  TypeOK'
  BY <1>4, UnplugType DEF TypeOK, MakeEntity, AddEntity, Unplug, caches, MaybeObj
<1>5. ASSUME NEW e \in ents, DropEntity(e) PROVE TypeOK'
  BY <1>5, UnplugType DEF TypeOK, DropEntity, caches, MaybeObj
<1>6. CASE RefuseLink
  BY <1>6, UnplugType DEF TypeOK, RefuseLink, Unplug, config, caches, MaybeObj
<1>7. ASSUME NEW l \in Link, MakeLink(l) PROVE TypeOK'
  BY <1>7, UnplugType DEF TypeOK, MakeLink, Unplug, MaybeObj
<1>8. ASSUME NEW l \in links, DropLink(l) PROVE TypeOK'
  BY <1>8, UnplugType DEF TypeOK, DropLink, Unplug, MaybeObj
<1>9. ASSUME NEW l \in links, NEW v \in Flags, FlagsStore(l, v)
      PROVE  TypeOK'
  BY <1>9 DEF TypeOK, FlagsStore, caches, device, MaybeObj, Edge
<1>10. CASE HotplugPlug
  <2>1. CASE PlugUnresolved
    <3>1. PICK S \in SUBSET Link : LinkSetEnts(S)
      BY <2>1 DEF PlugUnresolved, TypeOK
    <3> QED
      BY <2>1, <3>1, ResolveType DEF TypeOK, PlugUnresolved, config, device,
         MaybeObj, Edge
  <2>2. CASE PlugResolved
    <3>1. lsrc' \in [Link -> MaybeObj] /\ lsnk' \in [Link -> MaybeObj]
      BY <2>2, ResolveType DEF PlugResolved, TypeOK
    <3>2. UNCHANGED config
      BY <2>2 DEF PlugResolved
    <3>3. CASE UNCHANGED device
      BY <3>1, <3>2, <3>3 DEF TypeOK, config, device, MaybeObj, Edge
    <3>4. CASE Probe
      <4>1. dev' \in [Obj -> {"null", "live", "dangling"}]
        BY <3>4 DEF TypeOK, Probe, ProbeFails, Crash, DevAfterFailedAdd
      <4>2. graph' \subseteq Edge
        BY <3>4, EdgeType DEF TypeOK, Probe, ProbeFails, Crash
      <4>3. /\ pdev' \in {"none", "unbound", "bound"}
            /\ oops' \in {"no", "add_bug", "rm_bug", "null_deref",
                          "stale_link", "double_free"}
        BY <3>4 DEF TypeOK, Probe, ProbeFails, Crash
      <4> QED
        BY <3>1, <3>2, <4>1, <4>2, <4>3 DEF TypeOK, config, MaybeObj, Edge
    <3> QED
      BY <2>2, <3>3, <3>4 DEF PlugResolved
  <2> QED
    BY <1>10, <2>1, <2>2 DEF HotplugPlug
<1>11. CASE HotplugUnplug
  BY <1>11, UnplugType DEF TypeOK, HotplugUnplug, Unplug, config, caches, MaybeObj
<1>12. CASE UNCHANGED vars
  BY <1>12 DEF TypeOK, vars, config, caches, device, MaybeObj, Edge
<1> QED
  BY <1>1, <1>2, <1>3, <1>4, <1>5, <1>6, <1>7, <1>8, <1>9, <1>10, <1>11, <1>12
  DEF Next

\* Every variable of the device keeps its type, whatever is configured.
THEOREM TypeCorrect == Spec => []TypeOK
BY InitType, NextType, PTL DEF Spec

-----------------------------------------------------------------------------
(* What any user, careful or not, is promised.                              *)

SafeInv == TypeOK /\ BoundIsWhole /\ RemoveFindsEveryDevice

\* An unplugged device is trivially whole, and the unplug of a whole one
\* finds every device.
LEMMA UnplugSafe ==
    ASSUME SafeInv, UnplugRest
    PROVE  BoundIsWhole' /\ RemoveFindsEveryDevice'
<1>1. BoundIsWhole'
  BY DEF UnplugRest, BoundIsWhole
<1>2. ~(pdev = "bound" /\ \E e \in ents : dev[e] = "null")
  BY DEF SafeInv, BoundIsWhole
<1>3. RemoveFindsEveryDevice'
  BY <1>2 DEF SafeInv, UnplugRest, RemoveFindsEveryDevice
<1> QED
  BY <1>1, <1>3

\* A step that touches neither the lists nor the device keeps it whole.
LEMMA SameDeviceSafe ==
    ASSUME SafeInv, UNCHANGED <<ents, links, lsrc, lsnk, device>>
    PROVE  BoundIsWhole' /\ RemoveFindsEveryDevice'
BY DEF SafeInv, BoundIsWhole, RemoveFindsEveryDevice, device

\* A probe that binds the device made every entity and link of the lists.
LEMMA ProbeSafe ==
    ASSUME SafeInv, Probe, ents # {}, Cardinality(ents) <= MaxEnts,
           pdev = "none", UNCHANGED config,
           lsrc' \in [Link -> MaybeObj], lsnk' \in [Link -> MaybeObj]
    PROVE  BoundIsWhole' /\ RemoveFindsEveryDevice'
<1>1. RemoveFindsEveryDevice'
  BY DEF SafeInv, RemoveFindsEveryDevice, Probe, ProbeFails, Crash
<1>2. ASSUME pdev' = "bound" PROVE BoundIsWhole'
  <2>1. /\ \A l \in links : ~Stale(l)
        /\ dev' = [o \in Obj |-> IF o \in ents THEN "live" ELSE dev[o]]
        /\ graph' = {EdgeOf(l) : l \in links}
    BY <1>2 DEF Probe, ProbeFails, Crash
  <2>2. ents' = ents /\ links' = links /\ ents \subseteq Obj
    BY DEF config, SafeInv, TypeOK
  <2>3. \A e \in ents : dev'[e] = "live"
    BY <2>1, <2>2
  <2>4. \A g \in graph' : {g.src, g.snk} \subseteq ents
    BY <2>1 DEF EdgeOf, Stale
  <2>5. \A l \in links : /\ EdgeOf(l) \in graph'
                         /\ EdgeOf(l).src = lsrc'[l]
                         /\ EdgeOf(l).srcPad = l.srcPad
                         /\ EdgeOf(l).snk = lsnk'[l]
                         /\ EdgeOf(l).snkPad = l.snkPad
    BY <2>1 DEF EdgeOf
  <2> QED
    BY <2>2, <2>3, <2>4, <2>5 DEF BoundIsWhole
<1> QED
  BY <1>1, <1>2 DEF BoundIsWhole

\* Every handler keeps a bound device whole.
LEMMA NextSafe == SafeInv /\ [Next]_vars => SafeInv'
<1> SUFFICES ASSUME SafeInv, [Next]_vars
             PROVE  BoundIsWhole' /\ RemoveFindsEveryDevice'
  BY NextType DEF SafeInv
<1>1. CASE MakeDevice
  BY <1>1, SameDeviceSafe DEF MakeDevice, caches
<1>2. CASE DropDevice
  BY <1>2, UnplugSafe DEF DropDevice, Unplug
<1>3. ASSUME NEW d \in Driver, NEW n \in Name,
             RefuseEntity(d, n) \/ MakeEntity(d, n)
      PROVE  BoundIsWhole' /\ RemoveFindsEveryDevice'
  BY <1>3, UnplugSafe DEF RefuseEntity, MakeEntity, Unplug
<1>4. ASSUME NEW e \in ents, DropEntity(e)
      PROVE  BoundIsWhole' /\ RemoveFindsEveryDevice'
  BY <1>4, UnplugSafe DEF DropEntity
<1>5. CASE RefuseLink
  BY <1>5, UnplugSafe DEF RefuseLink, Unplug
<1>6. ASSUME NEW l \in Link, MakeLink(l)
      PROVE  BoundIsWhole' /\ RemoveFindsEveryDevice'
  BY <1>6, UnplugSafe DEF MakeLink, Unplug
<1>7. ASSUME NEW l \in links, DropLink(l)
      PROVE  BoundIsWhole' /\ RemoveFindsEveryDevice'
  BY <1>7, UnplugSafe DEF DropLink, Unplug
<1>8. ASSUME NEW l \in links, NEW v \in Flags, FlagsStore(l, v)
      PROVE  BoundIsWhole' /\ RemoveFindsEveryDevice'
  BY <1>8, SameDeviceSafe DEF FlagsStore, caches
<1>9. CASE HotplugPlug
  <2>1. pdev = "none"
    BY <1>9 DEF HotplugPlug
  <2>2. ASSUME UNCHANGED device
        PROVE  BoundIsWhole' /\ RemoveFindsEveryDevice'
    BY <2>1, <2>2
    DEF device, SafeInv, BoundIsWhole, RemoveFindsEveryDevice
  <2>3. CASE PlugUnresolved
    BY <2>2, <2>3 DEF PlugUnresolved
  <2>4. CASE PlugResolved
    <3>1. lsrc' \in [Link -> MaybeObj] /\ lsnk' \in [Link -> MaybeObj]
      BY <2>4, ResolveType DEF PlugResolved, SafeInv, TypeOK
    <3> QED
      BY <2>1, <2>2, <2>4, <3>1, ProbeSafe DEF PlugResolved
  <2> QED
    BY <1>9, <2>3, <2>4 DEF HotplugPlug
<1>10. CASE HotplugUnplug
  BY <1>10, UnplugSafe DEF HotplugUnplug, Unplug
<1>11. CASE UNCHANGED vars
  BY <1>11, SameDeviceSafe DEF vars, config, caches
<1> QED
  BY <1>1, <1>2, <1>3, <1>4, <1>5, <1>6, <1>7, <1>8, <1>9, <1>10, <1>11
  DEF Next

\* A bound device is whole in every state.
LEMMA Safe == Spec => []SafeInv
<1>1. Init => SafeInv
  BY InitType DEF SafeInv, Init, BoundIsWhole, RemoveFindsEveryDevice
<1> QED
  BY <1>1, NextSafe, PTL DEF Spec

\* A bound device is whole, under any use and any failure.
THEOREM BoundDeviceIsWhole == Spec => []BoundIsWhole
<1>1. SafeInv => BoundIsWhole
  BY DEF SafeInv
<1> QED
  BY <1>1, Safe, PTL

\* BUG_ON(!ent->vimc_ent_dev) of vimc_rm_subdevs is out of reach.
THEOREM RemoveNeverBugs == Spec => []RemoveFindsEveryDevice
<1>1. SafeInv => RemoveFindsEveryDevice
  BY DEF SafeInv
<1> QED
  BY <1>1, Safe, PTL

\* No handler changes the lists of a device that it leaves plugged.
THEOREM ListsFrozen == Spec => ListsFrozenWhilePlugged
<1>1. [Next]_vars
        => [pdev # "none" /\ pdev' # "none" => UNCHANGED <<ents, links, pdev, dev>>]_vars
  BY DEF Next, MakeDevice, DropDevice, RefuseEntity, MakeEntity, DropEntity,
         RefuseLink, MakeLink, DropLink, FlagsStore, HotplugPlug,
         HotplugUnplug, Unplug, UnplugRest, vars, config, caches, device
<1> QED
  BY <1>1, PTL DEF Spec, ListsFrozenWhilePlugged

-----------------------------------------------------------------------------
(* What the careful user is promised.  None of the five properties is       *)
(* inductive alone: a plug goes well because the caches are current and     *)
(* nothing is left behind, and stays so because no plug went wrong.         *)

\* Configured entities have a name and a driver that mkdir accepted, and an
\* address that holds no entity holds no device.
ObjectsInOrder ==
    /\ \A e \in ents : name[e] \in Name /\ drv[e] \in EntType
    /\ \A o \in Obj \ ents : dev[o] = "null"

CarefulInv ==
    /\ SafeInv
    /\ ObjectsInOrder
    /\ UniqueNames
    /\ CachesCurrent
    /\ NeverStops
    /\ NothingLeftBehind
    /\ WiredAsConfigured

\* The invariant of the careful user holds before he does anything.
LEMMA InitCareful == Init => CarefulInv
<1> SUFFICES ASSUME Init PROVE CarefulInv
  OBVIOUS
<1>1. SafeInv
  BY InitType DEF SafeInv, Init, BoundIsWhole, RemoveFindsEveryDevice
<1>2. ObjectsInOrder /\ UniqueNames /\ NothingLeftBehind
  BY DEF Init, ObjectsInOrder, UniqueNames, NothingLeftBehind
<1>3. CachesCurrent /\ NeverStops /\ WiredAsConfigured
  BY DEF Init, CachesCurrent, NeverStops, WiredAsConfigured
<1> QED
  BY <1>1, <1>2, <1>3 DEF CarefulInv

\* An unplug under the invariant leaves no device anywhere.
LEMMA UnplugCareful ==
    ASSUME CarefulInv
    PROVE  /\ \A o \in Obj : DevAfterUnplug[o] = "null"
           /\ UnplugRest => NeverStops' /\ WiredAsConfigured'
<1>1. ASSUME NEW o \in Obj PROVE DevAfterUnplug[o] = "null"
  <2>1. CASE pdev = "bound"
    BY <2>1 DEF CarefulInv, ObjectsInOrder, DevAfterUnplug
  <2>2. CASE pdev # "bound"
    BY <2>2 DEF CarefulInv, NothingLeftBehind, DevAfterUnplug
  <2> QED
    BY <2>1, <2>2
<1>4. UnplugRest => NeverStops'
  <2>1. ~(pdev = "bound" /\ \E e \in ents : dev[e] = "null")
    BY DEF CarefulInv, SafeInv, BoundIsWhole
  <2> QED
    BY <2>1 DEF CarefulInv, UnplugRest, NeverStops
<1>5. UnplugRest => WiredAsConfigured'
  BY DEF UnplugRest, WiredAsConfigured
<1> QED
  BY <1>1, <1>4, <1>5

\* An endpoint found for a link is an entity of the right name.
LEMMA EndpointFound ==
    ASSUME CarefulInv, Benign, NEW l \in links, NEW o, o # NULL
    PROVE  /\ o \in Sources(l) => o \in ents /\ name[o] = l.src
           /\ o \in Sinks(l) => o \in ents /\ name[o] = l.snk
<1>1. \A e \in ents : Stored[name[e]] = name[e]
  BY DEF CarefulInv, ObjectsInOrder, Benign
<1> QED
  BY <1>1 DEF CarefulInv, CachesCurrent, Sources, Sinks, Endpoint

\* Resolving links at a plug finds entities of the right names.
LEMMA ResolveCareful ==
    ASSUME CarefulInv, Benign, NEW S \in SUBSET links, LinkSetEnts(S),
           UNCHANGED config
    PROVE  /\ CachesCurrent'
           /\ \A l \in S : lsrc'[l] \in Sources(l) /\ lsnk'[l] \in Sinks(l)
<1>1. links \subseteq Link
  BY DEF CarefulInv, SafeInv, TypeOK
<1>2. PICK f \in [S -> MaybeObj], g \in [S -> MaybeObj] :
        /\ \A l \in S : f[l] \in Sources(l) /\ g[l] \in Sinks(l)
        /\ lsrc' = [l \in Link |-> IF l \in S THEN f[l] ELSE lsrc[l]]
        /\ lsnk' = [l \in Link |-> IF l \in S THEN g[l] ELSE lsnk[l]]
  BY DEF LinkSetEnts
<1>3. ASSUME NEW l \in links
      PROVE  /\ lsrc'[l] # NULL => lsrc'[l] \in ents /\ name[lsrc'[l]] = l.src
             /\ lsnk'[l] # NULL => lsnk'[l] \in ents /\ name[lsnk'[l]] = l.snk
  <2>1. CASE l \in S
    <3>1. lsrc'[l] \in Sources(l) /\ lsnk'[l] \in Sinks(l)
      BY <1>1, <1>2, <2>1
    <3> QED
      BY <3>1, EndpointFound
  <2>2. CASE l \notin S
    BY <1>1, <1>2, <2>2 DEF CarefulInv, CachesCurrent
  <2> QED
    BY <2>1, <2>2
<1>4. CachesCurrent'
  BY <1>3 DEF CachesCurrent, config
<1> QED
  BY <1>1, <1>2, <1>4

\* Under the invariant a probe cannot but succeed.
LEMMA ProbeSucceeds ==
    ASSUME CarefulInv, Benign, Probe, UNCHANGED config, CachesCurrent',
           pdev = "none", pdev' # "none" => PadsInRange, oops = "no",
           \A l \in links : lsrc'[l] # NULL /\ lsnk'[l] # NULL
    PROVE  /\ \A l \in links : ~Stale(l)
           /\ pdev' = "bound"
           /\ dev' = [o \in Obj |-> IF o \in ents THEN "live" ELSE dev[o]]
           /\ graph' = {EdgeOf(l) : l \in links}
           /\ oops' = "no"
<1>1. ents' = ents /\ links' = links /\ name' = name /\ ~Faults
  BY DEF config, Benign
<1>2. ASSUME NEW l \in links
      PROVE  /\ lsrc'[l] \in ents /\ name[lsrc'[l]] = l.src
             /\ lsnk'[l] \in ents /\ name[lsnk'[l]] = l.snk
  BY <1>1 DEF CachesCurrent
<1>3. \A l \in links : ~Stale(l)
  BY <1>2 DEF Stale
<1>4. \A e \in ents : dev[e] = "null"
  BY DEF CarefulInv, NothingLeftBehind, SafeInv, TypeOK
<1>5. PadsInRange => \A l \in links : ~BadPad(l)
  <2> SUFFICES ASSUME PadsInRange, NEW l \in links PROVE ~BadPad(l)
    OBVIOUS
  <2>1. /\ l.srcPad \in SrcPads[drv[lsrc'[l]]]
        /\ l.snkPad \in SnkPads[drv[lsnk'[l]]]
    BY <1>2 DEF PadsInRange
  <2> QED
    BY <2>1 DEF BadPad
<1>6. ~ \E l \in links : BadPad(l) /\ ProbeFails(DevAfterFailedAdd)
  BY <1>5 DEF ProbeFails
<1> QED
  BY <1>1, <1>3, <1>4, <1>6 DEF Probe

\* The media links the probe makes are the configured ones, by name.
LEMMA ProbeWires ==
    ASSUME CarefulInv, Benign, UNCHANGED config, CachesCurrent',
           \A l \in links : lsrc'[l] # NULL /\ lsnk'[l] # NULL,
           graph' = {EdgeOf(l) : l \in links}
    PROVE  ByName' = links
<1>1. ents' = ents /\ links' = links /\ name' = name
  BY DEF config
<1> DEFINE Named(g) == [src |-> Stored[name[g.src]], srcPad |-> g.srcPad,
                        snk |-> Stored[name[g.snk]], snkPad |-> g.snkPad]
<1>2. ASSUME NEW l \in links PROVE Named(EdgeOf(l)) = l
  <2>1. l \in [src : Name, srcPad : Nat, snk : Name, snkPad : Nat]
    BY TopologyAssumption DEF TopologyAssumption, CarefulInv, SafeInv, TypeOK
  <2>2. name[lsrc'[l]] = l.src /\ name[lsnk'[l]] = l.snk
    BY <1>1 DEF CachesCurrent
  <2>3. Stored[l.src] = l.src /\ Stored[l.snk] = l.snk
    BY <2>1 DEF Benign
  <2> QED
    BY <2>1, <2>2, <2>3 DEF EdgeOf
<1>3. ByName' = {Named(g) : g \in graph'}
  BY <1>1 DEF ByName
<1> HIDE DEF Named
<1>4. {Named(g) : g \in graph'} = {Named(EdgeOf(l)) : l \in links}
  OBVIOUS
<1>5. {Named(EdgeOf(l)) : l \in links} = links
  BY <1>2
<1> QED
  BY <1>3, <1>4, <1>5

\* A handler that unplugs and leaves entities and caches as they are.
LEMMA UnplugOnlyCareful ==
    ASSUME CarefulInv, Unplug, UNCHANGED <<ents, name, drv>>,
           links' \subseteq Link,
           \A l \in links' : \/ l \in links /\ lsrc'[l] = lsrc[l] /\ lsnk'[l] = lsnk[l]
                             \/ lsrc'[l] = NULL /\ lsnk'[l] = NULL
    PROVE  /\ ObjectsInOrder' /\ UniqueNames' /\ CachesCurrent'
           /\ NeverStops' /\ NothingLeftBehind' /\ WiredAsConfigured'
<1>1. \A o \in Obj : dev'[o] = "null"
  BY UnplugCareful DEF Unplug
<1>2. NeverStops' /\ WiredAsConfigured'
  BY UnplugCareful DEF Unplug
<1>3. ObjectsInOrder' /\ NothingLeftBehind'
  BY <1>1 DEF CarefulInv, ObjectsInOrder, NothingLeftBehind
<1>4. UniqueNames' /\ CachesCurrent'
  BY DEF CarefulInv, UniqueNames, CachesCurrent
<1> QED
  BY <1>2, <1>3, <1>4

\* A new entity takes a new name and an address that holds no device.
LEMMA MakeEntityCareful ==
    ASSUME CarefulInv, Benign, NEW d \in Driver, NEW n \in Name, MakeEntity(d, n)
    PROVE  /\ ObjectsInOrder' /\ UniqueNames' /\ CachesCurrent'
           /\ NeverStops' /\ NothingLeftBehind' /\ WiredAsConfigured'
<1>1. \A o \in Obj : dev'[o] = "null"
  BY UnplugCareful DEF MakeEntity, Unplug
<1>2. NeverStops' /\ WiredAsConfigured'
  BY UnplugCareful DEF MakeEntity, Unplug
<1>3. /\ name \in [Obj -> Name \cup {NULL}] /\ drv \in [Obj -> EntType \cup {NULL}]
      /\ ents \subseteq Obj
  BY DEF CarefulInv, SafeInv, TypeOK
<1>4. PICK o \in Obj \ ents : /\ ents' = ents \cup {o}
                              /\ name' = [name EXCEPT ![o] = n]
                              /\ drv' = [drv EXCEPT ![o] = d]
  BY DEF MakeEntity, AddEntity
<1>5. /\ name'[o] = n /\ drv'[o] = d
      /\ \A e \in ents : e # o /\ name'[e] = name[e] /\ drv'[e] = drv[e]
  BY <1>3, <1>4
<1>6. ObjectsInOrder' /\ NothingLeftBehind'
  BY <1>1, <1>4, <1>5 DEF CarefulInv, ObjectsInOrder, NothingLeftBehind, MakeEntity
<1>7. UniqueNames'
  <2>1. \A e \in ents : Stored[name[e]] # Stored[n]
    BY DEF Benign, MakeEntity, NameTaken
  <2> QED
    BY <1>4, <1>5, <2>1 DEF CarefulInv, UniqueNames
<1>8. CachesCurrent'
  BY <1>4, <1>5 DEF CarefulInv, CachesCurrent, MakeEntity, caches
<1> QED
  BY <1>2, <1>6, <1>7, <1>8

\* No cached pointer is left to an entity that no link names.
LEMMA DropEntityCareful ==
    ASSUME CarefulInv, Careful, NEW e \in ents, DropEntity(e)
    PROVE  /\ ObjectsInOrder' /\ UniqueNames' /\ CachesCurrent'
           /\ NeverStops' /\ NothingLeftBehind' /\ WiredAsConfigured'
<1>1. \A o \in Obj : dev'[o] = "null"
  <2>1. DevAfterUnplug \in [Obj -> {"null", "live", "dangling"}]
    BY DEF CarefulInv, SafeInv, TypeOK, DevAfterUnplug
  <2> QED
    BY <2>1, UnplugCareful DEF DropEntity
<1>2. NeverStops' /\ WiredAsConfigured'
  BY UnplugCareful DEF DropEntity
<1>3. /\ name \in [Obj -> Name \cup {NULL}] /\ drv \in [Obj -> EntType \cup {NULL}]
      /\ ents \subseteq Obj
  BY DEF CarefulInv, SafeInv, TypeOK
<1>4. /\ ents' = ents \ {e}
      /\ \A o \in ents' : name'[o] = name[o] /\ drv'[o] = drv[o]
  BY <1>3 DEF DropEntity
<1>5. ObjectsInOrder' /\ NothingLeftBehind'
  BY <1>1, <1>4 DEF CarefulInv, ObjectsInOrder, NothingLeftBehind
<1>6. UniqueNames'
  BY <1>4 DEF CarefulInv, UniqueNames
<1>7. CachesCurrent'
  <2>1. \A l \in links : name[e] \notin {l.src, l.snk}
    BY <1>4 DEF Careful
  <2>2. links' = links /\ lsrc' = lsrc /\ lsnk' = lsnk
    BY DEF DropEntity, caches
  <2>3. ASSUME NEW l \in links
        PROVE  /\ lsrc[l] # NULL => lsrc[l] \in ents' /\ name'[lsrc[l]] = l.src
               /\ lsnk[l] # NULL => lsnk[l] \in ents' /\ name'[lsnk[l]] = l.snk
    BY <1>4, <2>1 DEF CarefulInv, CachesCurrent
  <2> QED
    BY <2>2, <2>3 DEF CachesCurrent
<1> QED
  BY <1>2, <1>5, <1>6, <1>7

\* A careful plug goes well or changes nothing.
LEMMA PlugCareful ==
    ASSUME CarefulInv, Benign, Careful, HotplugPlug
    PROVE  /\ ObjectsInOrder' /\ UniqueNames' /\ CachesCurrent'
           /\ NeverStops' /\ NothingLeftBehind' /\ WiredAsConfigured'
<1>1. UNCHANGED config /\ pdev = "none" /\ oops = "no"
  BY DEF HotplugPlug, PlugUnresolved, PlugResolved, Alive
<1>2. UniqueNames'
  BY <1>1 DEF config, CarefulInv, UniqueNames
<1>3. PICK S \in SUBSET links : LinkSetEnts(S)
  BY DEF HotplugPlug, PlugUnresolved, PlugResolved
<1>4. CachesCurrent'
  BY <1>1, <1>3, ResolveCareful
<1>5. ASSUME UNCHANGED device
      PROVE  /\ ObjectsInOrder' /\ NeverStops' /\ NothingLeftBehind'
             /\ WiredAsConfigured'
  BY <1>1, <1>5 DEF CarefulInv, ObjectsInOrder, NeverStops, NothingLeftBehind,
     WiredAsConfigured, config, device
<1>6. CASE PlugUnresolved
  BY <1>2, <1>4, <1>5, <1>6 DEF PlugUnresolved
<1>7. CASE PlugResolved /\ Probe
  <2>1. \A l \in links : lsrc'[l] # NULL /\ lsnk'[l] # NULL
    <3>1. LinkSetEnts(links) /\ \A l \in links : Resolvable(l)
      BY <1>7 DEF PlugResolved
    <3> QED
      BY <1>1, <3>1, ResolveCareful DEF Resolvable
  <2>2. pdev' # "none" => PadsInRange
    BY <1>1 DEF Careful
  <2>3. /\ pdev' = "bound"
        /\ dev' = [o \in Obj |-> IF o \in ents THEN "live" ELSE dev[o]]
        /\ graph' = {EdgeOf(l) : l \in links}
        /\ oops' = "no"
    BY <1>1, <1>4, <1>7, <2>1, <2>2, ProbeSucceeds
  <2>4. ByName' = links
    BY <1>1, <1>4, <2>1, <2>3, ProbeWires
  <2>5. ObjectsInOrder'
    BY <1>1, <2>3 DEF CarefulInv, ObjectsInOrder, config
  <2> QED
    BY <1>1, <1>2, <1>4, <2>3, <2>4, <2>5
    DEF NeverStops, NothingLeftBehind, WiredAsConfigured, config
<1>8. CASE PlugResolved /\ UNCHANGED device
  BY <1>2, <1>4, <1>5, <1>8
<1> QED
  BY <1>6, <1>7, <1>8 DEF HotplugPlug, PlugResolved

\* Every step of a careful user keeps his invariant.
LEMMA NextCareful ==
    CarefulInv /\ Benign /\ [Next /\ Careful]_vars => CarefulInv'
<1> SUFFICES ASSUME CarefulInv, Benign, [Next /\ Careful]_vars
             PROVE  CarefulInv'
  OBVIOUS
<1>0. SafeInv'
  BY NextSafe DEF CarefulInv
<1> DEFINE Rest == /\ ObjectsInOrder /\ UniqueNames /\ CachesCurrent
                   /\ NeverStops /\ NothingLeftBehind /\ WiredAsConfigured
<1> SUFFICES Rest'
  BY <1>0 DEF CarefulInv
<1>a. links \subseteq Link /\ lsrc \in [Link -> MaybeObj] /\ lsnk \in [Link -> MaybeObj]
  BY DEF CarefulInv, SafeInv, TypeOK
<1>1. ASSUME UNCHANGED <<ents, name, drv, links, caches, device>> PROVE Rest'
  BY <1>1 DEF CarefulInv, ObjectsInOrder, UniqueNames, CachesCurrent, NeverStops,
     NothingLeftBehind, WiredAsConfigured, ByName, caches, device
<1>2. ASSUME Unplug, UNCHANGED <<ents, name, drv, links, caches>> PROVE Rest'
  BY <1>a, <1>2, UnplugOnlyCareful DEF caches
<1>3. CASE MakeDevice
  BY <1>1, <1>3 DEF MakeDevice
<1>4. CASE DropDevice
  BY <1>2, <1>4 DEF DropDevice
<1>5. ASSUME NEW d \in Driver, NEW n \in Name, RefuseEntity(d, n) PROVE Rest'
  BY <1>2, <1>5 DEF RefuseEntity, config
<1>6. ASSUME NEW d \in Driver, NEW n \in Name, MakeEntity(d, n) PROVE Rest'
  BY <1>6, MakeEntityCareful
<1>7. ASSUME NEW e \in ents, DropEntity(e), Careful PROVE Rest'
  BY <1>7, DropEntityCareful
<1>8. CASE RefuseLink
  BY <1>2, <1>8 DEF RefuseLink, config
<1>9. ASSUME NEW l \in Link, MakeLink(l) PROVE Rest'
  <2>1. \A k \in links' : \/ k \in links /\ lsrc'[k] = lsrc[k] /\ lsnk'[k] = lsnk[k]
                          \/ lsrc'[k] = NULL /\ lsnk'[k] = NULL
    BY <1>a, <1>9 DEF MakeLink
  <2> QED
    BY <1>a, <1>9, <2>1, UnplugOnlyCareful DEF MakeLink
<1>10. ASSUME NEW l \in links, DropLink(l) PROVE Rest'
  <2>1. \A k \in links' : k \in links /\ lsrc'[k] = lsrc[k] /\ lsnk'[k] = lsnk[k]
    BY <1>a, <1>10 DEF DropLink
  <2> QED
    BY <1>a, <1>10, <2>1, UnplugOnlyCareful DEF DropLink
<1>11. ASSUME NEW l \in links, NEW v \in Flags, FlagsStore(l, v) PROVE Rest'
  BY <1>1, <1>11 DEF FlagsStore
<1>12. ASSUME HotplugPlug, Careful PROVE Rest'
  BY <1>12, PlugCareful
<1>13. CASE HotplugUnplug
  BY <1>2, <1>13 DEF HotplugUnplug, config
<1>14. CASE UNCHANGED vars
  BY <1>1, <1>14 DEF vars, config
<1> HIDE DEF Rest
<1> QED
  BY <1>3, <1>4, <1>5, <1>6, <1>7, <1>8, <1>9, <1>10, <1>11, <1>12, <1>13, <1>14
  DEF Next

\* The invariant of the careful user holds in every state.
LEMMA CarefulSafe == CarefulSpec => []CarefulInv
<1> SUFFICES ASSUME Benign
             PROVE  Init /\ [][Next /\ Careful]_vars => []CarefulInv
  BY DEF CarefulSpec
<1>1. CarefulInv /\ [Next /\ Careful]_vars => CarefulInv'
  BY NextCareful
<1> QED
  BY <1>1, InitCareful, PTL

\* No BUG_ON, stale pointer, failing probe or second free for a careful user.
THEOREM CarefulNeverStops == CarefulSpec => []NeverStops
<1>1. CarefulInv => NeverStops
  BY DEF CarefulInv
<1> QED
  BY <1>1, CarefulSafe, PTL

\* The links of a bound device are the configured ones, by name and pad.
THEOREM CarefulWiring == CarefulSpec => []WiredAsConfigured
<1>1. CarefulInv => WiredAsConfigured
  BY DEF CarefulInv
<1> QED
  BY <1>1, CarefulSafe, PTL

\* The pointers that links keep across plugs never go stale.
THEOREM CarefulCaches == CarefulSpec => []CachesCurrent
<1>1. CarefulInv => CachesCurrent
  BY DEF CarefulInv
<1> QED
  BY <1>1, CarefulSafe, PTL

\* The duplicate check keeps names apart that are not cut.
THEOREM CarefulNames == CarefulSpec => []UniqueNames
<1>1. CarefulInv => UniqueNames
  BY DEF CarefulInv
<1> QED
  BY <1>1, CarefulSafe, PTL

\* Unplugging leaves no entity with a device.
THEOREM CarefulCleanup == CarefulSpec => []NothingLeftBehind
<1>1. CarefulInv => NothingLeftBehind
  BY DEF CarefulInv
<1> QED
  BY <1>1, CarefulSafe, PTL

-----------------------------------------------------------------------------
(* The device of a careful user implements VimcHotplug.                     *)

\* Nothing is configured at first in VimcHotplug either.
LEMMA InitRefines == Init => Hotplug!Init
BY DEF Init, Hotplug!Init, ByName

\* An unplugged device has no media links.
LEMMA UnplugRefines == ASSUME UnplugRest PROVE (pdev = "bound")' = FALSE /\ ByName' = {}
BY DEF UnplugRest, ByName

\* mkdir of an entity adds it to the abstract configuration.
LEMMA MakeEntityRefines ==
    ASSUME CarefulInv, Benign, NEW d \in Driver, NEW n \in Name, MakeEntity(d, n)
    PROVE  Hotplug!Next
<1>1. d \in EntType /\ Stored[n] = n /\ links' = links
  BY DEF MakeEntity, Benign
<1>2. /\ name \in [Obj -> Name \cup {NULL}] /\ drv \in [Obj -> EntType \cup {NULL}]
      /\ ents \subseteq Obj
  BY DEF CarefulInv, SafeInv, TypeOK
<1>3. PICK o \in Obj \ ents : /\ ents' = ents \cup {o}
                              /\ name' = [name EXCEPT ![o] = n]
                              /\ drv' = [drv EXCEPT ![o] = d]
  BY DEF MakeEntity, AddEntity
<1> DEFINE new == [name |-> n, type |-> d]
           E == {[name |-> Stored[name[e]], type |-> drv[e]] : e \in ents}
<1>4. /\ [name |-> Stored[name'[o]], type |-> drv'[o]] = new
      /\ \A e \in ents : name'[e] = name[e] /\ drv'[e] = drv[e]
  BY <1>1, <1>2, <1>3
<1>5. E' = E \cup {new}
  BY <1>3, <1>4
<1>6. new.name \notin {x.name : x \in E}
  BY DEF MakeEntity, NameTaken
<1>7. (pdev = "bound")' = FALSE /\ ByName' = {}
  BY UnplugRefines DEF MakeEntity, Unplug
<1>8. new \in [name : Name, type : EntType]
  BY <1>1
<1>9. Hotplug!AddEntity(new)
  BY <1>1, <1>5, <1>6, <1>7 DEF Hotplug!AddEntity, Hotplug!Down, Hotplug!Names
<1> QED
  BY <1>8, <1>9 DEF Hotplug!Next

\* rmdir of an entity removes it from the abstract configuration.
LEMMA DropEntityRefines ==
    ASSUME CarefulInv, Benign, NEW o \in ents, DropEntity(o)
    PROVE  Hotplug!Next
<1>1. /\ name \in [Obj -> Name \cup {NULL}] /\ drv \in [Obj -> EntType \cup {NULL}]
      /\ ents \subseteq Obj /\ links' = links
  BY DEF CarefulInv, SafeInv, TypeOK, DropEntity
<1> DEFINE old == [name |-> Stored[name[o]], type |-> drv[o]]
           E == {[name |-> Stored[name[f]], type |-> drv[f]] : f \in ents}
<1>2. /\ ents' = ents \ {o}
      /\ \A f \in ents' : name'[f] = name[f] /\ drv'[f] = drv[f]
  BY <1>1 DEF DropEntity
<1>3. \A f \in ents' : Stored[name[f]] # Stored[name[o]]
  BY <1>2 DEF CarefulInv, UniqueNames
<1>4. E' = E \ {old}
  BY <1>2, <1>3
<1>5. old \in [name : Name, type : EntType]
  BY DEF CarefulInv, ObjectsInOrder, Benign
<1>6. (pdev = "bound")' = FALSE /\ ByName' = {}
  BY UnplugRefines DEF DropEntity
<1>7. PICK x \in [name : Name, type : EntType] : x = old
  BY <1>5
<1>8. Hotplug!RemoveEntity(x)
  BY <1>1, <1>4, <1>6, <1>7 DEF Hotplug!RemoveEntity, Hotplug!Down
<1> QED
  BY <1>8 DEF Hotplug!Next

\* A plug that binds the device is a Start: every configured link was resolved
\* to configured entities of the right names.
LEMMA PlugRefines ==
    ASSUME CarefulInv, Benign, Careful, HotplugPlug
    PROVE  Hotplug!Next \/ UNCHANGED Hotplug!vars
<1>1. UNCHANGED config /\ pdev = "none" /\ oops = "no"
  BY DEF HotplugPlug, PlugUnresolved, PlugResolved, Alive
<1>2. CASE UNCHANGED device
  BY <1>1, <1>2 DEF Hotplug!vars, ByName, config, device
<1>3. CASE PlugResolved /\ Probe
  <2>1. CachesCurrent' /\ \A l \in links : lsrc'[l] # NULL /\ lsnk'[l] # NULL
    <3>1. LinkSetEnts(links) /\ \A l \in links : Resolvable(l)
      BY <1>3 DEF PlugResolved
    <3> QED
      BY <1>1, <3>1, ResolveCareful DEF Resolvable
  <2>2. pdev' # "none" => PadsInRange
    BY <1>1 DEF Careful
  <2>3. pdev' = "bound" /\ graph' = {EdgeOf(l) : l \in links}
    BY <1>1, <1>3, <2>1, <2>2, ProbeSucceeds
  <2>4. ByName' = links
    BY <1>1, <2>1, <2>3, ProbeWires
  <2> DEFINE E == {[name |-> Stored[name[e]], type |-> drv[e]] : e \in ents}
             N == {x.name : x \in E}
  <2>5. E' = E /\ E # {} /\ links' = links
    BY <1>1, <1>3 DEF config, PlugResolved
  <2>6. \A e \in ents : name[e] \in N
    <3>1. \A e \in ents : Stored[name[e]] = name[e]
      BY DEF CarefulInv, ObjectsInOrder, Benign
    <3>2. ASSUME NEW e \in ents PROVE name[e] \in N
      <4>1. [name |-> Stored[name[e]], type |-> drv[e]] \in E
        OBVIOUS
      <4> QED
        BY <3>1, <4>1
    <3> QED
      BY <3>2
  <2>7. \A l \in links : l.src \in N /\ l.snk \in N
    BY <1>1, <2>1, <2>6 DEF CachesCurrent, config
  <2>8. Hotplug!Start
    BY <1>1, <2>3, <2>4, <2>5, <2>7 DEF Hotplug!Start, Hotplug!Names
  <2> QED
    BY <2>8 DEF Hotplug!Next
<1> QED
  BY <1>2, <1>3 DEF HotplugPlug, PlugUnresolved, PlugResolved

\* Every step of a careful user is a step of VimcHotplug or shows nothing.
LEMMA StepRefines ==
    CarefulInv /\ Benign /\ [Next /\ Careful]_vars => [Hotplug!Next]_Hotplug!vars
<1> SUFFICES ASSUME CarefulInv, Benign, [Next /\ Careful]_vars
             PROVE  Hotplug!Next \/ UNCHANGED Hotplug!vars
  OBVIOUS
<1>1. ASSUME Unplug, UNCHANGED <<ents, name, drv, links>> PROVE Hotplug!Next
  <2>1. Hotplug!Stop
    BY <1>1, UnplugRefines DEF Hotplug!Stop, Hotplug!Down, Unplug
  <2> QED
    BY <2>1 DEF Hotplug!Next
<1>2. ASSUME UNCHANGED <<ents, name, drv, links, pdev, graph>>
      PROVE  UNCHANGED Hotplug!vars
  BY <1>2 DEF Hotplug!vars, ByName
<1>3. ASSUME NEW l \in Link, MakeLink(l) PROVE Hotplug!Next
  <2>1. Hotplug!Connect(l)
    BY <1>3, UnplugRefines DEF MakeLink, Unplug, Hotplug!Connect, Hotplug!Down
  <2> QED
    BY <2>1 DEF Hotplug!Next
<1>4. ASSUME NEW l \in links, DropLink(l) PROVE Hotplug!Next
  <2>1. Hotplug!Disconnect(l)
    BY <1>4, UnplugRefines DEF DropLink, Unplug, Hotplug!Disconnect, Hotplug!Down
  <2>2. l \in Link
    BY DEF CarefulInv, SafeInv, TypeOK
  <2> QED
    BY <2>1, <2>2 DEF Hotplug!Next
<1>5. CASE MakeDevice
  BY <1>2, <1>5 DEF MakeDevice, device
<1>6. CASE DropDevice \/ RefuseLink \/ HotplugUnplug
  BY <1>1, <1>6 DEF DropDevice, RefuseLink, HotplugUnplug, config
<1>7. ASSUME NEW d \in Driver, NEW n \in Name, RefuseEntity(d, n)
      PROVE  Hotplug!Next
  BY <1>1, <1>7 DEF RefuseEntity, config
<1>8. ASSUME NEW l \in links, NEW v \in Flags, FlagsStore(l, v)
      PROVE  UNCHANGED Hotplug!vars
  BY <1>2, <1>8 DEF FlagsStore, device
<1>9. ASSUME HotplugPlug, Careful
      PROVE  Hotplug!Next \/ UNCHANGED Hotplug!vars
  BY <1>9, PlugRefines
<1>10. CASE UNCHANGED vars
  BY <1>2, <1>10 DEF vars, config, device
<1> QED
  BY <1>3, <1>4, <1>5, <1>6, <1>7, <1>8, <1>9, <1>10, MakeEntityRefines,
     DropEntityRefines
  DEF Next

\* For a careful user, the configfs interface of the driver implements the
\* promise of VimcHotplug.
THEOREM CarefulImplementsHotplug == CarefulSpec => HotplugSpec
<1> SUFFICES ASSUME Benign
             PROVE  CarefulSpec => HotplugSpec
  BY DEF CarefulSpec
<1>1. CarefulInv /\ [Next /\ Careful]_vars => [Hotplug!Next]_Hotplug!vars
  BY StepRefines
<1> QED
  BY <1>1, InitRefines, CarefulSafe, PTL DEF CarefulSpec, HotplugSpec, Hotplug!Spec
=============================================================================
