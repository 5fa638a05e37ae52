---------------------------- MODULE VimcTopology ----------------------------
(***************************************************************************)
(* One vimc device configured through configfs (vimc-configfs.c) and       *)
(* plugged into the platform bus, where vimc_probe builds the media graph  *)
(* from the configured lists (vimc-core.c).                                *)
(*                                                                         *)
(* configfs runs mkdir and rmdir under the subsystem mutex and a write to  *)
(* "hotplug" under the mutex of its open file; this module takes each of   *)
(* them as one step.  What a write to "hotplug" racing an mkdir may do is  *)
(* not its subject.                                                        *)
(*                                                                         *)
(* The list order of entities and links only decides which of several      *)
(* links is looked at first, so the lists are sets here and the order is a *)
(* choice.                                                                 *)
(***************************************************************************)
EXTENDS Naturals, FiniteSets

CONSTANTS
    Obj,      \* the addresses kzalloc may hand out for a vimc_cfs_ent
    Name,     \* entity names a user writes
    Stored,   \* what strscpy keeps of a name in the 32 bytes of ent->name
    Driver,   \* driver names a user writes
    EntType,  \* drivers vimc-core knows, each registered with configfs
    Video,    \* those whose entity is a video node, not a v4l2 subdevice
    SrcPads,  \* pads of each type a link may start from
    SnkPads,  \* pads of each type a link may end in
    Link,     \* link names a user writes, parsed: "src:srcPad->snk:snkPad"
    Flags,    \* values of a link's flags file; 0 is what kzalloc leaves
    MaxEnts,  \* entities the loop of vimc_cfs_device_plug lets through
    Faults,   \* TRUE when allocations and registrations may fail
    NULL

ASSUME TopologyAssumption ==
    /\ Stored \in [Name -> Name]
    /\ EntType \subseteq Driver
    /\ Video \subseteq EntType
    /\ SrcPads \in [EntType -> SUBSET Nat]
    /\ SnkPads \in [EntType -> SUBSET Nat]
    /\ Link \subseteq [src : Name, srcPad : Nat, snk : Name, snkPad : Nat]
    /\ 0 \in Flags
    /\ MaxEnts \in Nat
    /\ Faults \in BOOLEAN
    /\ NULL \notin Obj \cup Name \cup Driver

VARIABLES
    dir,    \* does the device's configfs directory exist?
    ents,   \* cfs->ents: the entities configured now
    name,   \* the name each entity was created with
    drv,    \* ent->drv_name
    dev,    \* ent->vimc_ent_dev: "null", "live", or "dangling" once freed
    links,  \* cfs->links: the links configured now
    flags,  \* link->flags
    lsrc,   \* the entity that link->source points into
    lsnk,   \* the entity that link->sink points into
    pdev,   \* cfs->pdev: "none", "unbound" when probe failed, "bound"
    graph,  \* media links between the added entities
    oops    \* the way the kernel stopped, "no" while it runs

config == <<dir, ents, name, drv, links, flags>>
caches == <<lsrc, lsnk>>
device == <<dev, pdev, graph, oops>>
vars   == <<config, caches, device>>

MaybeObj == Obj \cup {NULL}
Edge == [src : Obj, srcPad : Nat, snk : Obj, snkPad : Nat, flags : Flags]

TypeOK ==
    /\ dir \in BOOLEAN
    /\ ents \subseteq Obj
    /\ name \in [Obj -> Name \cup {NULL}]
    /\ drv \in [Obj -> EntType \cup {NULL}]
    /\ dev \in [Obj -> {"null", "live", "dangling"}]
    /\ links \subseteq Link
    /\ flags \in [Link -> Flags]
    /\ lsrc \in [Link -> MaybeObj]
    /\ lsnk \in [Link -> MaybeObj]
    /\ pdev \in {"none", "unbound", "bound"}
    /\ graph \subseteq Edge
    /\ oops \in {"no", "add_bug", "rm_bug", "null_deref", "stale_link",
                 "double_free"}

Init ==
    /\ dir = FALSE
    /\ ents = {}
    /\ name = [o \in Obj |-> NULL]
    /\ drv = [o \in Obj |-> NULL]
    /\ dev = [o \in Obj |-> "null"]
    /\ links = {}
    /\ flags = [l \in Link |-> 0]
    /\ lsrc = [l \in Link |-> NULL]
    /\ lsnk = [l \in Link |-> NULL]
    /\ pdev = "none"
    /\ graph = {}
    /\ oops = "no"

-----------------------------------------------------------------------------
(* Unplugging: platform_device_unregister.  vimc_remove runs only for a     *)
(* device whose probe succeeded; it removes every configured entity and     *)
(* stops at BUG_ON(!ent->vimc_ent_dev).                                     *)

\* Slip: the .rm callbacks leave vimc_ent_dev set.
DevKept == dev

DevAfterUnplug ==
    IF pdev = "bound" THEN [o \in Obj |-> IF o \in ents THEN "null" ELSE dev[o]]
                      ELSE dev

UnplugRest ==
    /\ pdev' = "none"
    /\ graph' = {}
    /\ oops' = IF pdev = "bound" /\ \E e \in ents : dev[e] = "null"
               THEN "rm_bug" ELSE oops

Unplug == dev' = DevAfterUnplug /\ UnplugRest

\* A kernel that stopped takes no further step.
Alive == oops = "no"

-----------------------------------------------------------------------------
(* mkdir and rmdir.  Every one of them unplugs a plugged device first, even *)
(* when it is then refused.                                                 *)

MakeDevice ==
    /\ Alive
    /\ ~dir
    /\ dir' = TRUE
    /\ UNCHANGED <<ents, name, drv, links, flags, caches, device>>

DropDevice ==
    /\ Alive
    /\ dir
    /\ ents = {} /\ links = {}   \* configfs refuses rmdir of a populated group
    /\ dir' = FALSE
    /\ Unplug
    /\ UNCHANGED <<ents, name, drv, links, flags, caches>>

\* Slip: nothing compares the name with those configured.
NameNeverTaken(n) == FALSE

\* The comparison is of the name asked for with the names as stored.
NameTaken(n) == \E e \in ents : Stored[name[e]] = n

\* configfs itself refuses a directory that exists, before the handler runs.
NewEntityDir(d, n) ==
    Alive /\ dir /\ ~ \E e \in ents : drv[e] = d /\ name[e] = n

\* Every refusal (no separator, an empty part, a driver name too long) has
\* the effect of an unknown driver.
RefuseEntity(d, n) ==
    /\ NewEntityDir(d, n)
    /\ NameTaken(n) \/ d \notin EntType \/ Faults
    /\ Unplug
    /\ UNCHANGED <<config, caches>>

AddEntity(d, n) ==
    \E o \in Obj \ ents :
        /\ ents' = ents \cup {o}
        /\ name' = [name EXCEPT ![o] = n]
        /\ drv' = [drv EXCEPT ![o] = d]

\* Slip: the driver is not looked up.
MakeEntityOfAnyDriver(d, n) ==
    /\ NewEntityDir(d, n)
    /\ ~NameTaken(n)
    /\ Unplug
    /\ AddEntity(d, n)
    /\ UNCHANGED <<dir, links, flags, caches>>

\* Slip: the device stays plugged.
MakeEntityPlugged(d, n) ==
    /\ NewEntityDir(d, n)
    /\ ~NameTaken(n)
    /\ d \in EntType
    /\ AddEntity(d, n)
    /\ UNCHANGED <<dir, links, flags, caches, device>>

MakeEntity(d, n) ==
    /\ NewEntityDir(d, n)
    /\ ~NameTaken(n)
    /\ d \in EntType
    /\ Unplug
    /\ AddEntity(d, n)
    /\ UNCHANGED <<dir, links, flags, caches>>

\* Slip: the device stays plugged.
DropEntityPlugged(e) ==
    /\ Alive
    /\ ents' = ents \ {e}
    /\ name' = [name EXCEPT ![e] = NULL]
    /\ drv' = [drv EXCEPT ![e] = NULL]
    /\ dev' = [dev EXCEPT ![e] = "null"]
    /\ UNCHANGED <<dir, links, flags, caches, pdev, graph, oops>>

DropEntity(e) ==
    /\ Alive
    /\ ents' = ents \ {e}
    /\ name' = [name EXCEPT ![e] = NULL]
    /\ drv' = [drv EXCEPT ![e] = NULL]
    /\ dev' = [DevAfterUnplug EXCEPT ![e] = "null"]
    /\ UnplugRest
    /\ UNCHANGED <<dir, links, flags, caches>>

RefuseLink ==   \* wrong syntax, or no memory
    /\ Alive
    /\ dir
    /\ Unplug
    /\ UNCHANGED <<config, caches>>

MakeLink(l) ==
    /\ Alive
    /\ dir
    /\ l \notin links
    /\ Unplug
    /\ links' = links \cup {l}
    /\ flags' = [flags EXCEPT ![l] = 0]
    /\ lsrc' = [lsrc EXCEPT ![l] = NULL]
    /\ lsnk' = [lsnk EXCEPT ![l] = NULL]
    /\ UNCHANGED <<dir, ents, name, drv>>

\* Slip: the device stays plugged.
DropLinkPlugged(l) ==
    /\ Alive
    /\ links' = links \ {l}
    /\ flags' = [flags EXCEPT ![l] = 0]
    /\ lsrc' = [lsrc EXCEPT ![l] = NULL]
    /\ lsnk' = [lsnk EXCEPT ![l] = NULL]
    /\ UNCHANGED <<dir, ents, name, drv, device>>

DropLink(l) ==
    /\ Alive
    /\ Unplug
    /\ links' = links \ {l}
    /\ flags' = [flags EXCEPT ![l] = 0]
    /\ lsrc' = [lsrc EXCEPT ![l] = NULL]
    /\ lsnk' = [lsnk EXCEPT ![l] = NULL]
    /\ UNCHANGED <<dir, ents, name, drv>>

\* The flags file alone does not unplug the device.
FlagsStore(l, v) ==
    /\ Alive
    /\ flags' = [flags EXCEPT ![l] = v]
    /\ UNCHANGED <<dir, ents, name, drv, links, caches, device>>

-----------------------------------------------------------------------------
(* A write of "plug": resolve the endpoints of the links, then register the *)
(* platform device, whose probe builds the graph.                           *)

\* An endpoint is looked up by name only while its pointer is NULL.
Endpoint(cached, n) ==
    LET found == {e \in ents : Stored[name[e]] = n}
    IN  IF cached # NULL THEN {cached}
        ELSE IF found = {} THEN {NULL} ELSE found

Sources(l) == Endpoint(lsrc[l], l.src)
\* Slip: the sink is looked up by the source's name.
SinksBySource(l) == Endpoint(lsnk[l], l.src)
Sinks(l)   == Endpoint(lsnk[l], l.snk)
Resolvable(l) == NULL \notin Sources(l) \cup Sinks(l)

LinkSetEnts(S) ==
    \E f, g \in [S -> MaybeObj] :
        /\ \A l \in S : f[l] \in Sources(l) /\ g[l] \in Sinks(l)
        /\ lsrc' = [l \in Link |-> IF l \in S THEN f[l] ELSE lsrc[l]]
        /\ lsnk' = [l \in Link |-> IF l \in S THEN g[l] ELSE lsnk[l]]

\* The walk stops at the first link it cannot resolve; links before it keep
\* what was found for them, and so does the half of the link that was found.
PlugUnresolved ==
    /\ ents # {}
    /\ \E l \in links : /\ ~Resolvable(l)
                        /\ \E S \in SUBSET {k \in links : Resolvable(k)} :
                               LinkSetEnts(S \cup {l})
    /\ UNCHANGED <<config, device>>

Crash(how) == oops' = how /\ UNCHANGED <<dev, pdev, graph>>

\* vimc_probe frees vimc, which devres frees again: memory the slab may by
\* then have given away, so the kernel stops here or carries on.
ProbeFails(d) ==
    /\ pdev' = "unbound"
    /\ dev' = d
    /\ graph' = {}
    /\ oops' \in {"no", "double_free"}

\* v4l2_device_unregister releases, and so frees, the subdevices only.
DevAfterFailedAdd ==
    [o \in Obj |-> IF o \notin ents THEN dev[o]
                   ELSE IF drv[o] \in Video THEN "live" ELSE "dangling"]

Stale(l) == lsrc'[l] \notin ents \/ lsnk'[l] \notin ents

BadPad(l) ==
    /\ ~Stale(l)
    /\ \/ l.srcPad \notin SrcPads[drv[lsrc'[l]]]
       \/ l.snkPad \notin SnkPads[drv[lsnk'[l]]]

EdgeOf(l) == [src |-> lsrc'[l], srcPad |-> l.srcPad,
              snk |-> lsnk'[l], snkPad |-> l.snkPad, flags |-> flags[l]]

\* vimc_probe.  The kernel that stops leaves no state anyone reads.
Probe ==
    LET added == \E e \in ents : dev[e] # "null" IN
    \/ Faults /\ ProbeFails(dev)               \* v4l2_device_register
    \/ added /\ Crash("add_bug")               \* BUG_ON(ent->vimc_ent_dev)
    \/ Faults /\ Crash("null_deref")           \* no vimc, or no .add: r_ent is NULL
    \/ ~added /\ (\E l \in links : Stale(l)) /\ Crash("stale_link")
    \/ /\ ~added
       /\ Faults \/ \E l \in links : BadPad(l)
       /\ ProbeFails(DevAfterFailedAdd)
    \/ /\ ~added
       /\ \A l \in links : ~Stale(l) /\ ~BadPad(l)
       /\ pdev' = "bound"
       /\ dev' = [o \in Obj |-> IF o \in ents THEN "live" ELSE dev[o]]
       /\ graph' = {EdgeOf(l) : l \in links}
       /\ oops' = oops

PlugResolved ==
    /\ ents # {}
    /\ \A l \in links : Resolvable(l)
    /\ LinkSetEnts(links)
    /\ \/ /\ Cardinality(ents) > MaxEnts \/ Faults
          /\ UNCHANGED device
       \/ Cardinality(ents) <= MaxEnts /\ Probe
    /\ UNCHANGED config

HotplugPlug ==
    /\ Alive
    /\ dir
    /\ pdev = "none"
    /\ PlugUnresolved \/ PlugResolved

HotplugUnplug ==
    /\ Alive
    /\ dir
    /\ pdev # "none"
    /\ Unplug
    /\ UNCHANGED <<config, caches>>

Next ==
    \/ MakeDevice
    \/ DropDevice
    \/ \E d \in Driver, n \in Name : RefuseEntity(d, n) \/ MakeEntity(d, n)
    \/ \E e \in ents : DropEntity(e)
    \/ RefuseLink
    \/ \E l \in Link : MakeLink(l)
    \/ \E l \in links : DropLink(l)
    \/ \E l \in links, v \in Flags : FlagsStore(l, v)
    \/ HotplugPlug
    \/ HotplugUnplug

Spec == Init /\ [][Next]_vars

-----------------------------------------------------------------------------
(* What holds whatever the user does and whatever fails.                    *)

\* BUG_ON(!ent->vimc_ent_dev) in vimc_rm_subdevs never fires: every entity on
\* the list that vimc_remove walks was added by the probe before it.
RemoveFindsEveryDevice == oops # "rm_bug"

\* A bound device is built from the lists as they are now: each configured
\* entity is added and alive, each media link ends in two of them, and each
\* configured link has its media link.  vimc_remove and the streamer walk
\* these without checking.
BoundIsWhole ==
    pdev = "bound" =>
        /\ ents # {}
        /\ Cardinality(ents) <= MaxEnts
        /\ \A e \in ents : dev[e] = "live"
        /\ \A g \in graph : {g.src, g.snk} \subseteq ents
        /\ \A l \in links : \E g \in graph :
               /\ g.src = lsrc[l] /\ g.srcPad = l.srcPad
               /\ g.snk = lsnk[l] /\ g.snkPad = l.snkPad

\* A step that leaves the device plugged leaves the lists alone that its
\* driver holds pointers to (pdata->ents, pdata->links): no handler forgets
\* to unplug, not even on its refusal paths.
ListsFrozenWhilePlugged ==
    [][pdev # "none" /\ pdev' # "none" => UNCHANGED <<ents, links, pdev, dev>>]_vars

\* No plug succeeds, and no plug stops the kernel, while a configured link
\* names an entity that is not configured.
PlugNeedsBothEnds ==
    [][pdev = "none" /\ (pdev' # "none" \/ oops' # oops)
           => \A l \in links : NameTaken(l.src) /\ NameTaken(l.snk)]_vars

\* BUG_ON(ent->vimc_ent_dev) in vimc_add_subdevs never fires: a new plug finds
\* no entity still added.
AddFindsNoDevice == oops # "add_bug"

-----------------------------------------------------------------------------
(* The careful user: names fit in ent->name, no entity goes while a         *)
(* configured link names it, a link's pads exist when its device is         *)
(* plugged, and nothing fails.                                              *)

Benign == ~Faults /\ \A n \in Name : Stored[n] = n

PadsInRange ==
    \A l \in links, e \in ents :
        /\ name[e] = l.src => l.srcPad \in SrcPads[drv[e]]
        /\ name[e] = l.snk => l.snkPad \in SnkPads[drv[e]]

Careful ==
    /\ \A e \in ents \ ents', l \in links : name[e] \notin {l.src, l.snk}
    /\ pdev = "none" /\ pdev' # "none" => PadsInRange

CarefulSpec == Benign /\ Init /\ [][Next /\ Careful]_vars

\* No two configured entities have the same name: the check of mkdir suffices
\* where names are not cut.
UniqueNames ==
    \A e, f \in ents : Stored[name[e]] = Stored[name[f]] => e = f

\* The pointer a link caches for an endpoint is to the entity of that name.
CachesCurrent ==
    \A l \in links :
        /\ lsrc[l] # NULL => lsrc[l] \in ents /\ name[lsrc[l]] = l.src
        /\ lsnk[l] # NULL => lsnk[l] \in ents /\ name[lsnk[l]] = l.snk

\* A careful user never sees the kernel stop, nor a device plugged without a
\* driver: no BUG_ON, stale pointer or second free is within his reach.
NeverStops == oops = "no" /\ pdev # "unbound"

\* Nothing of an earlier plug is left behind: outside a bound device no
\* entity has a device, so the next plug starts from scratch.
NothingLeftBehind == pdev # "bound" => \A o \in Obj : dev[o] = "null"

\* The media links of a bound device, by name, are the configured ones: the
\* pointers cached by earlier plugs never wire another entity in.
ByName == {[src |-> Stored[name[g.src]], srcPad |-> g.srcPad,
            snk |-> Stored[name[g.snk]], snkPad |-> g.snkPad] : g \in graph}
WiredAsConfigured == pdev = "bound" => ByName = links

\* For a careful user the device does what VimcHotplug promises.
Hotplug == INSTANCE VimcHotplug WITH
    Entity   <- [name : Name, type : EntType],
    Conn     <- Link,
    entities <- {[name |-> Stored[name[e]], type |-> drv[e]] : e \in ents},
    conns    <- links,
    running  <- pdev = "bound",
    wired    <- ByName
HotplugSpec == Hotplug!Spec
=============================================================================
