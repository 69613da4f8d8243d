-------------------------------- MODULE Packs --------------------------------
(***************************************************************************)
(* The node packs of a project: a folder its user edits with an editor, or *)
(* replaces with a checkout, and that the daemon reads again on demand.    *)
(* Reading goes file by file while the folder may change; what was read    *)
(* replaces registry and listing together.                                 *)
(***************************************************************************)
EXTENDS Requests, Sequences

CONSTANTS
    BuiltinTypes,    \* node types of the bundled pack
    Reserved,        \* and those the engine implements itself
    Folders,         \* what the folder may hold when the daemon starts
    FolderNames      \* how many names its directories may have; each is its place among them

Directories == 1..FolderNames

ASSUME PacksAssumption ==
    /\ BuiltinTypes \subseteq Reserved /\ FolderNames \in Nat
    /\ \A start \in Folders : DOMAIN start \subseteq Directories
    /\ \A r \in UNION Scripts : r.kind = "edit" => r.dir \in Directories

VARIABLES
    folder,      \* directory -> [manifest, files]; both in the order of names
    registry,    \* d.plugins: each node type's definition, and the packs
    packs        \* d.packs: what each directory is said to hold

packVars == <<folder, registry, packs>>

----------------------------------------------------------------------------
(* Validating what is read.                                                *)

MaxNodesPerPack == 128
Capabilities == {"llm", "files", "image", "vision", "agent", "video"}
PortTypes == {"text", "image", "video", "json", "any"}
Categories == {"Input", "AI", "Utility", "Output", "Agent"}
ConfigTypes == {"text", "textarea", "number", "boolean", "select"}

\* readManifest: names and versions are "" when they are not well formed, and
\* a field nobody reads makes it invalid.
ManifestSound(m) ==
    m.found /\ m.fields = "known" /\ m.name # "" /\ m.version # "" /\ m.capabilities \subseteq Capabilities

\* nodeFiles: the regular .lua files of the pack.
NodeFiles(pack) == {f \in DOMAIN pack.files : pack.files[f].lua}

FilesSound(pack) == Cardinality(NodeFiles(pack)) <= MaxNodesPerPack

\* readConfig: every field has a key of its own and a known type, and a select
\* something to select.
ConfigSound(config) ==
    \A i \in DOMAIN config :
       /\ config[i].key # "" /\ \A j \in 1..(i - 1) : config[j].key # config[i].key
       /\ config[i].type \in ConfigTypes \cup {""}
       /\ config[i].type = "select" => config[i].options > 0

\* readDefinition: a name of its own, somewhere for its value to go unless it
\* is a tool, and a function to run.
DefinitionSound(def) ==
    /\ def.type # "" /\ def.type \notin Reserved
    /\ def.category \in Categories \cup {""}
    /\ def.inputs \cup def.outputs \subseteq PortTypes
    /\ def.outputs # {} \/ def.toolOnly \/ def.inputs # {}
    /\ ConfigSound(def.config)
    /\ def.run

\* loadNodeFile: small enough, and its chunk compiles and ends with a table.
NodeFileSound(file) == file.fits /\ file.returns = "table" /\ DefinitionSound(file.def)

----------------------------------------------------------------------------
(* The registry.                                                           *)

BuiltinPack == "builtin"

\* engine.NewRegistry: the bundled pack, before any other.
NewRegistry == [nodes |-> [t \in BuiltinTypes |-> BuiltinPack], names |-> {BuiltinPack}]

\* Variant: the nodes of a pack that are free are taken, the pack refused or not.
InstallWhatFits(reg, name, types) ==
    [nodes |-> [t \in DOMAIN reg.nodes \cup types |->
                  IF t \in DOMAIN reg.nodes THEN reg.nodes[t] ELSE name],
     names |-> reg.names \cup {name}]

Installable(reg, name, types) ==
    name \notin reg.names /\ types \cap (Reserved \cup DOMAIN reg.nodes) = {}

\* Install: every node of a pack, or none.
Install(reg, name, types) ==
    IF ~Installable(reg, name, types) THEN reg
    ELSE [nodes |-> [t \in DOMAIN reg.nodes \cup types |-> IF t \in types THEN name ELSE reg.nodes[t]],
          names |-> reg.names \cup {name}]

\* What a directory is listed as: under its own name until the manifest is read.
Info(name, types, refused) == [name |-> name, types |-> types, refused |-> refused]

\* loadOnePack once everything is read: installed, or listed with the reason.
WithPack(loaded, dir, name, types) ==
    [registry |-> Install(loaded.registry, name, types),
     packs |-> Put(loaded.packs, dir, Info(name, types, ~Installable(loaded.registry, name, types)))]

WithRefused(loaded, dir) ==
    [loaded EXCEPT !.packs = Put(@, dir, Info(dir, {}, TRUE))]

NothingLoaded == [registry |-> NewRegistry, packs |-> [d \in {} |-> ""]]

TypesIn(pack) == {pack.files[f].def.type : f \in NodeFiles(pack)}

\* plugins.Load of a directory that holds still.
Loads(pack) ==
    /\ ManifestSound(pack.manifest) /\ FilesSound(pack) /\ NodeFiles(pack) # {}
    /\ \A f \in NodeFiles(pack) : NodeFileSound(pack.files[f])
    /\ \A f, g \in NodeFiles(pack) : pack.files[f].def.type = pack.files[g].def.type => f = g

WithDirectory(loaded, dir) ==
    IF Loads(folder[dir]) THEN WithPack(loaded, dir, folder[dir].manifest.name, TypesIn(folder[dir]))
    ELSE WithRefused(loaded, dir)

\* What is loaded after each directory, in the order of names.
Loading ==
    LET loaded[d \in 0..FolderNames] ==
            IF d = 0 THEN NothingLoaded
            ELSE IF d \in DOMAIN folder THEN WithDirectory(loaded[d - 1], d) ELSE loaded[d - 1]
    IN  loaded

\* loadPacks when the project opens, before any request is served.
LoadPacks == Loading[FolderNames]

Serves(loaded) == registry = loaded.registry /\ packs = loaded.packs

PacksInit == folder \in Folders /\ Serves(LoadPacks)

----------------------------------------------------------------------------
(* Reloading, while the folder changes.                                    *)

\* The user writes a directory anew, or removes it.
EditPack(r) ==
    /\ Stands(r, "edit", "begin") /\ Go(r, "ok")
    /\ folder' = IF r.pack = Nothing THEN Without(folder, r.dir) ELSE Put(folder, r.dir, r.pack)
    /\ UNCHANGED <<registry, packs, mu, mishaps>>

Reading(todo, loaded) == [todo |-> todo, loaded |-> loaded]

\* Directories, and a pack's files, are read in the order of their names.
FirstOf(names) == CHOOSE x \in names : \A y \in names : x <= y

\* The folder is listed; one that cannot be is as good as empty.
ListFolder(r) ==
    /\ Stands(r, "reload", "begin")
    /\ \/ Keep(r, "pack", Reading(DOMAIN folder, NothingLoaded)) /\ UNCHANGED mishaps
       \/ Mishap /\ Keep(r, "pack", Reading({}, NothingLoaded))
    /\ UNCHANGED <<packVars, mu>>

NextPack(r, loaded) ==
    LET todo == req[r].saw.todo IN Keep(r, "pack", Reading(todo \ {FirstOf(todo)}, loaded))

\* The next directory's manifest and the names of its node files.
OpenPack(r) ==
    /\ Stands(r, "reload", "pack") /\ req[r].saw.todo # {}
    /\ LET saw == req[r].saw
           dir == FirstOf(saw.todo)
       IN  IF dir \in DOMAIN folder /\ ManifestSound(folder[dir].manifest) /\ FilesSound(folder[dir])
           THEN Keep(r, "files", [todo |-> saw.todo, loaded |-> saw.loaded,
                                  name |-> folder[dir].manifest.name,
                                  files |-> NodeFiles(folder[dir]), types |-> {}])
           ELSE NextPack(r, WithRefused(saw.loaded, dir))
    /\ UNCHANGED <<packVars, mu, mishaps>>

\* Each node file in turn, as it is when its turn comes.
ReadNodeFile(r) ==
    /\ Stands(r, "reload", "files") /\ req[r].saw.files # {}
    /\ LET saw == req[r].saw
           dir == FirstOf(saw.todo)
           there == IF dir \in DOMAIN folder THEN folder[dir].files ELSE <<>>
           f == FirstOf(saw.files)
       IN  IF /\ f \in DOMAIN there
              /\ NodeFileSound(there[f]) /\ there[f].def.type \notin saw.types
           THEN Keep(r, "files", [saw EXCEPT !.files = @ \ {f}, !.types = @ \cup {there[f].def.type}])
           ELSE NextPack(r, WithRefused(saw.loaded, dir))
    /\ UNCHANGED <<packVars, mu, mishaps>>

InstallPack(r) ==
    /\ Stands(r, "reload", "files") /\ req[r].saw.files = {}
    /\ LET saw == req[r].saw
           dir == FirstOf(saw.todo)
       IN  NextPack(r, IF saw.types = {} THEN WithRefused(saw.loaded, dir)
                       ELSE WithPack(saw.loaded, dir, saw.name, saw.types))
    /\ UNCHANGED <<packVars, mu, mishaps>>

\* Registry and listing are replaced together, under the daemon's lock.
ServePacks(r) ==
    /\ Stands(r, "reload", "pack") /\ req[r].saw.todo = {}
    /\ registry' = req[r].saw.loaded.registry /\ packs' = req[r].saw.loaded.packs
    /\ Go(r, "ok")
    /\ UNCHANGED <<folder, mu, mishaps>>

----------------------------------------------------------------------------
(* What the status bar says.                                               *)

\* packSummary: the packs that loaded.
PackNames == {packs[d].name : d \in {d \in DOMAIN packs : ~packs[d].refused}}

PacksNext ==
    \E r \in DOMAIN req :
       EditPack(r) \/ ListFolder(r) \/ OpenPack(r) \/ ReadNodeFile(r) \/ InstallPack(r) \/ ServePacks(r)

\* The project is opened again.
PacksReopened == UNCHANGED folder /\ registry' = LoadPacks.registry /\ packs' = LoadPacks.packs

\* RegistryIsOneListing: whatever was edited while the folder was read, and
\* however many reloads overlapped, the node types that run are the built-ins
\* and those of the packs listed as loaded, each from the one pack that lists
\* it: a refused pack contributes nothing, and none takes a built-in's name
\* (packs.go:49-127, registry.go:46-96).
RegistryIsOneListing ==
    LET Loaded == {d \in DOMAIN packs : ~packs[d].refused} IN
    /\ registry.names = {BuiltinPack} \cup PackNames
    /\ DOMAIN registry.nodes = BuiltinTypes \cup UNION {packs[d].types : d \in Loaded}
    /\ \A d \in Loaded :
          /\ packs[d].types \cap Reserved = {} /\ packs[d].types # {}
          /\ \A t \in packs[d].types : registry.nodes[t] = packs[d].name
          /\ \A e \in Loaded \ {d} : packs[d].types \cap packs[e].types = {} /\ packs[d].name # packs[e].name

=============================================================================
