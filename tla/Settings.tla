------------------------------ MODULE Settings ------------------------------
(***************************************************************************)
(* Where keys, addresses and the order of the providers are kept, and the  *)
(* handlers that change them: localstore's machine, secrets and preference *)
(* stores under the configuration handlers of zyvrod.                      *)
(*                                                                         *)
(* The machine's file is shared with the daemons of other windows.  The    *)
(* mutexes are each process's own, and the preference store takes none: it *)
(* writes beside the file, under a name all its writers share.             *)
(***************************************************************************)
EXTENDS Routing, Requests

CONSTANT
    Places       \* what the stores may hold when the daemon starts

\* The machine's file, and the project's secrets.
IsMachine(m) == m = [dir |-> m.dir, readable |-> m.readable, keys |-> m.keys, ends |-> m.ends]
IsSecrets(f) == f = [readable |-> f.readable, keys |-> f.keys]

\* Lists of names, by role, as they are read or asked for: of any role.
AreLists(order) == \A role \in DOMAIN order : order[role] \in Seq(STRING)

ASSUME SettingsAssumption ==
    /\ \A place \in Places :
          /\ IsMachine(place.machine) /\ IsSecrets(place.secrets)
          /\ AreLists(place.prefs.order)
    /\ \A r \in UNION Scripts : r.kind = "order" => AreLists(r.order)

VARIABLES
    env,         \* the launch configuration and the project's text provider
    machine,     \* the machine's file: dir, readable, keys, ends
    secrets,     \* the project's secrets.json: readable, keys
    inode,       \* the contents of the preference file and of what is beside it
    published,   \* which of them is the preference file
    partial,     \* which of them is the .partial file
    shared,      \* history: who is rewriting it, or was, with another at it too
    kept,        \* history: the request, if any, whose order the file must hold
    mmu,         \* who holds the machine store's mutex in this process
    disturbed,   \* history: deletions that a set of the same key overlapped
    crossed,     \* history: requests another window's write came in the middle of
    gone         \* history: deletions since which the key was not set again

\* What is kept in the project, and all there is.
projectVars == <<env, secrets, inode, published, partial, shared, kept>>
historyVars == <<disturbed, crossed, gone>>
settingsVars == <<projectVars, machine, mmu, historyVars>>

Off == [url |-> FALSE, key |-> FALSE, model |-> ""]
NoKeys == [p \in {} |-> ""]
NoEnds == [p \in {} |-> Off]
NoOrder == [role \in {} |-> <<>>]

NoInode == "none"
\* A file cut short or overwritten in part reads as nothing.
Torn == [whole |-> FALSE, order |-> NoOrder, ends |-> NoEnds]
NoData == [keys |-> NoKeys, ends |-> NoEnds]

SettingsInit ==
    /\ \E place \in Places :
          /\ env = place.env /\ machine = place.machine /\ secrets = place.secrets
          /\ inode = [i \in {"first"} |-> place.prefs] /\ published = "first"
    /\ partial = NoInode /\ shared = {} /\ kept = {} /\ mmu = Free
    /\ disturbed = {} /\ crossed = {} /\ gone = {}

----------------------------------------------------------------------------
(* Reading.                                                                *)

Setting(p) == {r \in DOMAIN req : r.kind = "set" /\ r.provider = p /\ InFlight(r)}
Deletions == {r \in DOMAIN req : r.kind = "delete" /\ InFlight(r)}

\* Machine.read: absent and unreadable alike, nothing is configured.
MachineData ==
    IF machine.dir /\ machine.readable THEN [keys |-> machine.keys, ends |-> machine.ends] ELSE NoData

\* SecretValues: an unreadable file is an error, which mergedSecrets passes over.
ProjectKeys == IF secrets.readable THEN secrets.keys ELSE NoKeys

\* readPreferences: absent and unreadable alike, there is no preference.
Preferences == IF published = NoInode THEN Torn ELSE inode[published]

\* mergedSecrets and mergedEndpoints: the machine wins, the project falls back.
Over(top, below) ==
    [p \in DOMAIN top \cup DOMAIN below |-> IF p \in DOMAIN top THEN top[p] ELSE below[p]]

MergedSecrets == Over(MachineData.keys, ProjectKeys)
MergedEndpoints == Over(MachineData.ends, Preferences.ends)

\* secretScope: where the key in use is kept.
SecretScope(p) == IF p \in DOMAIN MachineData.keys THEN "machine" ELSE "project"

\* Variant: the order stays in the store.
ProviderConfigUnordered(keys, prefs, ends) ==
    [keys |-> env.keys \cup (DOMAIN keys \cap KeyedProviders), host |-> env.host, clis |-> env.clis,
     endpoints |-> ends, order |-> NoOrder,
     text |-> IF env.project # "" THEN env.project ELSE env.text,
     image |-> env.image, video |-> env.video, pinned |-> ""]

\* providerConfig, from what was read: the stored keys before the launch's,
\* and the project's text provider before the launch's.
ProviderConfig(keys, prefs, ends) ==
    [keys |-> env.keys \cup (DOMAIN keys \cap KeyedProviders), host |-> env.host, clis |-> env.clis,
     endpoints |-> ends, order |-> prefs.order,
     text |-> IF env.project # "" THEN env.project ELSE env.text,
     image |-> env.image, video |-> env.video, pinned |-> ""]

ConfigNow == ProviderConfig(MergedSecrets, Preferences, MergedEndpoints)

\* Variant: an address-configured provider that is on is usable.
EffectiveIfOn(cfg, p) ==
    CASE p \in KeyedProviders -> p \in cfg.keys
      [] p \in CLIProviders -> Credential(cfg, "text", p)
      [] OTHER -> p \in DOMAIN cfg.endpoints

\* effectiveCredential: what a provider would run with.  An Ollama counts by
\* its key alone.
EffectiveCredential(cfg, p) ==
    CASE p \in KeyedProviders -> p \in cfg.keys
      [] p \in CLIProviders -> Credential(cfg, "text", p)
      [] OTHER -> EndpointConfigured(cfg, p)

\* localCatalog: whether something usable covers a job; the panel asks for
\* the providers of those that nothing covers.
Covered(cfg, role) == \E p \in Elements(ProvidersFor(role)) : EffectiveCredential(cfg, p)

----------------------------------------------------------------------------
(* The machine's file: read and written back under this process's mutex.   *)

\* Variant: no mutex.
ReadMachineUnlocked(r, pc) == Keep(r, pc, MachineData) /\ UNCHANGED mmu

ReadMachine(r, pc) == mmu = Free /\ mmu' = r /\ Keep(r, pc, MachineData)

\* The write lands and the request goes on at "landed", or it fails and the
\* request goes on at "failed".
WriteMachine(r, data, landed, failed) ==
    /\ mmu' = (IF mmu = r THEN Free ELSE mmu)
    /\ \/ /\ machine' = [machine EXCEPT !.readable = TRUE, !.keys = data.keys, !.ends = data.ends]
          /\ Go(r, landed) /\ UNCHANGED mishaps
       \/ Mishap /\ Go(r, failed) /\ UNCHANGED machine

\* Another window's daemon saves a key in the same way, under its own mutex.
OtherReads(r) ==
    /\ Stands(r, "elsewhere", "begin") /\ machine.dir
    /\ Keep(r, "theirs", MachineData)
    /\ UNCHANGED <<settingsVars, mu, mishaps>>

\* What it read is written back, whatever was saved or deleted since.
OtherWrites(r) ==
    /\ Stands(r, "elsewhere", "theirs") /\ Go(r, "ok")
    /\ machine' = [machine EXCEPT !.readable = TRUE, !.keys = Put(req[r].saw.keys, r.provider, "theirs"),
                                  !.ends = req[r].saw.ends]
    /\ gone' = {d \in gone : d.provider \notin DOMAIN machine'.keys}
    /\ disturbed' = disturbed \cup {d \in Deletions : d.provider \in DOMAIN machine'.keys}
    /\ crossed' = IF mmu = Free THEN crossed ELSE crossed \cup {mmu}
    /\ UNCHANGED <<projectVars, mmu, mu, mishaps>>

----------------------------------------------------------------------------
(* setSecret: the machine's file, and the project's when that fails.       *)

SetRefused(r) == r.provider \notin AllProviders \/ r.provider \in CLIProviders

BeginSet(r) ==
    /\ Stands(r, "set", "begin")
    /\ IF SetRefused(r) THEN Go(r, "refused") /\ UNCHANGED <<mmu, gone, disturbed>>
       ELSE /\ gone' = {d \in gone : d.provider # r.provider}
            /\ disturbed' = disturbed \cup {d \in Deletions : d.provider = r.provider}
            /\ IF machine.dir /\ r.value # "" THEN ReadMachine(r, "machine")
               ELSE Go(r, "project") /\ UNCHANGED mmu
    /\ UNCHANGED <<projectVars, machine, crossed, mu, mishaps>>

SetOnMachine(r) ==
    /\ Stands(r, "set", "machine")
    /\ LET saw == req[r].saw IN
       WriteMachine(r, [saw EXCEPT !.keys = Put(saw.keys, r.provider, r.value)], "answer", "project")
    /\ UNCHANGED <<projectVars, historyVars, mu>>

SetInProject(r) ==
    /\ Stands(r, "set", "project") /\ mu = Free
    /\ IF ~secrets.readable \/ r.value = "" THEN Go(r, "refused") /\ UNCHANGED <<secrets, mishaps>>
       ELSE \/ /\ secrets' = [secrets EXCEPT !.keys = Put(secrets.keys, r.provider, r.value)]
               /\ Go(r, "answer") /\ UNCHANGED mishaps
            \/ Mishap /\ Go(r, "refused") /\ UNCHANGED secrets
    /\ UNCHANGED <<env, inode, published, partial, shared, kept, machine, mmu, historyVars, mu>>

\* The answer says where the key in use is kept, which it reads again.
AnswerSet(r) ==
    /\ Stands(r, "set", "answer") /\ (machine.dir => mmu = Free)
    /\ Keep(r, "ok", [scope |-> SecretScope(r.provider)])
    /\ UNCHANGED <<settingsVars, mu, mishaps>>

----------------------------------------------------------------------------
(* deleteSecret: the machine's key, then the project's.                    *)

\* Deleting what was never stored writes nothing.
BeginDelete(r) ==
    /\ Stands(r, "delete", "begin")
    /\ IF r.provider \in DOMAIN MachineData.keys THEN ReadMachine(r, "machine")
       ELSE (machine.dir => mmu = Free) /\ Go(r, "project") /\ UNCHANGED mmu
    /\ disturbed' = IF Setting(r.provider) = {} THEN disturbed ELSE disturbed \cup {r}
    /\ UNCHANGED <<projectVars, machine, gone, crossed, mu, mishaps>>

DeleteOnMachine(r) ==
    /\ Stands(r, "delete", "machine")
    /\ LET saw == req[r].saw IN
       WriteMachine(r, [saw EXCEPT !.keys = Without(saw.keys, r.provider)], "project", "refused")
    /\ UNCHANGED <<projectVars, historyVars, mu>>

AnswerDelete(r) ==
    Go(r, "ok") /\ gone' = IF r \in disturbed THEN gone ELSE gone \cup {r}

\* Variant: the machine's key is the only one.
DeleteOnlyOnMachine(r) ==
    /\ Stands(r, "delete", "project") /\ AnswerDelete(r)
    /\ UNCHANGED <<projectVars, machine, mmu, disturbed, crossed, mu, mishaps>>

DeleteInProject(r) ==
    /\ Stands(r, "delete", "project") /\ mu = Free
    /\ IF ~secrets.readable THEN Go(r, "refused") /\ UNCHANGED <<secrets, mishaps, gone>>
       ELSE \/ /\ secrets' = [secrets EXCEPT !.keys = Without(secrets.keys, r.provider)]
               /\ AnswerDelete(r) /\ UNCHANGED mishaps
            \/ /\ r.provider \in DOMAIN secrets.keys /\ Mishap
               /\ Go(r, "refused") /\ UNCHANGED <<secrets, gone>>
    /\ UNCHANGED <<env, inode, published, partial, shared, kept, machine, mmu, disturbed, crossed, mu>>

----------------------------------------------------------------------------
(* The preference file: read and rewritten, beside it and renamed, with no *)
(* mutex at all.                                                           *)

\* Who has read the file and not yet renamed its own over it.
Writing == {r \in DOMAIN req : req[r].pc \in {"open", "write", "rename"}}

\* History: who comes when nobody is at it shares it with nobody so far; of
\* two that rewrite it together, either may undo what was kept before.
Overlap(r) ==
    IF Writing = {} THEN shared' = {} /\ UNCHANGED kept
    ELSE shared' = Writing \cup {r} /\ kept' = {}

\* os.WriteFile opens the .partial file, making a new one or emptying the one
\* that is there.
OpenPartial(r) ==
    /\ req[r].pc = "open"
    /\ \/ /\ \E i \in IF partial = NoInode THEN {r.id} \ DOMAIN inode ELSE {partial} :
             /\ partial' = i /\ inode' = Put(inode, i, Torn)
             /\ req' = [req EXCEPT ![r] = [@ EXCEPT !.pc = "write", !.saw.at = i]]
          /\ UNCHANGED mishaps
       \/ Mishap /\ Go(r, "failed") /\ UNCHANGED <<inode, partial>>
    /\ UNCHANGED <<env, secrets, published, shared, kept, machine, mmu, historyVars, mu>>

\* It then writes into what it opened, which another writer may have renamed
\* or written since: of two texts of different lengths a tail may be left.
WritePartial(r) ==
    /\ req[r].pc = "write"
    /\ LET at == req[r].saw.at
           body == [whole |-> TRUE, order |-> req[r].saw.order, ends |-> req[r].saw.ends]
       IN  \E content \in IF inode[at] \in {Torn, body} THEN {body} ELSE {body, Torn} :
              inode' = Put(inode, at, content)
    /\ Go(r, "rename")
    /\ UNCHANGED <<env, secrets, published, partial, shared, kept, machine, mmu, historyVars, mu, mishaps>>

\* What is renamed is what bears the name; the second of two finds nothing.
RenamePartial(r) ==
    /\ req[r].pc = "rename"
    /\ IF partial = NoInode THEN Go(r, "failed") /\ UNCHANGED <<published, partial, kept>>
       ELSE /\ published' = partial /\ partial' = NoInode /\ Go(r, "renamed")
            /\ kept' = IF r.kind # "order" THEN kept ELSE {r} \ shared
    /\ UNCHANGED <<env, secrets, inode, shared, machine, mmu, historyVars, mu, mishaps>>

\* Clearing an endpoint of the machine passes over what the project says.
AfterPreferences(r) ==
    /\ req[r].pc \in {"renamed", "failed"}
    /\ Go(r, IF req[r].pc = "renamed" \/ (r.kind = "endpoint" /\ req[r].saw.cleared) THEN "ok" ELSE "refused")
    /\ UNCHANGED <<settingsVars, mu, mishaps>>

WritePreferences(r) == OpenPartial(r) \/ WritePartial(r) \/ RenamePartial(r) \/ AfterPreferences(r)

ToWrite(order, ends, cleared) == [order |-> order, ends |-> ends, cleared |-> cleared, at |-> NoInode]

----------------------------------------------------------------------------
(* setProviderOrder.                                                       *)

\* Only providers that do this job, each once, and no empty list.
CleanList(role, ids) ==
    LET Kept(i) == ids[i] \in Elements(ProvidersFor(role)) /\ \A j \in 1..(i - 1) : ids[j] # ids[i]
        n == Cardinality({i \in DOMAIN ids : Kept(i)})
    IN  [k \in 1..n |-> ids[CHOOSE i \in DOMAIN ids :
                                Kept(i) /\ Cardinality({j \in 1..i : Kept(j)}) = k]]

CleanOrder(order) ==
    [role \in {q \in DOMAIN order \cap Roles : CleanList(q, order[q]) # <<>>} |-> CleanList(role, order[role])]

SetProviderOrder(r) ==
    /\ Stands(r, "order", "begin")
    /\ Keep(r, "open", ToWrite(CleanOrder(r.order), Preferences.ends, FALSE)) /\ Overlap(r)
    /\ UNCHANGED <<env, secrets, inode, published, partial, machine, mmu, historyVars, mu, mishaps>>

----------------------------------------------------------------------------
(* setProviderEndpoint: the fields given over the current ones, on the     *)
(* machine, or in the project when that fails; cleared in both.            *)

EndpointRefused(r) == r.provider \notin AddressConfigured \/ r.badURL

\* A field left out stays as it is.
Patched(current, patch) ==
    [f \in {"url", "key", "model"} |-> IF f \in DOMAIN patch THEN patch[f] ELSE current[f]]

Store(ends, p, e) == IF e = Off THEN Without(ends, p) ELSE Put(ends, p, e)

BeginEndpoint(r) ==
    /\ Stands(r, "endpoint", "begin") /\ (machine.dir => mmu = Free)
    /\ IF EndpointRefused(r) THEN Go(r, "refused")
       ELSE LET current == IF r.provider \in DOMAIN MergedEndpoints THEN MergedEndpoints[r.provider] ELSE Off
            IN  Keep(r, IF machine.dir THEN "lock" ELSE "prefs", [saved |-> Patched(current, r.patch)])
    /\ UNCHANGED <<settingsVars, mu, mishaps>>

LockEndpoint(r) ==
    /\ Stands(r, "endpoint", "lock") /\ mmu = Free /\ mmu' = r
    /\ Keep(r, "machine", [saved |-> req[r].saw.saved, keys |-> MachineData.keys, ends |-> MachineData.ends])
    /\ UNCHANGED <<projectVars, machine, historyVars, mu, mishaps>>

EndpointOnMachine(r) ==
    /\ Stands(r, "endpoint", "machine")
    /\ LET saw == req[r].saw IN
       WriteMachine(r, [keys |-> saw.keys, ends |-> Store(saw.ends, r.provider, saw.saved)],
                    IF saw.saved = Off THEN "clear" ELSE "ok", "prefs")
    /\ UNCHANGED <<projectVars, historyVars, mu>>

EndpointInProject(r) ==
    /\ r.kind = "endpoint" /\ req[r].pc \in {"prefs", "clear"}
    /\ Keep(r, "open", ToWrite(Preferences.order, Store(Preferences.ends, r.provider, req[r].saw.saved),
                               req[r].pc = "clear"))
    /\ Overlap(r)
    /\ UNCHANGED <<env, secrets, inode, published, partial, machine, mmu, historyVars, mu, mishaps>>

----------------------------------------------------------------------------
SettingsNext ==
    \E r \in DOMAIN req :
       \/ BeginSet(r) \/ SetOnMachine(r) \/ SetInProject(r) \/ AnswerSet(r)
       \/ BeginDelete(r) \/ DeleteOnMachine(r) \/ DeleteInProject(r)
       \/ SetProviderOrder(r) \/ WritePreferences(r)
       \/ BeginEndpoint(r) \/ LockEndpoint(r) \/ EndpointOnMachine(r) \/ EndpointInProject(r)
       \/ OtherReads(r) \/ OtherWrites(r)

\* The process goes away: its mutexes with it, the files stay.
SettingsDropped ==
    /\ mmu' = Free /\ UNCHANGED <<projectVars, machine, historyVars>>

=============================================================================
