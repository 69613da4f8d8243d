------------------------------- MODULE Daemon -------------------------------
(***************************************************************************)
(* One zyvrod with a project open: its configuration, its workflows, its   *)
(* packs and its runs, under whatever requests come together, with writes  *)
(* that fail and a process that may be stopped and started at any step.    *)
(***************************************************************************)
EXTENDS RunTools, Packs

vars == <<req, mu, mishaps, settingsVars, shelf, runVars, packVars>>

Init == RequestsInit /\ SettingsInit /\ WorkflowsInit /\ RunsInit /\ PacksInit

Configure == SettingsNext /\ UNCHANGED <<shelf, runVars, packVars>>
Edit == WorkflowsNext /\ UNCHANGED <<settingsVars, runVars, packVars>>
Run == RunsNext /\ UNCHANGED <<settingsVars, shelf, packVars>>
Pack == PacksNext /\ UNCHANGED <<settingsVars, shelf, runVars>>

\* The process is stopped in the middle of what it does and opens the project
\* again: what is on disk stays as it is.
Restart ==
    /\ DropRequests /\ SettingsDropped /\ RunsDropped /\ PacksReopened
    /\ UNCHANGED shelf

Next == Configure \/ Edit \/ Run \/ Pack \/ Restart

Spec == Init /\ [][Next]_vars

----------------------------------------------------------------------------
(* What must hold.                                                         *)

\* DeletedIsGone: a key whose deletion was acknowledged, and that nobody set
\* again or was setting meanwhile, is nowhere the daemon looks for one: not
\* where a call would take it from, and not in the hands of a run that read
\* its keys since (main.go:1598-1612, :234-245).
DeletedIsGone ==
    \A d \in gone :
       /\ d.provider \notin DOMAIN MergedSecrets
       /\ \A id \in DOMAIN going :
             d \in going[id].barred /\ going[id].pc # "machine keys" => d.provider \notin going[id].keys

\* What a provider would be used with.
InUse(p) ==
    <<p \in DOMAIN MergedSecrets, IF p \in DOMAIN MergedSecrets THEN MergedSecrets[p] ELSE "",
      IF p \in DOMAIN MachineData.ends THEN MachineData.ends[p] ELSE Off>>

Named(p) == \E r \in DOMAIN req : r.kind \in {"set", "delete", "endpoint"} /\ r.provider = p /\ InFlight(r)

\* OthersKept: what a provider is used with never changes under a request for
\* another one, however many are saving at once in this window.  Another
\* window's daemon may change it, and may come between this one's reading of
\* the machine's file and its writing: that file's lock is each window's own
\* (machine.go:138-215, and :232-240, which owns to it).
OthersKept ==
    [][\A p \in AllProviders :
          InUse(p)' # InUse(p) =>
             \/ Named(p) \/ Named(p)'
             \/ \E r \in DOMAIN req : r.kind = "elsewhere" /\ req'[r] # req[r]
             \/ mmu \in crossed]_vars

\* CoveredIsServed: where the panel says a job is covered, a node that names
\* nobody is sent to a provider that can be used.  Not for text, whose default
\* provider comes before all the others, and not where the launch imposes one
\* (main.go:1071-1228 against the routers).
CoveredIsServed ==
    LET cfg == ConfigNow IN
    \A role \in Roles \ {"text"} :
       Deployment(cfg, role) = "" /\ Covered(cfg, role) => Has(cfg, role, Resolve(cfg, role, ""))

\* WaitIsFresh: a status that was waited for says the run has ended when it
\* had by the time the wait was over (mcp.go:273-317, :516-532).
WaitIsFresh ==
    \A r \in DOMAIN req :
       r.kind = "status" /\ req[r].pc = "ok" /\ req[r].saw.ended => req[r].saw.status \in Terminal

\* OrderIsFollowed: when the order somebody asked for was saved by a request
\* that had the preference file to itself, a node that names nobody is sent to
\* the first of that list that can be used for the job.  It holds on until
\* another order is saved or two requests rewrite the file together: after a
\* save of an address, which rewrites the file too, after one that failed, and
\* after one that a restart cut short (main.go:319-326, :1342-1379).  Not for
\* text, where the project's own provider, which it always has, comes first.
OrderIsFollowed ==
    LET cfg == ConfigNow IN
    \A r \in kept : \A role \in (DOMAIN r.order \cap Roles) \ {"text"} :
       Deployment(cfg, role) = "" /\ Hits(r.order[role], Usable(cfg, role)) # {}
       => Resolve(cfg, role, "") = First(r.order[role], Usable(cfg, role))

=============================================================================
