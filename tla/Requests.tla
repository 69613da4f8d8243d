------------------------------ MODULE Requests ------------------------------
(***************************************************************************)
(* The requests one zyvrod serves at once, each on a goroutine of its own, *)
(* and what they share whatever they ask for: the store's mutex and the    *)
(* mishaps that may befall them.  A request is a record with an id, a kind *)
(* and what its kind asks for; it begins whenever it likes.  What happens  *)
(* to the files from outside the daemon meanwhile comes in a script too:   *)
(* a save by another window's daemon, an edit by the user.                 *)
(***************************************************************************)
EXTENDS Naturals, FiniteSets

CONSTANTS
    Scripts,     \* sets of requests that come together
    MaxMishaps   \* how many writes fail, or restarts of the process, there are

\* Nobody's name, for a mutex that nobody holds.
Free == [id |-> "nobody"]

ASSUME RequestsAssumption ==
    /\ MaxMishaps \in Nat
    /\ \A script \in Scripts : Free \notin script /\ \A r, s \in script : r.id = s.id => r = s

VARIABLES
    req,      \* for each request of the script, where it stands and what it saw
    mu,       \* who holds the store's mutex, Free when nobody does
    mishaps   \* mishaps so far

Nothing == [seen |-> FALSE]

Ended == {"ok", "refused", "gone"}

\* Of the daemon's own, begun and not answered.
InFlight(r) == r.kind # "elsewhere" /\ req[r].pc \notin Ended \cup {"begin"}

Stands(r, kind, pc) == r.kind = kind /\ req[r].pc = pc

Go(r, pc) == req' = [req EXCEPT ![r].pc = pc]

Keep(r, pc, saw) == req' = [req EXCEPT ![r] = [@ EXCEPT !.pc = pc, !.saw = saw]]

RequestsInit ==
    /\ \E script \in Scripts : req = [r \in script |-> [pc |-> "begin", saw |-> Nothing]]
    /\ mu = Free /\ mishaps = 0

MayFail == mishaps < MaxMishaps

Mishap == MayFail /\ mishaps' = mishaps + 1

\* The process goes away with its requests, and is started again.
DropRequests ==
    /\ Mishap
    /\ req' = [r \in DOMAIN req |-> IF InFlight(r) THEN [req[r] EXCEPT !.pc = "gone"] ELSE req[r]]
    /\ mu' = Free

Put(f, x, v) == [y \in DOMAIN f \cup {x} |-> IF y = x THEN v ELSE f[y]]

Without(f, x) == [y \in DOMAIN f \ {x} |-> f[y]]

=============================================================================
