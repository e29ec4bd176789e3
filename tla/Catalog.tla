------------------------------ MODULE Catalog ------------------------------
(***************************************************************************)
(* What Flow knows of the catalog: where an item is published, under which *)
(* name it should be ordered, how many users and which regions it takes    *)
(* (rhdp_flow.py), and the requests that use it (api/routes.py): the three *)
(* validations of the dashboard, which only report, the check before a     *)
(* deployment, which corrects rows and refuses, the check before a retry,  *)
(* and QA's catalog check.                                                 *)
(*                                                                         *)
(* The catalog changes at any time.  Names are looked up in an index of    *)
(* all items, made by listing one namespace after another, and the answers *)
(* are cached; both are good for TTL.  The number of users and the regions *)
(* are read from the item.  One request walks through the rows at a time.  *)
(* The caches are those of the pod's own cluster: with a target cluster,   *)
(* which has a new kubeconfig for each request, nothing is found in them.  *)
(* A row with assets stands alone; rows that share a MultiWorkshop have    *)
(* none that is ordered.                                                   *)
(***************************************************************************)
EXTENDS Naturals, Sequences, FiniteSets

CONSTANTS
    Bases,       \* the names of items without their suffixes
    Aliases,     \* lib/catalog_item_aliases.json: a function on some items
    Most,        \* the greatest num_users of an item
    Allowed,     \* the regions that an item allows
    Sheets,      \* the schedules considered
    Catalogs,    \* the catalogs considered: for each item, where it is published
    Unsteady,    \* the items that come and go, each with a namespace
    TTL,         \* _CATALOG_CACHE_TTL
    MaxWalk,     \* how long the listings of all namespaces take at most, by
                 \* the time limits of the oc calls
    ClientSets,  \* the cases considered: which requests come, and what happens
    MaxTime,     \* bound: how far the clock goes
    MaxMoves,    \* bound: how often the catalog changes
    Flaky,       \* the namespaces whose listing may fail
    MaxFaults,   \* bound: how many listings fail
    None

\* The suffixes, and the catalog namespace of each.
Envs == {"event", "prod", "dev", "test"}
Order == <<"event", "prod", "dev", "test">>
Items == [base : Bases, env : Envs \cup {"bare"}]
Row == [ci : Items, assets : SUBSET Items, ns : Envs \cup {None}, users : Nat,
        region : STRING \cup {None}]
Answers == [exists : BOOLEAN, found : Envs \cup {None}, suggested : Items \cup {None}]
Index == [at : Nat, names : [Items -> SUBSET Envs]]
Cached == [at : Nat, answer : Answers]
Walks == [since : Nat, next : 1..4, names : [Items -> SUBSET Envs]]
Kinds == {"names", "users", "regions", "deploy", "retry", "qa"}

ASSUME AliasesAssumption == DOMAIN Aliases \subseteq Items /\ \A c \in DOMAIN Aliases : Aliases[c] \in Items
ASSUME CatalogsAssumption == Catalogs \subseteq [Items -> SUBSET Envs] /\ Unsteady \subseteq Items \X Envs
ASSUME BoundsAssumption == TTL \in Nat \ {0} /\ MaxWalk \in Nat /\ MaxTime \in Nat /\ MaxMoves \in Nat /\ MaxFaults \in Nat
ASSUME FlakyAssumption == Flaky \subseteq Envs
ASSUME ItemsAssumption == Most \in [Items -> Nat \cup {None}] /\ Allowed \in [Items -> SUBSET STRING]
ASSUME SheetsAssumption == Sheets \subseteq Seq(Row)
ASSUME NoneAssumption == None \notin Envs \cup Items \cup BOOLEAN \cup Nat \cup Answers \cup Index \cup Cached \cup Walks

VARIABLES
    published,  \* where each item is published
    clock,
    rows,       \* the schedules
    uploaded,   \* the schedules as they were uploaded
    index,      \* _catalog_name_index_cache
    cache,      \* _catalog_exists_cache
    walk,       \* the listings that are under way: since when, and what they found
    req,        \* the request
    verdict,    \* what the last request of each kind said of the rows as they are
    changed,    \* when an item last came to a namespace, or left it
    failed,     \* when the listing of a namespace last failed
    moves,      \* how often the catalog has changed
    faults,     \* how many listings have failed
    clients     \* which requests come, and what happens, in this behaviour

world == <<published, changed, moves, clients>>
vars == <<published, clock, rows, uploaded, index, cache, walk, req, verdict, changed, failed, moves,
          faults, clients>>

NoRequest == [kind |-> "none", row |-> 1, answers |-> [c \in Items |-> None],
              limits |-> [c \in Items |-> None], schemas |-> [c \in Items |-> None], bad |-> FALSE]
NoVerdict == [k \in Kinds |-> "none"]

Requests == [kind : Kinds \cup {"none"}, row : 1..(Len(rows) + 1), answers : [Items -> Answers \cup {None}],
             limits : [Items -> BOOLEAN \cup {None}], schemas : [Items -> BOOLEAN \cup {None}], bad : BOOLEAN]

TypeOK ==
    /\ published \in [Items -> SUBSET Envs]
    /\ clock \in 0..MaxTime
    /\ rows \in Seq(Row) /\ uploaded \in Seq(Row)
    /\ index \in Index \cup {None}
    /\ cache \in [Items \X Envs -> Cached \cup {None}]
    /\ index # None => index.at <= clock
    /\ \A c \in Items, e \in Envs : cache[<<c, e>>] # None => cache[<<c, e>>].at <= clock
    /\ walk \in Walks \cup {None}
    /\ walk # None => walk.since <= clock /\ clock <= walk.since + MaxWalk
    /\ req \in Requests
    /\ verdict \in [Kinds -> {"none", "clean", "bad"}]
    /\ changed \in [Items \X Envs -> 0..clock \cup {None}]
    /\ failed \in [Envs -> 0..clock \cup {None}]
    /\ moves \in 0..MaxMoves /\ faults \in 0..MaxFaults
    /\ clients \in ClientSets

Init ==
    /\ published \in Catalogs
    /\ clock = 0
    /\ rows \in Sheets /\ uploaded = rows
    /\ index = None
    /\ cache = [key \in Items \X Envs |-> None]
    /\ walk = None
    /\ req = NoRequest
    /\ verdict = NoVerdict
    /\ changed = [key \in Items \X Envs |-> None]
    /\ failed = [e \in Envs |-> None]
    /\ moves = 0
    /\ faults = 0
    /\ clients \in ClientSets

-----------------------------------------------------------------------------
(* Names.                                                                  *)

\* get_catalog_namespace
CatalogNamespace(ci, ns) ==
    IF ns # None THEN ns ELSE IF ci.env = "bare" THEN "prod" ELSE ci.env

Exists(ns) == [exists |-> TRUE, found |-> ns, suggested |-> None]
Elsewhere(ns) == [exists |-> FALSE, found |-> ns, suggested |-> None]
Suggest(ci) == [exists |-> FALSE, found |-> None, suggested |-> ci]

First(envs) == Order[CHOOSE i \in 1..4 : Order[i] \in envs /\ \A j \in 1..(i - 1) : Order[j] \notin envs]

\* _alias_catalog_ci: the alias of the name itself, or of its base with another
\* suffix, which .test is not.
Alias(ci) ==
    LET known == {e \in {"event", "prod", "dev", "bare"} :
                    ci.env # "test" /\ [ci EXCEPT !.env = e] \in DOMAIN Aliases}
        env == IF known = {"bare"} THEN "bare" ELSE First(known \ {"bare"})
    IN  IF ci \in DOMAIN Aliases THEN Aliases[ci]
        ELSE IF known = {} THEN None ELSE Aliases[[ci EXCEPT !.env = env]]

\* The other suffixes under which an item is published.
Suffixes(ci, names) == {e \in Envs : e # ci.env /\ names[[ci EXCEPT !.env = e]] # {}}

\* validate_catalog_item_exists, for these names: an alias wins; an item that
\* is published elsewhere keeps its name; of other suffixes .event is
\* preferred to .prod, and anything else only if there is no choice.
Resolve(ci, ns, names) ==
    LET alias == IF Alias(ci) \in {None, ci} THEN None ELSE Alias(ci)
        name == IF alias = None THEN ci ELSE alias
        options == Suffixes(name, names)
    IN  IF alias # None /\ names[name] # {} THEN Suggest(alias)
        ELSE IF ns \in names[name] THEN Exists(ns)
        ELSE IF names[name] # {} THEN Elsewhere(First(names[name]))
        ELSE IF Cardinality(options) = 1 \/ {"event", "prod"} \cap options # {}
        THEN Suggest([name EXCEPT !.env = First(options)])
        ELSE Suggest(None)

Fresh(entry) == entry # None /\ clock - entry.at < TTL

\* What is answered from the cache, or else from the index.
Answer(ci, ns) ==
    IF Fresh(cache[<<ci, ns>>]) THEN cache[<<ci, ns>>].answer ELSE Resolve(ci, ns, index.names)

\* Variant: an answer that is used stays for longer.
CacheAfterUse(ci, ns, answer) == [cache EXCEPT ![<<ci, ns>>] = [at |-> clock, answer |-> answer]]

\* The answer is kept.
CacheAfter(ci, ns, answer) ==
    IF Fresh(cache[<<ci, ns>>]) THEN cache
    ELSE [cache EXCEPT ![<<ci, ns>>] = [at |-> clock, answer |-> answer]]

-----------------------------------------------------------------------------
(* Users and regions.  A parameter that the item does not have, or an item *)
(* that cannot be read, is no reason to complain.                          *)

Readable(ci, ns, down) == ns \in published[ci] \ down

\* get_catalog_item_num_users_limit does not look at the row's namespace.
HasLimit(ci, down) == Most[ci] # None /\ Readable(ci, CatalogNamespace(ci, None), down)

\* get_catalog_item_parameter_schemas: the namespace, and a second one.
HasSchema(ci, ns, down) ==
    LET primary == CatalogNamespace(ci, ns)
        secondary == IF primary = "prod" THEN "event" ELSE "prod"
    IN  Readable(ci, primary, down) \/ Readable(ci, secondary, down)

TooMany(row, ci, limited) == limited /\ row.users > 0 /\ row.users > Most[ci]

\* validate_schedule_parameter_values, whose warnings are left out
WrongRegion(row, ci, described) ==
    described /\ row.region # None /\ Allowed[ci] # {} /\ row.region \notin Allowed[ci]

\* What a request has read it does not read again.
Kept(known, now) == IF known = None THEN now ELSE known

-----------------------------------------------------------------------------
(* Requests.                                                               *)

Outages == IF "fault" \in clients /\ faults < MaxFaults THEN {{}} \cup {{e} : e \in Flaky} ELSE {{}}

\* A read or a listing fails.
Fail(down) ==
    /\ faults' = IF down = {} THEN faults ELSE faults + 1
    /\ failed' = [e \in Envs |-> IF e \in down THEN clock ELSE failed[e]]

Begin(kind) ==
    /\ kind \in clients
    /\ req.kind = "none"
    /\ rows # <<>>
    /\ req' = [NoRequest EXCEPT !.kind = kind]
    /\ UNCHANGED <<world, clock, rows, uploaded, index, cache, walk, verdict, failed, faults>>

Walking == req.kind # "none" /\ req.row <= Len(rows)

\* At the end of the rows.
Finish ==
    /\ req.kind # "none"
    /\ req.row > Len(rows)
    /\ verdict' = [verdict EXCEPT ![req.kind] = IF req.bad THEN "bad" ELSE "clean"]
    /\ req' = NoRequest
    /\ UNCHANGED <<world, clock, rows, uploaded, index, cache, walk, failed, faults>>

\* The names of a row that a request looks at: a report, the row's item and its
\* assets; QA, the assets if there are any; a check before a deployment or a
\* retry, the item only.
Names(kind, row) ==
    IF kind \in {"names", "users", "regions"} THEN {row.ci} \cup row.assets
    ELSE IF kind = "qa" /\ row.assets # {} THEN row.assets ELSE {row.ci}

\* The names of this row that are still to be looked up: what is known of a name
\* goes for all rows that have it.
Unknown ==
    IF Walking /\ req.kind \in {"names", "deploy", "qa"}
    THEN {ci \in Names(req.kind, rows[req.row]) : req.answers[ci] = None} ELSE {}
Key(ci) == <<ci, CatalogNamespace(ci, rows[req.row].ns)>>

\* validate_catalog_namespaces fetches the index before it looks anything up.
Prefetch == req.kind = "names" /\ \A ci \in Items : req.answers[ci] = None

\* _catalog_name_index, when it is not fresh: the namespaces are listed one
\* after another, and one whose listing fails has no items.  The index has the
\* time of the end.
WalkFrom == IF walk = None THEN [since |-> clock, next |-> 1, names |-> [c \in Items |-> {}]] ELSE walk

\* Variant: the index has the time at which it expires.
IndexUntil(names) == [at |-> clock + TTL, names |-> names]
IndexOf(names) == [at |-> clock, names |-> names]

List ==
    /\ ~Fresh(index)
    /\ \E ci \in Unknown : Prefetch \/ ~Fresh(cache[Key(ci)])
    /\ \E down \in Outages :
        LET env == Order[WalkFrom.next]
            names == [c \in Items |-> WalkFrom.names[c] \cup ((published[c] \cap {env}) \ down)]
        IN  /\ walk' = IF WalkFrom.next = 4 THEN None
                       ELSE [WalkFrom EXCEPT !.next = @ + 1, !.names = names]
            /\ index' = IF WalkFrom.next = 4 THEN IndexOf(names) ELSE index
            /\ Fail(down \cap {env})
    /\ UNCHANGED <<world, clock, rows, uploaded, cache, req, verdict>>

\* validate_catalog_item_exists
LookUp ==
    \E ci \in Unknown :
        /\ walk = None
        /\ Fresh(index) \/ (~Prefetch /\ Fresh(cache[Key(ci)]))
        /\ req' = [req EXCEPT !.answers[ci] = Answer(ci, Key(ci)[2])]
        /\ cache' = CacheAfter(ci, Key(ci)[2], Answer(ci, Key(ci)[2]))
        /\ UNCHANGED <<world, clock, rows, uploaded, index, walk, verdict, failed, faults>>

\* validate_catalog_namespaces, which complains of what it does not find where
\* it expects it.  The catalog check of QA does the same.
CheckNames ==
    /\ Walking /\ req.kind \in {"names", "qa"}
    /\ Unknown = {}
    /\ req' = [req EXCEPT !.row = @ + 1,
                          !.bad = @ \/ \E ci \in Names(req.kind, rows[req.row]) : ~req.answers[ci].exists]
    /\ UNCHANGED <<world, clock, rows, uploaded, index, cache, walk, verdict, failed, faults>>

\* What is read of some names: what has been read before is kept.
LimitsAfter(names, down) ==
    [ci \in Items |-> IF ci \in names THEN Kept(req.limits[ci], HasLimit(ci, down)) ELSE req.limits[ci]]
SchemasAfter(names, ns, down) ==
    [ci \in Items |-> IF ci \in names THEN Kept(req.schemas[ci], HasSchema(ci, ns, down)) ELSE req.schemas[ci]]

\* Variant: an item is checked in the first of its rows and in no other.
CheckUsersOnce ==
    /\ Walking /\ req.kind = "users"
    /\ \E down \in Outages :
        LET row == rows[req.row]
            limits == LimitsAfter(Names("users", row), down)
        IN  /\ req' = [req EXCEPT !.row = @ + 1, !.limits = limits,
                                  !.bad = @ \/ \E ci \in Names("users", row) :
                                                  req.limits[ci] = None /\ TooMany(row, ci, limits[ci])]
            /\ Fail(down)
    /\ UNCHANGED <<world, clock, rows, uploaded, index, cache, walk, verdict>>

\* validate_num_users, whose advice is left out
CheckUsers ==
    /\ Walking /\ req.kind = "users"
    /\ \E down \in Outages :
        LET row == rows[req.row]
            limits == LimitsAfter(Names("users", row), down)
        IN  /\ req' = [req EXCEPT !.row = @ + 1, !.limits = limits,
                                  !.bad = @ \/ \E ci \in Names("users", row) : TooMany(row, ci, limits[ci])]
            /\ Fail(down)
    /\ UNCHANGED <<world, clock, rows, uploaded, index, cache, walk, verdict>>

\* validate_parameters, which does not look at the row's catalog namespace
CheckRegions ==
    /\ Walking /\ req.kind = "regions"
    /\ \E down \in Outages :
        LET row == rows[req.row]
            schemas == SchemasAfter(Names("regions", row), None, down)
        IN  /\ req' = [req EXCEPT !.row = @ + 1, !.schemas = schemas,
                                  !.bad = @ \/ \E ci \in Names("regions", row) :
                                                  WrongRegion(row, ci, schemas[ci])]
            /\ Fail(down)
    /\ UNCHANGED <<world, clock, rows, uploaded, index, cache, walk, verdict>>

\* Variant: the row is corrected, and its assets are not.
CorrectedButAssets(row, answer) ==
    IF answer.exists THEN row
    ELSE IF answer.found # None
    THEN IF answer.found = CatalogNamespace(row.ci, row.ns) THEN row ELSE [row EXCEPT !.ns = answer.found]
    ELSE IF answer.suggested # None
    THEN [row EXCEPT !.ci = answer.suggested, !.ns = CatalogNamespace(answer.suggested, None)]
    ELSE row

\* The correction of a row in the check before a deployment.  Of the assets,
\* which are ordered with the row, only the row's own item is corrected.
Corrected(row, answer) ==
    IF answer.exists THEN row
    ELSE IF answer.found # None
    THEN IF answer.found = CatalogNamespace(row.ci, row.ns) THEN row ELSE [row EXCEPT !.ns = answer.found]
    ELSE IF answer.suggested # None
    THEN [row EXCEPT !.ci = answer.suggested, !.ns = CatalogNamespace(answer.suggested, None),
                     !.assets = {IF ci = row.ci THEN answer.suggested ELSE ci : ci \in row.assets}]
    ELSE row

\* preflight of deploy, after the name has been looked up: the number of users
\* is checked under the old name, the region under the new one, and neither for
\* the assets.
CheckDeploy ==
    /\ Walking /\ req.kind = "deploy"
    /\ Unknown = {}
    /\ \E down \in Outages :
        LET row == rows[req.row]
            answer == req.answers[row.ci]
            fixed == Corrected(row, answer)
            limits == LimitsAfter(IF row.users = 0 THEN {} ELSE {row.ci}, down)
            schemas == SchemasAfter({fixed.ci}, fixed.ns, down)
        IN  /\ rows' = [rows EXCEPT ![req.row] = fixed]
            /\ verdict' = IF fixed = row THEN verdict ELSE NoVerdict
            /\ req' = [req EXCEPT !.row = @ + 1, !.limits = limits, !.schemas = schemas,
                                  !.bad = \/ @
                                          \/ row.users # 0 /\ TooMany(row, row.ci, limits[row.ci])
                                          \/ WrongRegion(fixed, fixed.ci, schemas[fixed.ci])
                                          \/ ~answer.exists /\ answer.found = None /\ answer.suggested = None]
            /\ Fail(down)
    /\ UNCHANGED <<world, clock, uploaded, index, cache, walk>>

\* preflight of deploy_retry: names are not looked up.
CheckRetry ==
    /\ Walking /\ req.kind = "retry"
    /\ \E down \in Outages :
        LET row == rows[req.row]
            limits == LimitsAfter(IF row.users = 0 THEN {} ELSE {row.ci}, down)
            schemas == SchemasAfter({row.ci}, row.ns, down)
        IN  /\ req' = [req EXCEPT !.row = @ + 1, !.limits = limits, !.schemas = schemas,
                                  !.bad = \/ @
                                          \/ row.users # 0 /\ TooMany(row, row.ci, limits[row.ci])
                                          \/ WrongRegion(row, row.ci, schemas[row.ci])]
            /\ Fail(down)
    /\ UNCHANGED <<world, clock, rows, uploaded, index, cache, walk, verdict>>

-----------------------------------------------------------------------------
(* The catalog.                                                            *)

Published(key) == key[2] \in published[key[1]]

Move ==
    \E key \in Unsteady :
        /\ "move" \in clients /\ moves < MaxMoves
        /\ moves' = moves + 1
        /\ published' = [published EXCEPT ![key[1]] =
                            IF Published(key) THEN @ \ {key[2]} ELSE @ \cup {key[2]}]
        /\ changed' = [changed EXCEPT ![key] = clock]
        /\ UNCHANGED <<clock, rows, uploaded, index, cache, walk, req, verdict, failed, faults, clients>>

Tick ==
    /\ "tick" \in clients /\ clock < MaxTime
    /\ walk # None => clock < walk.since + MaxWalk
    /\ clock' = clock + 1
    /\ UNCHANGED <<world, rows, uploaded, index, cache, walk, req, verdict, failed, faults>>

Next ==
    \/ \E kind \in Kinds : Begin(kind)
    \/ List \/ LookUp \/ CheckNames \/ CheckUsers \/ CheckRegions
    \/ CheckDeploy \/ CheckRetry \/ Finish
    \/ Move \/ Tick

Spec == Init /\ [][Next]_vars

-----------------------------------------------------------------------------
(* Properties.                                                             *)

\* The catalog has not changed and could be read.
Steady == moves = 0 /\ faults = 0

\* No item is published outside its own namespace alone.
Canonical == \A c \in Items : published[c] = {} \/ CatalogNamespace(c, None) \in published[c]

\* The rows of one item, before a correction or after, agree on its namespace.
Plain == \A i, j \in DOMAIN rows : rows[i].ci = rows[j].ci => rows[i].ns = rows[j].ns

IsPublished(row) == CatalogNamespace(row.ci, row.ns) \in published[row.ci]

\* No row has a name that the aliases change.
Settled == \A i \in DOMAIN rows : Alias(rows[i].ci) \in {None, rows[i].ci}

\* The assets of a row that no check before a deployment asks about.
Unasked(i) == uploaded[i].assets \ {uploaded[i].ci}

\* A deployment that is let through orders items that there are, from where
\* they are, and so it does for those of a row's assets that it asks about.
\* If there are no others, QA's catalog check has nothing to say against it,
\* unless the name that a row was corrected to is itself an alias.
AdmittedIsPublished ==
    (verdict["deploy"] = "clean" /\ Steady /\ Canonical /\ Plain) =>
        /\ \A i \in DOMAIN rows : IsPublished(rows[i])
        /\ \A i \in DOMAIN rows : \A ci \in rows[i].assets \ Unasked(i) :
              CatalogNamespace(ci, None) \in published[ci]
        /\ (Settled /\ \A i \in DOMAIN rows : Unasked(i) = {}) => verdict["qa"] # "bad"

\* What FLOW_CSV_SPEC_FOR_MCP.md says: the number of users is checked for each
\* of the assets, and a deployment with too many is refused.  (It does not hold:
\* README, section 5.)
AssetsAreLimited ==
    (verdict["deploy"] = "clean" /\ Steady) =>
        \A i \in DOMAIN rows : \A ci \in rows[i].assets \ {rows[i].ci} :
            ~TooMany(rows[i], ci, HasLimit(ci, {}))

\* What README.md says: a deployment is refused if a row has more users than the
\* item allows that is ordered for it.  (It does not hold: README, section 5.)
RowsAreLimited ==
    (verdict["deploy"] = "clean" /\ Steady) =>
        \A i \in DOMAIN rows : ~TooMany(rows[i], rows[i].ci, HasLimit(rows[i].ci, {}))

\* What DESIGN_PHILOSOPHY.md says: a row whose namespace the item is not in is
\* deployed from where it is.  (It does not hold: README, section 5.)
EveryRowIsRedirected ==
    (verdict["deploy"] = "clean" /\ Steady /\ Canonical) => \A i \in DOMAIN rows : IsPublished(rows[i])

\* A listing that answers what is asked now may have been before that time: what
\* is fresh is at most TTL - 1 old.
Lately(time) == time # None /\ clock <= time + 2 * (TTL - 1) + MaxWalk

\* However long the listings take and however the index and the answers are
\* cached, a name is taken to be where it is not, or not to be where it is,
\* only if it came or left, or a listing failed, within two times TTL and the
\* time of the listings.
NotStaleForLong ==
    [][\A ci \in Unknown :
        LET key == Key(ci)
            wrong == req'.answers[ci].exists # Published(key)
        IN  (req'.answers[ci] # None /\ Alias(ci) \in {None, ci} /\ wrong) =>
                Lately(changed[key]) \/ (Published(key) /\ Lately(failed[key[2]]))]_vars

\* What the dashboard's checks have nothing to say about is not refused, as
\* long as rows name no catalog namespace of their own.
ReportForetells ==
    (/\ Steady
     /\ \A i \in DOMAIN rows : rows[i].ns = None
     /\ \A k \in {"names", "users", "regions"} : verdict[k] = "clean")
        => verdict["deploy"] # "bad"
=============================================================================
