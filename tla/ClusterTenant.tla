---------------------------- MODULE ClusterTenant ----------------------------
(***************************************************************************)
(* Cluster rows and tenant rows of the loaded schedules.  A tenant is      *)
(* deployed onto a cluster that has to exist by then: either a row of the  *)
(* same schedules provides it, or a TenantClusterPool does, or it is in    *)
(* the namespace already.  Flow detects which row is what, binds tenants   *)
(* to clusters, validates the timing, and repairs it: the route "auto-fix" *)
(* moves clusters ahead of their tenants, and the two library functions    *)
(* auto_provision_missing_clusters and remove_auto_provisioned_clusters,   *)
(* which no route calls, add and remove cluster rows.                      *)
(*                                                                         *)
(* Dates are minutes counted from an arbitrary one; NoDate stands for a    *)
(* date that is empty or cannot be parsed.  There is one namespace, and a  *)
(* catalog item refers to one pool at most.  What AgnosticV, the catalog   *)
(* and the cluster answer is outside the repository.  The detection of     *)
(* pools inside auto-fix is left out: it imports a module by a name it     *)
(* does not have, and goes on without it.                                  *)
(***************************************************************************)
EXTENDS Integers, Sequences

CONSTANTS
    Items,          \* catalog items
    ClusterNamed,   \* those whose name says they are clusters
    TenantNamed,    \* those whose name says they are tenants
    Counterpart,    \* the cluster item after which a tenant item is named
    AgnosticV,      \* the cluster item AgnosticV binds an item to, or None
    References,     \* the pool an item's catalog entry refers to, None, or Direct
    PoolSets,       \* the cases considered of pools and their free clusters
    ClaimSets,      \* the cases considered of clusters provisioned already
    Uploads,        \* the schedules a client may upload
    Edits,          \* the dates and overrides it may put into a row
    Buffer,         \* buffer_minutes
    Lead,           \* the 30 minutes from now that a start in the past becomes
    Horizon,        \* bound: the last minute considered
    None, Direct, NoDate

ASSUME ItemsAssumption ==
    /\ ClusterNamed \subseteq Items /\ TenantNamed \subseteq Items
    /\ {None, Direct, "blank", "none"} \cap Items = {} /\ None # Direct
    /\ Counterpart \in [TenantNamed -> Items]
    /\ AgnosticV \in [Items -> Items \cup {None}]
    /\ References \in [Items -> Items \cup {None, Direct}]
ASSUME TimesAssumption ==
    /\ Buffer \in Nat /\ Lead \in Nat /\ Horizon \in Nat
    /\ NoDate \in Int /\ NoDate < 0

Labels == {"blank", "cluster", "tenant", "workshop"}
Dates == {NoDate} \cup Nat
Overrides == Items \cup {"blank", "none"}
Row == [ci : Items, label : Labels, override : Overrides, at : Dates, ui : BOOLEAN,
        auto : BOOLEAN, cluster : BOOLEAN, tenant : BOOLEAN, bound : Items \cup {None}]

ASSUME UploadsAssumption == Uploads \subseteq Seq(Items \X Labels \X Overrides \X Dates \X BOOLEAN)
ASSUME EditsAssumption == Edits \subseteq Dates \X Overrides
ASSUME OutsideAssumption ==
    /\ \A p \in PoolSets : DOMAIN p \subseteq Items /\ p \in [DOMAIN p -> Nat]
    /\ ClaimSets \subseteq SUBSET Items

\* Definitions introduced by "Variant" are not part of the model: each has a
\* plausible mistake in it, which the properties of this module must notice.

VARIABLES
    rows,    \* _schedules
    now,     \* the time
    pools,   \* the TenantClusterPools: how many free clusters each has
    claims,  \* the cluster items with a provisioned ResourceClaim
    report   \* what the last request answered, if it was a validation

vars == <<rows, now, pools, claims, report>>
outside == <<pools, claims>>

TypeOK ==
    /\ rows \in Seq(Row)
    /\ now \in 0..Horizon
    /\ pools \in PoolSets
    /\ claims \in ClaimSets
    /\ report \in {"nothing", "valid", "warned", "invalid"}

-----------------------------------------------------------------------------
(* What a row is, and which cluster a tenant is bound to.                  *)

\* A row of a CSV file: item, item_type, Cluster_CI, provisioning date, and
\* Enable_workshop_interface.
ReadRow(cells) ==
    [ci |-> cells[1], label |-> cells[2], override |-> cells[3], at |-> cells[4],
     ui |-> cells[5], auto |-> FALSE, cluster |-> FALSE, tenant |-> FALSE, bound |-> None]

\* get_cluster_ci_for_tenant
ByName(r) ==
    CASE r.override \in Items                                        -> r.override
      [] r.override \notin Items \cup {"none"} /\ r.ci \in TenantNamed -> Counterpart[r.ci]
      [] OTHER                                                       -> None

\* _resolve_tenant_cluster: the override, then AgnosticV if it answers, then
\* the naming convention.
Binding(r, answers) ==
    IF r.override = "blank" /\ answers /\ AgnosticV[r.ci] # None
    THEN AgnosticV[r.ci]
    ELSE ByName(r)

LabelledOrNamed(r, label, named) ==
    r.label = label \/ (r.label = "blank" /\ r.ci \in named)

\* analyze_cluster_tenant_relationships, for one row.
Detect(r, answers) ==
    LET cluster == LabelledOrNamed(r, "cluster", ClusterNamed)
        tenant == ~cluster /\ LabelledOrNamed(r, "tenant", TenantNamed)
    IN  [r EXCEPT !.cluster = cluster, !.tenant = tenant,
                  !.bound = IF tenant THEN Binding(r, answers) ELSE None]

\* AgnosticV is asked for each row; "answered" are the rows it answers for.
Analyzed(rs, answered) == [i \in DOMAIN rs |-> Detect(rs[i], i \in answered)]
Answers(rs) == SUBSET {i \in DOMAIN rs : AgnosticV[rs[i].ci] # None}

-----------------------------------------------------------------------------
(* check_tenant_cluster_references.                                        *)

ClusterItems(rs) == {rs[i].ci : i \in {j \in DOMAIN rs : rs[j].cluster \/ rs[j].ci \in ClusterNamed}}

Tier(r) ==
    LET ref == References[r.ci]
    IN  CASE ref = None                                  -> "missing_refs"
          [] ref # None /\ ref \notin DOMAIN pools       -> "ref_no_pool"
          [] OTHER -> IF r.ui \/ pools[ref] > 0 THEN "ready" ELSE "pool_no_capacity"

\* Workshop Manager provisions capacity of its own for such a tenant.
Managed(r) == r.tenant /\ Tier(r) = "ready" /\ r.ui

Blocked(r) == r.tenant /\ Tier(r) \in {"ref_no_pool", "pool_no_capacity"}

HasClusterRow(rs, r) ==
    LET ref == References[r.ci]
    IN  ref # Direct /\ (IF ref = None THEN r.bound ELSE ref) \in ClusterItems(rs)

-----------------------------------------------------------------------------
(* validate_cluster_before_tenant and _tenant_validation.                  *)

\* Left to Flow are the rows of items that Workshop Manager does not look after.
Legacy(rs) ==
    LET of(i) == {rs[j] : j \in {j \in DOMAIN rs : rs[j].ci = rs[i].ci}}
    IN  {i \in DOMAIN rs : (\E r \in of(i) : Managed(r)) => \E r \in of(i) : Blocked(r)}

\* Variant: a tenant may start together with its cluster.
FindingLax(rs, left, r, lookup) ==
    LET hosts == {i \in left : rs[i].cluster /\ rs[i].ci = r.bound}
        host == rs[CHOOSE i \in hosts : \A j \in hosts : j <= i]
    IN  CASE r.bound = None \/ (hosts = {} /\ ~lookup)  -> "warning"
          [] r.bound # None /\ hosts = {} /\ lookup    -> IF r.bound \in claims THEN "ok" ELSE "error"
          [] r.bound # None /\ hosts # {}              -> IF NoDate \in {host.at, r.at} THEN "warning"
                                                         ELSE IF host.at > r.at THEN "error" ELSE "ok"

\* What is found of row r, among the rows that are left to Flow.  Of several rows
\* for a cluster the last one counts.  "lookup" is FALSE if the cluster cannot be
\* asked what it has.
Finding(rs, left, r, lookup) ==
    LET hosts == {i \in left : rs[i].cluster /\ rs[i].ci = r.bound}
        host == rs[CHOOSE i \in hosts : \A j \in hosts : j <= i]
    IN  CASE r.bound = None \/ (hosts = {} /\ ~lookup)  -> "warning"
          [] r.bound # None /\ hosts = {} /\ lookup    -> IF r.bound \in claims THEN "ok" ELSE "error"
          [] r.bound # None /\ hosts # {}              -> IF NoDate \in {host.at, r.at} THEN "warning"
                                                         ELSE IF host.at >= r.at THEN "error" ELSE "ok"

Verdict(rs, lookup) ==
    LET found == {Finding(rs, Legacy(rs), rs[i], lookup) : i \in {j \in Legacy(rs) : rs[j].tenant}}
    IN  IF "error" \in found \/ \E i \in DOMAIN rs : Blocked(rs[i]) THEN "invalid"
        ELSE IF "warning" \in found THEN "warned" ELSE "valid"

-----------------------------------------------------------------------------
(* auto_fix_cluster_tenant_timing.                                         *)

\* When a cluster has to start for a tenant that starts at t.
Start(t) == IF t - Buffer < now THEN now + Lead ELSE t - Buffer

\* Variant: only a cluster that is due already is moved.
MovedWhenLate(k, t) == IF NoDate \notin {k, t} /\ k < now THEN Start(t) ELSE k

\* The date of a cluster that starts at k.
Moved(k, t) ==
    IF NoDate \notin {k, t} /\ (t - k < Buffer \/ k < now) THEN Start(t) ELSE k

\* The tenant rows whose cluster has a row.
Linked(rs) ==
    {i \in DOMAIN rs : rs[i].tenant /\ \E j \in DOMAIN rs : rs[j].cluster /\ rs[j].ci = rs[i].bound}

\* A tenant item counts with the last of its rows only.
Considered(rs) ==
    {i \in Linked(rs) : \A j \in Linked(rs) : rs[j].ci = rs[i].ci => j <= i}

\* Of the tenants of a cluster the last one decides, ...
Decides(rs, i, k) ==
    rs[i].bound = rs[k].ci /\ \A j \in Linked(rs) : rs[j].bound = rs[k].ci => j <= i

\* ... and of the rows of a cluster the first one is moved.
Movable(rs, k) ==
    /\ rs[k].cluster
    /\ \A j \in DOMAIN rs : rs[j].cluster /\ rs[j].ci = rs[k].ci => k <= j
    /\ \E i \in Considered(rs) : rs[i].bound = rs[k].ci

Fixed(rs) ==
    [k \in DOMAIN rs |->
        IF Movable(rs, k)
        THEN [rs[k] EXCEPT !.at = Moved(@, rs[CHOOSE i \in Linked(rs) : Decides(rs, i, k)].at)]
        ELSE rs[k]]

-----------------------------------------------------------------------------
(* auto_provision_missing_clusters.                                        *)

\* The rows with an index in "is", in their order.
Those(rs, is) ==
    LET those[n \in 0..Len(rs)] ==
            IF n = 0 THEN <<>>
            ELSE IF n \in is THEN Append(those[n - 1], rs[n]) ELSE those[n - 1]
    IN  those[Len(rs)]

\* The tenants with nowhere to land, in the order they are taken up.
AtRisk(rs) ==
    LET of(tier) == Those(rs, {i \in DOMAIN rs :
                        rs[i].tenant /\ Tier(rs[i]) = tier /\ ~HasClusterRow(rs, rs[i])})
    IN  of("missing_refs") \o of("ref_no_pool") \o of("pool_no_capacity")

Host(r) == IF r.bound # None THEN r.bound ELSE ByName(r)

\* The date of a tenant whose cluster starts at start.
Pushed(t, start) == IF t - start < Buffer THEN start + Buffer ELSE t

ClusterRow(c, start) ==
    [ci |-> c, label |-> "cluster", override |-> "blank", at |-> start, ui |-> FALSE,
     auto |-> TRUE, cluster |-> TRUE, tenant |-> FALSE, bound |-> None]

\* A tenant found to be at risk is looked up by its item: the last row counts,
\* of those there were before clusters are added.
Last(rs, item) ==
    CHOOSE i \in DOMAIN rs : rs[i].ci = item /\ \A j \in DOMAIN rs : rs[j].ci = item => j <= i

\* A row for the cluster of row i, unless it has one.
Supplied(rs, i) ==
    LET t == rs[i].at
        c == Host(rs[i])
    IN  IF c = None \/ c \in ClusterItems(rs) THEN rs
        ELSE IF t = NoDate THEN Append(rs, ClusterRow(c, NoDate))
        ELSE Append([rs EXCEPT ![i].at = Pushed(t, Start(t))], ClusterRow(c, Start(t)))

Provided(rs) ==
    LET risk == AtRisk(rs)
        provided[n \in 0..Len(risk)] ==
            IF n = 0 THEN rs ELSE Supplied(provided[n - 1], Last(rs, risk[n].ci))
    IN  provided[Len(risk)]

-----------------------------------------------------------------------------
Init ==
    /\ rows = <<>>
    /\ now = 0
    /\ pools \in PoolSets
    /\ claims \in ClaimSets
    /\ report = "nothing"

\* The answer to a request.
Answer(answer) ==
    /\ report' = answer
    /\ UNCHANGED <<now, outside>>

Tick ==
    /\ now < Horizon
    /\ now' = now + 1
    /\ UNCHANGED <<rows, outside, report>>

\* read_csv_input ends with an analysis.  Nothing of the rows loaded before
\* survives, so uploads into an empty list reach the states all uploads reach.
Upload ==
    /\ rows = <<>>
    /\ \E u \in Uploads :
          LET read == [i \in 1..Len(u) |-> ReadRow(u[i])]
          IN  \E answered \in Answers(read) : rows' = Analyzed(read, answered)
    /\ Answer("nothing")

\* update_schedules takes what the client sends, detected fields included.
Edit ==
    \E i \in DOMAIN rows, e \in Edits :
        /\ rows' = [rows EXCEPT ![i].at = e[1], ![i].override = e[2]]
        /\ Answer("nothing")

\* validate_cluster_tenant_scheduling: the analysis stays, even if the pools
\* cannot be read and the request fails.
Validate ==
    /\ rows # <<>>
    /\ \E answered \in Answers(rows) :
          LET rs == Analyzed(rows, answered)
          IN  /\ rows' = rs
              /\ \/ \E lookup \in BOOLEAN : Answer(Verdict(rs, lookup))
                 \/ Answer("nothing")

AutoFix ==
    /\ rows # <<>>
    /\ rows' = Fixed(rows)
    /\ Answer("nothing")

\* An analysis follows if a row has been added.
AutoProvision ==
    /\ Provided(rows) # rows
    /\ \E answered \in Answers(Provided(rows)) : rows' = Analyzed(Provided(rows), answered)
    /\ Answer("nothing")

\* Variant: all cluster rows go.
RemoveAutoAllClusters ==
    LET kept == Those(rows, {i \in DOMAIN rows : ~rows[i].cluster})
    IN  /\ kept # rows
        /\ \E answered \in Answers(kept) : rows' = Analyzed(kept, answered)
        /\ Answer("nothing")

\* The rows that Flow has not added.
Users(rs) == Those(rs, {i \in DOMAIN rs : ~rs[i].auto})

RemoveAuto ==
    LET kept == Users(rows)
    IN  /\ kept # rows
        /\ \E answered \in Answers(kept) : rows' = Analyzed(kept, answered)
        /\ Answer("nothing")

Next == Tick \/ Upload \/ Edit \/ Validate \/ AutoFix \/ AutoProvision \/ RemoveAuto

Spec == Init /\ [][Next]_vars

-----------------------------------------------------------------------------
(* Properties.                                                             *)

\* Each row that is a tenant alone in having its item and its cluster.
Alone(rs, i) ==
    /\ rs[i].tenant
    /\ \A j \in DOMAIN rs \ {i} :
          rs[j].ci # rs[i].ci /\ (rs[j].tenant => Host(rs[j]) # Host(rs[i]))

\* What the validation passes without a word has a place for every tenant to
\* land: a pool, a cluster that exists, or a row that starts before it does,
\* however the rows are mixed and whoever answers.
ValidMeansServed ==
    report = "valid" =>
        \A i \in DOMAIN rows : rows[i].tenant =>
            /\ References[rows[i].ci] \in Items => References[rows[i].ci] \in DOMAIN pools
            /\ \/ Tier(rows[i]) = "ready"
               \/ rows[i].bound \in claims
               \/ \E k \in DOMAIN rows :
                     /\ rows[k].cluster /\ rows[k].ci = rows[i].bound
                     /\ rows[k].at # NoDate /\ rows[k].at < rows[i].at

\* A second auto-fix right after the first has nothing to do.
FixStable == Fixed(Fixed(rows)) = Fixed(rows)

\* After an auto-fix the validation finds nothing wrong with the timing of a
\* tenant that is alone on the one row of its cluster and still far enough off, if
\* there is any time between the two.
FixCures ==
    Buffer > 0 => \A i \in DOMAIN rows :
        (/\ Alone(rows, i) /\ rows[i].at > now + Lead
         /\ \E k \in DOMAIN rows :
               /\ rows[k].cluster /\ rows[k].ci = rows[i].bound /\ rows[k].at # NoDate
               /\ \A j \in DOMAIN rows \ {k} : rows[j].ci # rows[k].ci)
        => Finding(Fixed(rows), DOMAIN rows, rows[i], TRUE) = "ok"

\* A tenant with nowhere to land, alone of its kind, gets a cluster that is
\* at least the buffer ahead of it, whatever the time is.  Rows that are no
\* tenants may stand for others of their item, and must not have its cluster.
ProvisionServes ==
    LET rs == Provided(rows)
    IN  \A i \in DOMAIN rows :
            (/\ Alone(rows, i) /\ Host(rows[i]) # None /\ rows[i].at # NoDate
             /\ \A j \in DOMAIN rows \ {i} : Host(rows[j]) # Host(rows[i])
             /\ \E n \in DOMAIN AtRisk(rows) : AtRisk(rows)[n] = rows[i]
             /\ Host(rows[i]) \notin ClusterItems(rows))
            => \E k \in DOMAIN rs :
                  rs[k].ci = Host(rows[i]) /\ rs[k].cluster /\ rs[i].at - rs[k].at >= Buffer

\* The repairs work: what auto-fix moves stays and is right, and what
\* auto_provision_missing_clusters adds comes in time.
RepairsWork == FixStable /\ FixCures /\ ProvisionServes

\* A row as its owner wrote it.
Written(r) == <<r.ci, r.label, r.override, r.ui>>

\* Repairing the schedules, and taking the repair back, neither loses nor
\* reorders a row of the user, and starts no tenant sooner than its row says.
RepairsKeepRows ==
    [][AutoFix \/ AutoProvision \/ RemoveAuto =>
        LET old == Users(rows)  new == Users(rows')
        IN  /\ Len(new) = Len(old)
            /\ \A i \in DOMAIN old :
                  /\ Written(new[i]) = Written(old[i])
                  /\ ~old[i].cluster => new[i].at >= old[i].at]_vars
=============================================================================
