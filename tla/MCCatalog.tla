----------------------------- MODULE MCCatalog -----------------------------
(* Instances of Catalog for TLC. *)
EXTENDS Catalog

It(b, e) == [base |-> b, env |-> e]
Lab(c, ns, u, r) == [ci |-> c, assets |-> {}, ns |-> ns, users |-> u, region |-> r]
Multi(c, assets, u) == [ci |-> c, assets |-> assets, ns |-> None, users |-> u, region |-> None]

\* The old lab has been renamed.
MCAliases == [c \in {It("old", "event")} |-> It("lab", "event")]
MCMost == [c \in Items |-> IF c.base = "lab" THEN 2 ELSE None]
MCAllowed == [c \in Items |-> IF c.env = "prod" THEN {"ohio"} ELSE {}]

\* A name with a namespace of its own; too many users, or a region that only
\* some of the items allow; an alias, and a bare name; two namespaces; a suffix
\* that the aliases do not have; rows with assets, their own item among them.
MCSheets ==
    {<<Lab(It("lab", "event"), "dev", 1, None), Lab(It("lab", "event"), "dev", 3, None)>>,
     <<Lab(It("lab", "bare"), None, 0, "oregon"), Lab(It("old", "bare"), None, 3, None)>>,
     <<Lab(It("lab", "prod"), None, 2, "oregon")>>,
     <<Lab(It("lab", "event"), None, 1, None), Lab(It("lab", "event"), None, 3, None)>>,
     <<Lab(It("lab", "event"), None, 1, None), Lab(It("lab", "event"), "test", 1, None)>>,
     <<Lab(It("lab", "test"), None, 2, "ohio"), Lab(It("lab", "prod"), None, 2, "ohio")>>,
     <<Lab(It("old", "test"), None, 1, None)>>,
     <<Multi(It("lab", "bare"), {It("lab", "bare")}, 1)>>,
     <<Multi(It("old", "prod"), {It("old", "prod"), It("lab", "prod")}, 3)>>}

Cat(event, prod, test, bare) ==
    [c \in Items |-> IF c.base = "old" THEN {}
                     ELSE IF c.env = "event" THEN event ELSE IF c.env = "prod" THEN prod
                     ELSE IF c.env = "test" THEN test ELSE IF c.env = "bare" THEN bare ELSE {}]

MCCatalogs ==
    {Cat({"event"}, {"prod"}, {}, {}), Cat({"event", "dev"}, {}, {}, {}), Cat({}, {"prod"}, {"test"}, {}),
     Cat({"prod"}, {}, {}, {}), Cat({}, {}, {}, {"prod"}), Cat({}, {}, {}, {"test"}),
     [Cat({"event"}, {}, {}, {}) EXCEPT ![It("old", "event")] = {"event"}]}

MCUnsteady == {<<It("lab", "event"), "event">>, <<It("lab", "event"), "dev">>, <<It("lab", "prod"), "prod">>}
=============================================================================
