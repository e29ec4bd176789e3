------------------------------ MODULE MCQARun ------------------------------
(* Instances of QARun for TLC. *)
EXTENDS QARun

Lab(n, i, ns, d) == [name |-> n, ci |-> i, assets |-> {}, ns |-> ns, day |-> d]

\* The check before a deployment adds a suffix that is missing.
MCCorrected == [i \in {"lab"} |-> "lab.event"]

\* Two files.  One row has no date, another two assets, and "a" is in both files,
\* and in both namespaces of one; two rows of a file are of one item.
MCFiles ==
    [f \in {"monday", "tuesday"} |->
        IF f = "monday" THEN <<Lab("a", "lab", "x", 1), Lab("a", "lab", "y", NoDay)>>
        ELSE <<[Lab("b", "kit", "x", 2) EXCEPT !.assets = {"kit", "lab"}], Lab("a", "kit", "y", 2)>>]

\* A row renamed; one row twice; a longer list; none.
MCEdits ==
    {<<Lab("b", "lab", "x", 1), Lab("a", "lab", "y", 2)>>,
     <<Lab("a", "kit", "x", 1), Lab("a", "kit", "x", 1)>>,
     <<Lab("a", "lab", "x", NoDay), Lab("a", "lab", "y", 2), Lab("b", "kit", "y", 2)>>, <<>>}

Ask4(names, spaces, d, t) == [names |-> names, spaces |-> spaces, day |-> d, type |-> t]

MCRequests ==
    {Ask4({}, {}, NoDay, "1"), Ask4({}, {}, 1, "3"), Ask4({"a"}, {}, NoDay, "both"),
     Ask4({"a", "b"}, {"x"}, NoDay, "all"), Ask4({"a"}, {"x"}, NoDay, "2")}
=============================================================================
