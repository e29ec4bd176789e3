----------------------------- MODULE MCQAChecks -----------------------------
(* Instances of QAChecks for TLC. *)
EXTENDS QAChecks

\* Two claims, three workshops, two of them with provisions, of two items, and
\* two multi-workshops.
MCKind == <<"claim", "claim", "workshop", "workshop", "provision", "provision", "multi", "multi", "workshop">>
MCItem == <<"x", "x", "x", "y", "x", "y", "x", "y", "x">>
MCOwner == <<None, None, None, None, 3, 4, 1, 2, None>>

Lab(item, ui, multi, begun, ended, showroom) ==
    [item |-> item, ui |-> ui, multi |-> multi, begun |-> begun, ended |-> ended, showroom |-> showroom]

MCSheets ==
    {<<Lab("x", TRUE, FALSE, TRUE, TRUE, TRUE), Lab("y", TRUE, FALSE, FALSE, FALSE, FALSE)>>,
     <<Lab("y", FALSE, FALSE, TRUE, TRUE, FALSE), Lab("x", TRUE, TRUE, TRUE, FALSE, TRUE)>>}

In(h, d) == [health |-> h, differs |-> d]
Fine == In("up", "nothing")

World(c1, c2, w1, w2, p1, p2, m1, m2, w3) == <<c1, c2, w1, w2, p1, p2, m1, m2, w3>>

MCWorlds ==
    {World(Fine, In("down", "seats"), Fine, None, Fine, None, None, None, None),
     World(None, None, Fine, Fine, In("coming", "nothing"), Fine, None, None, Fine),
     World(None, In("coming", "nothing"), None, In("up", "times"), None, In("down", "nothing"), None, Fine, None),
     World(None, None, Fine, None, Fine, None, In("up", "seats"), None, Fine)}
=============================================================================
