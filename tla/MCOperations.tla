---------------------------- MODULE MCOperations ----------------------------
(* An instance of Operations for TLC. *)
EXTENDS Operations

\* Item x has two workshops and a provision, item y a workshop; the pool of item
\* z is missing, the one of item u is there.
MCKind == <<"workshop", "workshop", "provision", "workshop", "pool", "pool">>
MCItem == <<"x", "x", "x", "y", "z", "u">>

MCRow(item, password) == [item |-> item, password |-> password]

\* Two rows are of the same item, with different passwords.
MCRows == <<MCRow("x", "first"), MCRow("y", "second"), MCRow("x", "third"),
            MCRow("z", ""), MCRow("u", "")>>

Asked(op, value, rows, dry) == [op |-> op, value |-> value, rows |-> rows, dry |-> dry]

MCCalls ==
    {Asked("extend_stop", 1, <<1, 2>>, FALSE),
     Asked("extend_stop", 2, <<1, 2, 3>>, FALSE),
     Asked("extend_stop", 2, <<1>>, TRUE),
     Asked("extend_destroy", 1, <<1, 2>>, FALSE),
     Asked("extend_destroy", 3, <<1>>, FALSE),
     Asked("disable_autostop", 0, <<1, 2>>, FALSE),
     Asked("lock", 0, <<1, 2>>, FALSE),
     Asked("unlock", 0, <<1>>, FALSE),
     Asked("scale", 5, <<1>>, FALSE),
     Asked("update_passwords", 0, <<1, 3>>, FALSE),
     Asked("create_pools", "small", <<4, 5>>, FALSE),
     Asked("create_pools", "large", <<5, 4>>, FALSE)}

MCFirst ==
    [lock |-> <<None, TRUE, None, None, None, None>>,
     stop |-> <<2, None, 2, 3, None, None>>,
     end |-> <<4, 4, 4, 5, None, None>>,
     count |-> <<None, None, 2, None, None, None>>,
     password |-> <<"first", "old", None, "second", None, None>>,
     pool |-> <<None, None, None, None, None, "kept">>]
=============================================================================
