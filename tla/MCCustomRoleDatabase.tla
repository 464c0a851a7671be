------------------------ MODULE MCCustomRoleDatabase ------------------------
(***************************************************************************)
(* Instances of CustomRoleDatabase for TLC.                                *)
(***************************************************************************)
EXTENDS CustomRoleDatabase

CONSTANT o1

\* The roles a and a__b: the prefix of the first begins the prefix of the second.
MCRoles == {<<"a">>, <<"a", "_", "_", "b">>}
MCOneRole == {<<"a">>}

\* The tables of the controller can be read by o1.
MCPeers == {<<o1, Controller>>}
MCNoPeers == {}
MCTables == {"t", "u"}
MCPartitioned == {<<"s", "u">>}
MCKeywords == {"select", "SELECT", "INSERT", "EXECUTE"}
MCUpper == [k \in MCKeywords |-> IF k = "select" THEN "SELECT" ELSE k]

MCCharacters == {"a", "b", "f", "x", "y", "_", "(", ")", " ", "SETOF", "void"}
MCNames == {<<"f">>, <<"f", "_", "_">>}
MCArgs == {<<>>, <<"x">>, <<"y">>, <<")">>}
MCTypes == [a \in MCArgs |-> IF a = <<"y">> THEN <<"x">> ELSE a]
MCReturns == {<<"void">>, <<"SETOF", " ", "x">>, <<"x", "(">>, <<"x", " ", "x">>}
MCBodies == {"1", "2"}

grant(s, t, ps) == [schema |-> s, table |-> t, privileges |-> ps]
function(args, o) ==
    [name |-> <<"f">>, args |-> args, returns |-> <<"void">>, owningRole |-> o, body |-> "1"]
returning(text) == [function(<<>>, None) EXCEPT !.returns = text]

\* Every table; names that are written in different ways; a system schema, for which
\* no owner is found; a keyword that is not one; a function whose arguments, whose
\* parameter names or whose owner change; texts that are refused.
MCSpecs == [r \in Roles |->
    IF r # <<"a">>
    THEN {[grants |-> {}, functions |-> <<function(<<>>, ControllerUser)>>]}
    ELSE {[grants |-> {grant(All, All, {"select"})}, functions |-> <<function(<<"x">>, None)>>],
          [grants |-> {grant("s", "t", {"SELECT", "INSERT"}), grant("pg", All, {"SELECT"})},
           functions |-> <<returning(<<"SETOF", " ", "x">>)>>],
          [grants |-> {grant(All, "t", {"EXECUTE"})}, functions |-> <<>>],
          [grants |-> {}, functions |-> <<function(<<"y">>, Controller)>>],
          [grants |-> {}, functions |-> <<function(<<")">>, None)>>],
          [grants |-> {}, functions |-> <<returning(<<"x", "(">>)>>],
          [grants |-> {}, functions |-> <<returning(<<"x", " ", "x">>)>>]}]

\* Two functions that differ in their arguments.
MCOverloads == [r \in Roles |->
    {[grants |-> {}, functions |-> <<function(<<>>, None), function(<<"x">>, None)>>]}]

layout(can, db, so, to) ==
    [settable |-> can, databaseOwner |-> db, schemaOwner |-> so, tableOwner |-> to]

\* A schema in which two roles own a table each.
MCLayouts ==
    {layout({o1}, o1, [s \in Schemas |-> o1],
            [t \in Tables |-> CASE t[2] = "t" -> o1 [] t = <<"s", "u">> -> Controller [] OTHER -> None])}
=============================================================================
