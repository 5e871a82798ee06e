------------------------- MODULE MCGraphExtraction -------------------------
(* Two people tables that claim one word, a table two schemas have, one    *)
(* whose name has no canonical form, and files with a line of each kind.   *)
EXTENDS GraphExtraction

CONSTANT unnamed, nofile, nograph

MCTables == {"orders", "persons", "people", "crm.persons", "??"}
MCEntities == {"orders", "persons", "people"}
MCFieldNames == {"id", "personid"}
MCCanonOf == [t \in MCTables |-> CASE t = "crm.persons" -> "persons"
                                   [] t = "??" -> unnamed [] OTHER -> t]

Key == <<<<"orders", "personid">>, <<"persons", "id">>>>

MCDatabases ==
  {[tables |-> {"orders", "persons"},
    columns |-> {<<"orders", "id">>, <<"orders", "personid">>, <<"persons", "id">>},
    keys |-> {}],
   [tables |-> {"orders", "persons", "people", "??"},
    columns |-> {<<"orders", "personid">>, <<"persons", "id">>, <<"people", "id">>, <<"??", "id">>},
    keys |-> {Key, <<<<"??", "id">>, <<"people", "id">>>>}],
   [tables |-> {"orders", "persons", "crm.persons"},
    columns |-> {<<"orders", "personid">>, <<"persons", "id">>, <<"crm.persons", "id">>},
    keys |-> {}]}

MCReferenceNames ==
  [f \in MCEntities \X MCFieldNames |->
     IF f[2] = "id" /\ f[1] = "persons" THEN {"personid"} ELSE {}]
MCGeneric == {"id"}

MCWords == MCEntities \cup {"person", "buyer"}
MCClaims == << <<"orders", "orders">>, <<"people", "people">>, <<"person", "people">>,
               <<"persons", "persons">>, <<"person", "persons">>, <<"person", "persons">> >>

Line(kind, names, fields, tag) == [kind |-> kind, names |-> names, fields |-> fields, tag |-> tag]

MCFiles ==
  {<< Line("entity", <<"person">>, <<>>, ""),
      Line("relationship", <<"person", "orders">>,
           << <<"person", "id">>, <<"orders", "personid">> >>, "one_to_many"),
      Line("enum_value", <<>>, << <<"people", "id">> >>, "") >>,
   << Line("metric", <<"buyer">>, << <<"orders", "id">> >>, "share"),
      Line("metric", <<"orders">>, << <<"person", "id">>, <<"orders", "personid">> >>, "share"),
      Line("refused", <<>>, <<>>, ""),
      Line("scope_predicate", <<"orders">>, << <<"orders", "id">> >>, "") >>,
   << Line("relationship", <<"people", "persons">>, <<>>, "many_to_one"),
      Line("relationship", <<"orders", "people">>,
           << <<"orders", "personid">>, <<"persons", "id">> >>, "one_to_one"),
      Line("malformed", <<>>, <<>>, "") >>}
=============================================================================
