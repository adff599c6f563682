---------------------------- MODULE MCDockerImage ----------------------------
(* Three packages in batches of two, two follow-up pages at most, two       *)
(* threads for three ids: a second chunk, pages that start empty, answers   *)
(* at and over the page limit, and a full pool all happen.                  *)
EXTENDS DockerImage

Doc(keys, n) == [readable |-> TRUE, packages |-> keys, skipped |-> n]
Unreadable == [readable |-> FALSE, packages |-> <<>>, skipped |-> 0]

Pages(list) == [pages |-> list, endless |-> FALSE]

MCAnswers == {Pages(<<{}>>), Pages(<<{"v1"}, {"v2", "v3"}>>), Pages(<<{}, {}, {"v3"}>>),
              [pages |-> <<{"v2"}, {}>>, endless |-> TRUE]}

MCIdOrder == <<"v1", "v2", "v3">>

MCRecords == [v1 |-> [categories |-> {"MODERATE", "other"}, scores |-> {98}],
              v2 |-> [categories |-> {"other"}, scores |-> {70, 31}],
              v3 |-> [categories |-> {}, scores |-> {}]]

MCFileLists == {<<>>, <<Doc(<<"a", "b", "a">>, 0), Unreadable, Doc(<<"b", "c">>, 1)>>,
                <<Unreadable>>, <<Doc(<<"c">>, 2)>>}

MCInventory == [i \in {"old", "new", "broken"} |->
                  IF i = "old" THEN Doc(<<"a">>, 0)
                  ELSE IF i = "new" THEN Doc(<<"b", "a">>, 0) ELSE Unreadable]
=============================================================================
