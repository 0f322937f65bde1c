-------------------------- MODULE MCFrameworkReport --------------------------
(***************************************************************************)
(* Reports of one or two controls over three input resources; "subject" is  *)
(* alerted on by a rule that did not list it among its inputs.              *)
(***************************************************************************)
EXTENDS FrameworkReport

Response(resources) == [resources |-> resources, exception |-> NoException]
Rule(responses, inputs) == [responses |-> responses, inputs |-> inputs]

InputLists == {<<"a", "b", "c">>, <<"b", "a", "b", "a">>}
ResponseLists ==
    {<< >>, <<Response(<<"a">>)>>, <<Response(<<"a", "b">>), Response(<<"a">>)>>,
     <<Response(<<"b", "subject">>)>>}

Rules == {Rule(x, i) : x \in ResponseLists, i \in InputLists}
Idle == Rule(<< >>, << >>)

Others ==
    {Rule(<<Response(<<"a">>)>>, <<"c", "b">>), Rule(<<Response(<<"b", "subject">>)>>, <<"a", "b">>)}

AllReports ==
    {<<<<x, y>>, <<Idle>>>> : x \in Rules, y \in Others}
    \union {<<<<x>>, <<y>>>> : x \in Rules, y \in Others}

Exception(rules, resources, alertOnly) ==
    [rules |-> rules, resources |-> resources, alertOnly |-> alertOnly]
Everywhere == (1 .. 2) \X (1 .. 2)

AllExceptionLists ==
    {<<Exception(Everywhere, resources, b)>> : resources \in {{"a"}, {"a", "b"}}, b \in BOOLEAN}
    \union {<<Exception(Everywhere, {"subject"}, TRUE), Exception({<<1, 2>>}, {"a", "subject"}, FALSE)>>}

AllBaseScores == {<<3, 2>>, <<2, 0>>, <<0, 0>>}
AllWeight == [id \in {"a", "b", "c", "subject"} |-> IF id = "b" THEN 2 ELSE 1]
AllResourceMaps == {DOMAIN AllWeight, {"b", "c"}}

(* TLC evaluates a definition without parameters once, but one that a        *)
(* constant is replaced with wherever the constant occurs.                   *)
MCReports == AllReports
MCExceptionLists == AllExceptionLists
MCBaseScores == AllBaseScores
MCWeight == AllWeight
MCResourceMaps == AllResourceMaps
=============================================================================
