------------------------------ MODULE MCStartup ------------------------------
(* Two daemons, one home directory, and the configuration texts, variables  *)
(* and flags that reach each branch of the resolution.                      *)
EXTENDS Startup, TLC

CONSTANTS d1, d2

MCLimits == {"agentMessageBytes", "roomRetain", "roomThreshold"}
MCOrdered == {<<"roomRetain", "roomThreshold">>}

V1(change) == [form |-> "v1", document |-> change @@ DefaultDocument]
Old == [bind |-> "", port |-> 0, agentPort |-> 0, data |-> <<>>, runtime |-> <<>>,
        ensure |-> "", approve |-> "", secretOption |-> FALSE]
V0(change) == [form |-> "v0", old |-> change @@ Old]

(* Accepted documents of both versions.                                     *)
GoodRaws ==
    {V1([bind |-> "lan", ensure |-> FALSE]),
     V1([data |-> <<>>, runtime |-> <<>>, approve |-> "true"]),
     V1([data |-> <<"other">>, runtime |-> <<>>,
         tuning |-> [DefaultTuning EXCEPT !["agentMessageBytes"] = 0]]),
     V0([data |-> <<"other">>, port |-> 3]),
     V0([ensure |-> "false", runtime |-> <<"run">>, approve |-> "yes"])}

(* Documents that are refused, at once or when a daemon resolves them.      *)
BadRaws ==
    {[form |-> "malformed"], V1([version |-> 2]), V1([port |-> 2]), V1([port |-> 5]),
     V1([secretOption |-> TRUE]), V1([approve |-> "maybe"]), V0([agentPort |-> 1]),
     V1([tuning |-> [DefaultTuning EXCEPT !["roomRetain"] = 2]]),
     V1([tuning |-> [DefaultTuning EXCEPT !["roomThreshold"] = 0]])}

MCRaws == GoodRaws \union BadRaws

Variable(a, b) == [primary |-> a, legacy |-> b]
Environments ==
    {NoEnvironment} \union
    {change @@ NoEnvironment: change \in
        {[port |-> Variable(3, 4)], [port |-> Variable(Unset, 4)],
         [port |-> Variable(NotANumber, 4)], [port |-> Variable(2, Unset)],
         [bind |-> Variable("lan", "any"), ensure |-> Variable("off", "yes")],
         [bind |-> Variable("", "lan"), data |-> Variable(<<"other">>, <<"old">>)],
         [data |-> Variable(<<>>, <<"old">>), runtime |-> Variable(<<"run">>, <<>>)],
         [ensure |-> Variable("maybe", "")], [config |-> "other.json"],
         [approve |-> Variable("yes", "")], [approve |-> Variable("", "maybe")]}}

AllFlags ==
    {Plain} \union
    {change @@ Plain: change \in
        {[port |-> <<3>>, bind |-> <<"any">>, ensure |-> <<"false">>],
         [port |-> <<NotANumber, 3>>], [port |-> <<3, 0>>], [port |-> <<0, 4>>],
         [data |-> <<<<"other">>>>, approve |-> <<"true", "false">>],
         [plaintextSecret |-> TRUE], [bind |-> <<"lan", "">>], [ensure |-> <<"yes">>],
         [runtime |-> <<<<"run">>>>, approve |-> <<"true">>, ensure |-> <<"false", "true">>],
         [data |-> <<<<"other">>, <<>>>>, ensure |-> <<"true">>],
         [data |-> <<<<"other">>>>, runtime |-> <<<<>>>>],
         [config |-> <<"other.json", "config.json">>], [config |-> <<"other.json">>],
         [config |-> <<"", "config.json">>]}}

MCInputs == [environment: Environments, flags: AllFlags]

Start1(flags, elsewhere) ==
    [environment |-> NoEnvironment, flags |-> flags @@ Plain, elsewhere |-> elsewhere]
MCStarts ==
    {Start1(Plain, {}), Start1(Plain, {"pairing"}), Start1(Plain, {"agent"}),
     Start1([data |-> <<<<"old">>>>], {})}

MCLegacyData == <<"old">>
MCDataDirectories == {DefaultData, <<"other">>, <<"old">>}
Left(archive, loops, pairing) ==
    [archive |-> archive, loops |-> loops, pairing |-> pairing, agent |-> 0]
MCLegacyDisks == {Left(0, 0, 0), Left(2, 2, 2), Left(3, 2, 0), Left(1, 0, 2), Left(0, 2, 1)}
MCNoLegacy == {Left(0, 0, 0)}

Symmetry == Permutations(Daemons)
=============================================================================
