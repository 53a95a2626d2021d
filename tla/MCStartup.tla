------------------------------ MODULE MCStartup ------------------------------
(* Small instances of Startup. *)
EXTENDS Startup, TLC

MCGarbage == <<"garbage">>

Section(n) == [kind |-> "section", name |-> n]
Entry(k, vs) == [kind |-> "entry", key |-> k, values |-> vs, comment |-> <<>>]
Other(kind) == [kind |-> kind]

k == <<"k">>
v == <<"v">>
w == <<"w">>

\* Two sections, one without a name, two keys (one with the name of a section),
\* one and two values, a value with a colon in it, a missing value, a comment
\* behind a value.
Items ==
    {Section(k), Section(<<"s">>), Section(<<>>),
     Entry(k, <<v>>), Entry(k, <<w, <<>>, v>>), Entry(<<"l">>, <<<<"w", ":", "v">>>>),
     [Entry(k, <<w>>) EXCEPT !.comment = <<"#", "v", ",", "]">>],
     Other("stray"), Other("blank"), Other("comment")}

\* All files of up to three lines of these, none of which sets an option.
AnyFiles == UNION {[1 .. n -> Items] : n \in 0 .. 3}

\* Files that set some of the options; "auth" stands for all that is enabled.
OptionFiles ==
    {<<Section(Proxy)>> \o daemon \o verbosity \o toFile \o port \o auth :
        daemon \in {<<>>, <<Entry(<<"daemon_mode">>, <<<<"enabled">>>>)>>},
        verbosity \in {<<>>} \cup {<<Entry(<<"log_verbosity">>, <<<<s>>>>)>> : s \in DOMAIN Rank},
        toFile \in {<<>>, <<Entry(<<"log_to_file">>, <<<<"enabled">>>>)>>},
        port \in {<<>>} \cup {<<Entry(<<"port">>, <<<<p>>>>)>> :
                                p \in {"0", "8080", "65535", "65536", "75616", "none"}},
        auth \in {<<>>, <<Entry(<<"auth">>, <<<<"enabled">>>>)>>}}

MCSections == {k, <<"s">>}
MCWords == MCSections \cup {<<>>, <<"l">>, Proxy, <<"port">>}

MCDocuments == AnyFiles \cup OptionFiles

MCNumber ==
    (<<"0">> :> 0) @@ (<<"8080">> :> 8080) @@ (<<"65535">> :> 65535) @@ (<<"65536">> :> 65536)
        @@ (<<"75616">> :> 75616)

=============================================================================
