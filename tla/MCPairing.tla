------------------------------ MODULE MCPairing ------------------------------
(* Constant values for the model-checking run of Pairing.                    *)
EXTENDS Pairing, TLC

\* UTC and India.
ZonesDef == {0, 330}

NumeralsDef == {"0", "1", "4", "5223", "443", "65536"}
TokensDef == NumeralsDef \cup {"[", "]", ":", "-", "relay", "x"}
ValueDef == "0" :> 0 @@ "1" :> 1 @@ "4" :> 4 @@ "5223" :> 5223 @@ "443" :> 443 @@ "65536" :> 65536

Text(host, sid, v, dh) ==
    [scheme |-> TRUE, fp |-> <<0>>, host |-> host, sid |-> sid, v |-> v, dh |-> dh]

Hosts == {<<"relay">>, <<"relay", ":", "443">>, <<"relay", ":", "0">>,
          <<"[", ":", ":", "1", "]">>, <<"[", ":", ":", "1", "]", ":", "443">>, <<"[", "[", "]">>}

InvitationsDef ==
    {Text(h, <<0>>, <<"1", "-", "4">>, <<1>>) : h \in Hosts}
    \cup {Text(<<"relay">>, sid, <<"4">>, dh) : sid \in {<<0>>, <<0, 1>>}, dh \in {<<0>>, <<1, 0>>, <<1>>}}
    \cup {Text(h, <<0>>, <<"4">>, <<0>>) :
             h \in {<<"relay", ":", "65536">>, <<"relay", ":">>, <<"[", "1">>, <<"[", "1", "]", "4">>}}
    \cup {Text(<<"relay">>, <<0>>, v, <<0>>) : v \in {<<>>, <<"4", "-", "1">>, <<"1", "-">>, <<"x">>}}
    \cup {Text(<<"relay">>, <<>>, <<"4">>, <<0>>)}
=============================================================================
