------------------------------ MODULE MCReality ------------------------------
EXTENDS Reality
MCSkews == {0, 1}
MCSpliced == {"other"}
MCPool == <<"k1", "k2">>
MCServers == {[keys |-> <<>>, names |-> {"site"}, shorts |-> {}],
              [keys |-> <<"own">>, names |-> {}, shorts |-> {"me"}]}
MCClients == {[key |-> None, sni |-> "site", short |-> None],
              [key |-> "own", sni |-> None, short |-> "me"]}
==============================================================================
