------------------------------ MODULE MCActiveRanges ------------------------------
(* Documents, requests and devices for TLC.                                  *)
EXTENDS ActiveRanges

LowerCase == "cam" :> "cam" @@ "Cam" :> "cam" @@ "other" :> "other"

S(k, t) == Segment(k, <<t>>)
Sec(n, t) == [name |-> n, table |-> t]
EnvTable == "rambase" :> <<"baseaddr">> @@ "cmdtftp" :> <<"tftpboot">>
            @@ "cmdtftpput" :> <<"tftpput">> @@ "soc" :> <<"e">>
Partial == Sec("env", "rambase" :> <<"baseaddr">>)
Default == Sec("default", "soc" :> <<"d">> @@ "port" :> <<"d">>)
User(n, t) == Sec(n, "entry_func" :> <<"user">> @@ "soc" :> <<t>>)
Bare(n) == Sec(n, "port" :> <<"s">>)

Rg(a, s) == [addr |-> a, size |-> s]
W(doc, requests, asks, vs, ranges, mem, le) ==
  [doc |-> doc, requests |-> requests, asks |-> asks, vars |-> vs, ranges |-> ranges,
   memory |-> mem, le |-> le]

\* Any memory with at most one unit that changes now and then, ranges that are even and ranges that are not.
Kinds == {"still", "always", "sometimes"}
Memories == {m \in [0 .. 3 -> Kinds] : Cardinality({u \in 0 .. 3 : m[u] = "sometimes"}) <= 1}
RangeLists == {<<Rg(0, 2), Rg(2, 2)>>, <<Rg(0, 4)>>, <<Rg(2, 1), Rg(0, 2)>>, <<Rg(0, 2), Rg(2, 1)>>,
               <<Rg(0, 1), Rg(1, 1), Rg(3, 1)>>}
Searches ==
  {W(<<Sec("env", EnvTable)>>, {<<S(None, "active")>>}, {<<>>}, NoVariables, r, m, TRUE) :
     r \in RangeLists, m \in Memories}
Shows ==
  {W(<<Sec("env", EnvTable)>>, {<<S(None, "crc32")>>, <<S(None, "active"), S("_1", "44")>>}, {<<>>},
     "_1" :> Plain(<<"44">>), <<Rg(0, 1), Rg(1, 2)>>, m, le) :
     m \in [0 .. 2 -> Kinds], le \in BOOLEAN}

\* Any document and request, a device with and without a slash in a variable.
Docs == {<<Sec("env", EnvTable), Default>>, <<Default, Sec("env", EnvTable), User("Cam", "r")>>,
         <<Sec("env", EnvTable), User("Cam", "r"), Default, User("cam", "s"), User("other", "o")>>,
         <<Partial, Default>>, <<Sec("env", EnvTable), Bare("cam")>>}
Paths == {<<>>, <<S(None, "boot"), S("soc", "q"), S("soc", "p")>>, <<S("soc", "q"), S("rambase", "x")>>}
Asks == {<<>>, <<"soc">>, <<"recv", "soc">>, <<"token">>, <<"rambase", "port">>}
DeviceVars == {NoVariables, "soc" :> Plain(<<"1">>) @@ "rambase" :> Plain(<<"2">>),
               "soc" :> <<Segment(None, <<"1">>), S("port", "2")>> @@ "token" :> Plain(<<"3">>),
               "soc" :> <<Segment(None, <<>>), S("token", "old")>>}
Others == {W(d, Paths, Asks, v, <<>>, [u \in {0} |-> "still"], TRUE) : d \in Docs, v \in DeviceVars}

SomeWorlds == Searches \cup Shows \cup Others
===============================================================================
