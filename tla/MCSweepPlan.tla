------------------------------ MODULE MCSweepPlan -----------------------------
(***************************************************************************)
(* Instances of SweepPlan for TLC.                                         *)
(***************************************************************************)
EXTENDS SweepPlan

CONSTANT None

Axis(keys, values) == [key : keys, values : values]

\* No axis, one, or two with different keys in either order.
AxisLists(axes) ==
    {<<>>} \cup {<<a>> : a \in axes}
           \cup {<<a, b>> : <<a, b>> \in {p \in axes \X axes : p[1].key # p[2].key}}

\* Argument lists: an empty axis, one value, three, an empty and a bad fragment.
ServerAxes ==
    Axis({1, 2}, { <<>>, << <<"-a">> >>, << <<"-a">>, <<"-b", "1">>, <<"-c">> >>,
                   << <<"-a">>, <<>> >>, << <<"--host">> >> })

ParamAxes ==
    Axis({3, 4}, { <<7>>, <<7, 8>>, <<7, 7>>, <<7, -1>> })
    \cup Axis({5}, { <<7, 8>> })

SmallSweeps ==
    [serverArgs : AxisLists(ServerAxes), requestParams : AxisLists(ParamAxes),
     repetitions : {1, 2, 7}, maxCases : {2, 6, 7}]

Denied == {"--host"}
NotJson == {-1}
ReservedKeys == {5}
SomeBaseArgs == { <<>>, <<"-x", "-y">> }
\* The first two are equally fast to the thousandth; the third is faster,
\* though it takes longer.
SomeMeasurements ==
    {[tokens |-> 1, latencyMs |-> 30000], [tokens |-> 1, latencyMs |-> 30001],
     [tokens |-> 2, latencyMs |-> 40000]}
SomeBaseParams == [k \in {4, 6} |-> 0]
===============================================================================
