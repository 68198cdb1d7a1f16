-------------------------- MODULE MC_ProbeDocument --------------------------
EXTENDS ProbeDocument

\* The character codes of the version strings: "." is 46, "0" is 48.
MCVersionText ==
  [v \in {"1.3", "1.4", "2.0"} |->
     CASE v = "1.3" -> <<49, 46, 51>>
       [] v = "1.4" -> <<49, 46, 52>>
       [] v = "2.0" -> <<50, 46, 48>>]

MCCellOrder == <<"c1", "c2", "e1">>
MCAtof == [s \in {"", "10"} |-> IF s = "" THEN 0 ELSE 10]
MCAtoi == [s \in {"", "3"} |-> IF s = "" THEN 0 ELSE 3]
MCLowerOf == ("A" :> "a") @@ ("B" :> "b")

\* Type names as characters: every name of up to four characters over A, B
\* and '_' that starts with a letter and does not end with '_'.
MCTypes ==
  {t \in UNION {[1..n -> {"A", "B", "_"}] : n \in 1..4} :
     t[1] # "_" /\ t[Len(t)] # "_"}

\* Every attribute map a data item d1 may be configured with.
Attrs(cats) ==
  [id : {"d1"}, name : {"x"}, type : {<<"A", "_", "B">>}, subType : {"", "ACTUAL"},
   category : cats, nativeUnits : {"", "INCH"}, units : {"", "MILLIMETER"},
   nativeScale : {"", "10"}, significantDigits : {"", "3"}, coordinateSystem : {"", "WORK"}]

NoConstraints == [has |-> FALSE, max |-> FALSE, min |-> FALSE, values |-> 0]
NoDefinition == [has |-> FALSE, desc |-> FALSE, entries |-> <<>>, cells |-> <<>>]

\* A data item with attributes a and nothing else.
Plain(a) == [attrs |-> a, source |-> FALSE, constraints |-> NoConstraints, filters |-> {},
             initial |-> FALSE, reset |-> FALSE, def |-> NoDefinition]

\* A data item with every optional part.
Full(a) == [attrs |-> a, source |-> TRUE,
            constraints |-> [has |-> TRUE, max |-> TRUE, min |-> TRUE, values |-> 2],
            filters |-> {"MINIMUM_DELTA", "PERIOD"}, initial |-> TRUE, reset |-> TRUE,
            def |-> [has |-> TRUE, desc |-> TRUE,
                     entries |-> ("e1" :> [desc |-> TRUE, cells |-> ("c1" :> FALSE)]),
                     cells |-> ("c1" :> TRUE) @@ ("c2" :> FALSE)]]

A(x, t, cat) == [id |-> x, name |-> "", type |-> t, subType |-> "", category |-> cat,
              nativeUnits |-> "", units |-> "", nativeScale |-> "", significantDigits |-> "",
              coordinateSystem |-> ""]

Comp(cls, pre, items, children, comps, rs) ==
  [cls |-> cls, prefix |-> pre, desc |-> FALSE, config |-> <<>>, items |-> items,
   children |-> children, comps |-> comps, refs |-> rs]

DataRef(x) == [type |-> "DATA_ITEM", id |-> x]
CompRef(x) == [type |-> "COMPONENT", id |-> x]

\* A device with every configuration kind, a full data item, two levels of
\* components with and without prefixes, and compositions; the device has
\* the references rs, an axis a data-item reference and a component one.
Tree(cat, rs) ==
  [cls |-> "Device", prefix |-> "", desc |-> TRUE,
   config |-> <<[kind |-> "Sensor", n |-> 1], [kind |-> "Extended", n |-> 0],
                [kind |-> "Relationships", n |-> 0], [kind |-> "Relationships", n |-> 1],
                [kind |-> "Specifications", n |-> 1], [kind |-> "CoordinateSystems", n |-> 0],
                [kind |-> "Other", n |-> 0]>>,
   items |-> <<Full(A("d2", <<"A", "_", "_", "B">>, cat))>>,
   children |-> <<Comp("Axes", "x", <<Plain(A("d3", <<"A", "B">>, cat))>>,
                       <<Comp("Linear", "y", <<Plain(A("d4", <<"B", "_", "A", "B">>, cat))>>, <<>>, <<>>,
                                 <<CompRef("c4")>>)>>, <<>>, <<DataRef("x1"), CompRef("c4")>>),
                  Comp("Controller", "", <<>>, <<>>, <<TRUE, FALSE>>, <<>>)>>,
   comps |-> <<FALSE>>, refs |-> rs]

\* A device holding one data item d1 with attributes a.
One(a) == Comp("Device", "", <<Plain(a)>>, <<>>, <<>>, <<>>)

\* No device, a device holding one data item of each configuration or of
\* each type name, the tree with every list of references, or the tree
\* after a second device.
Devices(cats) ==
  {<<>>} \cup {<<One(a)>> : a \in Attrs(cats)}
    \cup {<<One(A("d1", t, "SAMPLE"))>> : t \in MCTypes}
    \cup {<<Tree(c, rs)>> : c \in cats, rs \in References}
    \cup {<<One(A("d1", <<"A">>, c)), Tree(c, <<DataRef("c4")>>)>> : c \in cats}

MCDeviceList == Devices({"SAMPLE", "EVENT"})
MCDeviceListCondition == Devices({"SAMPLE", "EVENT", "CONDITION"})
=============================================================================
