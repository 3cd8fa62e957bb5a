------------------------------ MODULE MCMessage ------------------------------
(* Values of the constants of Message for model checking. *)
EXTENDS Message

Sim(types, elements) == [mask |-> types, val |-> elements]

MCSims ==
  [d1 |-> {Sim({"int"}, <<3>>), Sim({"float", "double"}, <<2>>), Sim({"ints"}, <<>>),
            Sim({"ints"}, <<1>>), Sim({"floats"}, <<1, 2>>), Sim({"ints"}, <<1, 2, 3>>)},
   d2 |-> {Sim({"float"}, <<2>>), Sim({"ints"}, <<1>>), Sim({"data"}, <<"a">>),
            Sim({"data"}, <<"L", "C">>), Sim({"data"}, <<"a", NUL>>),
            Sim({"data"}, <<"a", "L", "C">>)}]

Entry(name, alias, mul) == [name |-> name, alias |-> alias, mul |-> mul]

MCStreams ==
  {<<Entry("d2", "x", 1), Entry("d1", "x", 1)>>,
   <<Entry("d1", "x", 1), Entry("d2", "x", 2), Entry("d1", "y", 2)>>}
==============================================================================
