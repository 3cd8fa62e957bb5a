------------------------------ MODULE MCConfig ------------------------------
(* Values of the constants of Config for model checking. *)
EXTENDS Config

Item(name, alias, multiplier) ==
  [name |-> name, alias |-> alias, multiplier |-> multiplier]

MCDataRefs ==
  {<<>>, <<Item("n", Absent, Absent), Item("", "b", 2)>>, <<Wrong, Item("n", "a", -1)>>,
   <<Item("n", "a", Wrong)>>}

Stream(enabled, interval, udp, serial, dataRefs) ==
  [enabled |-> enabled, interval |-> interval, udp |-> udp, serial |-> serial,
   dataRefs |-> dataRefs]

MCElements ==
  {Wrong, Stream(Wrong, 1, Given, Absent, <<>>), Stream(FALSE, 1, Given, Absent, <<>>),
   Stream(Absent, 1, Absent, Wrong, <<>>), Stream(Absent, Wrong, Absent, Absent, <<>>),
   Stream(TRUE, 1, Absent, Absent, <<>>)}
    \cup {Stream(TRUE, 9, Given, Given, r) : r \in MCDataRefs}
    \cup {Stream(Absent, Absent, udp, serial, <<Item("n", "a", Wrong)>>) :
            udp \in {Absent, Given}, serial \in {Absent, Given}}
    \cup {Stream(TRUE, 70000, Absent, Given, <<Item("n", "a", 2)>>)}

MCWebs ==
  {Absent} \cup {[enabled |-> e, port |-> p] : e \in {Absent, Wrong, TRUE, FALSE},
                                             p \in {Absent, Wrong, 9000}}

New(web, serverPort, elements) ==
  [web |-> web, serverPort |-> serverPort, streams |-> elements,
   interval |-> Absent, receiver |-> Absent, names |-> <<>>]

MCFiles ==
  {New(web, port, elements) : web \in MCWebs, port \in {Absent, Wrong, 9001},
                             elements \in SeqOf(MCElements, 2)}
    \cup [web : MCWebs, serverPort : {Absent, 9001}, streams : {Absent},
          interval : {Absent, Wrong, 20}, receiver : {Absent, Wrong, Given},
          names : SeqOf({"n", "", Wrong}, 2)]
=============================================================================
