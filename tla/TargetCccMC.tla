---------------------------- MODULE TargetCccMC ----------------------------
(* Small instances of TargetCcc: the moves of the controller.               *)
EXTENDS TargetCcc

\* Moves: a CCC to all or to some, a transfer to an address, or a kind of its own.
Base == [kind |-> "ccc", code |-> None, def |-> None, good |-> TRUE,
         data |-> <<>>, segs |-> <<>>, to |-> None]
ToAll(code, data) == [Base EXCEPT !.code = code, !.data = data]
Direct(code, segs) == [Base EXCEPT !.code = code, !.segs = segs]
WithDef(m, def) == [m EXCEPT !.def = def]
W(to, data) == [to |-> to, rnw |-> FALSE, data |-> data]
R(to) == [to |-> to, rnw |-> TRUE, data |-> <<>>]
Private(to) == [Base EXCEPT !.kind = "private", !.to = to]
Kind(k) == [Base EXCEPT !.kind = k]

MCPool == <<"d1", "d2", "d3">>

\* Addresses are given by each of the five commands, and taken away.
Assign == {ToAll("SETAASA", <<>>), ToAll("ENTDAA", <<>>),
           Direct("SETDASA", <<W("sm", <<"d1">>), W("x", <<"d3">>), W("sv", <<"d2">>)>>),
           Direct("SETDASA", <<W("sv", <<"d1">>)>>)}
Reassign == {ToAll("RSTDAA", <<>>),
             Direct("SETNEWDA", <<W("main", <<"d3">>), W("x", <<"d2">>)>>),
             Direct("SETNEWDA", <<W("virt", <<"d3">>)>>)}

Sets == {ToAll("ENEC", <<"ibi">>), ToAll("DISEC", <<"ibi">>),
         ToAll("DISEC", <<"hj">>),
         Direct("dDISEC", <<W("x", <<"ibi">>), W("virt", <<"ibi">>)>>),
         Direct("dENEC", <<W("main", <<"ibi">>)>>),
         ToAll("SETMWL", <<"v1">>), ToAll("SETMWL", <<"v1", "v2">>),
         Direct("dSETMWL", <<W("main", <<"v3">>), W("virt", <<"v4", "v5">>)>>),
         ToAll("SETMRL", <<"v1", "v2", "v3">>),
         Direct("dSETMRL", <<W("x", <<"v4", "v5">>), W("main", <<"v4", "v5">>)>>),
         Direct("dSETMRL", <<R("main")>>)}
Gets == {Direct("GETPID", <<R("virt"), R("main")>>), Direct("GETMWL", <<R("main")>>),
         Direct("GETMRL", <<R("virt")>>), Direct("GETBCR", <<R("x"), R("virt")>>),
         Direct("GETSTATUS", <<R("virt")>>), Direct("GETDCR", <<W("main", <<>>), R("main")>>),
         Direct("GETCAPS", <<R("main")>>), WithDef(Direct("GETCAPS", <<R("virt")>>), "93"),
         WithDef(Direct("GETCAPS", <<R("main")>>), "5A"), Direct("dGETMXDS", <<R("main")>>)}
Others == {ToAll("ENTHDR", <<>>), ToAll("ENTDAA", <<>>), [ToAll("ENEC", <<"ibi">>) EXCEPT !.good = FALSE],
           [Direct("GETMWL", <<R("main")>>) EXCEPT !.good = FALSE]}
Rst == {WithDef(ToAll("RSTACT", <<>>), d) : d \in {"00", "01", "02"}}
       \union {WithDef(Direct("dRSTACT", <<W("main", <<>>)>>), d) : d \in {"00", "01", "02"}}
       \union {WithDef(Direct("dRSTACT", <<R("main")>>), d) : d \in {"81", "82"}}
Quiets == {Kind("idle"), Kind("exit")}
Privates == {Private("main"), Private("virt"), Private("d1"), Private("sm")}

Pattern == {Kind("pattern")}
AnyMove == Sets \union Gets \union Others \union Reassign \union Rst \union Pattern
Later == Reassign \union Rst \union Pattern \union Quiets \union Privates \union
         {ToAll("ENTDAA", <<>>), ToAll("ENEC", <<"ibi">>),
          Direct("dSETMRL", <<W("main", <<"v1">>), W("virt", <<"v2", "v3", "v3">>)>>),
          Direct("GETSTATUS", <<R("main")>>), Direct("GETMWL", <<R("main")>>),
          Direct("GETMRL", <<R("virt")>>)}
Finally == Pattern \union Privates \union {Direct("GETMRL", <<R("virt")>>)}
MCPlans == <<Assign \union Pattern, AnyMove, Later, Finally>>

\* Left out of MCPlans: a data byte that looks like the reserved byte, and the
\* codes that act on a wrong T bit.
ResiduePlans == <<Assign, {ToAll("SETMWL", <<"v1", "7E">>),
                           Direct("dSETMWL", <<W("main", <<"v1", "7E">>)>>)},
                  Gets>>
WrongTbitPlans == <<Assign, {[ToAll(c, <<>>) EXCEPT !.good = FALSE] :
                             c \in {"RSTDAA", "SETAASA"}}>>
=============================================================================
