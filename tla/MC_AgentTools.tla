---------------------------- MODULE MC_AgentTools ----------------------------
EXTENDS AgentTools, Naturals

Base ==
    [pre |-> 2, post |-> 1, failure |-> 1, deny |-> {}, ask |-> {},
     allow |-> {}, mode |-> "met", prompter |-> TRUE]
MCSettings ==
    {Base,
     [Base EXCEPT !.pre = 0, !.post = 0, !.failure = 0],
     [Base EXCEPT !.pre = 1, !.deny = {"i2"}, !.allow = {"i2"}],
     [Base EXCEPT !.pre = 1, !.ask = {"i2"}, !.mode = "refused", !.allow = {"i1", "i2"}],
     [Base EXCEPT !.mode = "asks", !.allow = {"i1"}, !.pre = 1, !.post = 2],
     [Base EXCEPT !.mode = "asks", !.pre = 1, !.prompter = FALSE]}

MCProcessOf == [c1 |-> "p", c2 |-> "p", c3 |-> "q"]
=============================================================================
