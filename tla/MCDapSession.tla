---------------------------- MODULE MCDapSession -----------------------------
(* Small clients of a DAP session.                                         *)
EXTENDS DapSession, TLC

Entry   == [noDebug |-> FALSE, stopOnEntry |-> TRUE, source |-> "ok"]
Plain   == [noDebug |-> FALSE, stopOnEntry |-> FALSE, source |-> "ok"]
NoDebug == [noDebug |-> TRUE, stopOnEntry |-> FALSE, source |-> "ok"]
Broken  == [noDebug |-> FALSE, stopOnEntry |-> FALSE, source |-> "errors"]
Missing == [noDebug |-> FALSE, stopOnEntry |-> FALSE, source |-> "unreadable"]

EntryLaunches == {Entry, NoDebug, Missing, Broken}
PlainOnly     == {Plain}

(* The middle line has two instructions, line 1 has none.                  *)
SmallLine == (0 :> 0) @@ (1 :> 2) @@ (2 :> 2)
=============================================================================
